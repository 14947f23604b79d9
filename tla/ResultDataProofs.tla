---------------------------- MODULE ResultDataProofs ----------------------------
(***************************************************************************)
(* Proofs about the parts that MCResultData puts side by side: the process *)
(* tree and the log, the handles in the logs, the plugins; for any number  *)
(* of processes, events, lines, objects, runs and faults.                  *)
(***************************************************************************)
EXTENDS MCResultData, SeekableStreamProofs, FiniteSetTheorems, WellFoundedInduction, TLAPS

(* A set of naturals has a least element, one that is bounded a greatest.   *)
LEMMA LeastIs ==
  ASSUME NEW S \in SUBSET Nat, S # {}
  PROVE  \E m \in S : \A k \in S : m <= k
<1> DEFINE R == {ss \in Nat \X Nat : ss[1] < ss[2]}
<1>1. OpToRel(<, Nat) = R
  BY DEF OpToRel
<1>2. IsWellFoundedOn(R, Nat)
  BY <1>1, NatLessThanWellFounded
<1>3. PICK x \in S : \A y \in S : ~ (<<y, x>> \in R)
  <2> HIDE DEF R
  <2> QED BY <1>2, WFMin
<1>4. ASSUME NEW y \in S PROVE x <= y
  <2>1. <<y, x>> \in Nat \X Nat /\ <<y, x>>[1] = y /\ <<y, x>>[2] = x
    OBVIOUS
  <2>2. ~ (y < x)
    BY <1>3, <2>1
  <2> QED  BY <2>2
<1> QED  BY <1>4

LEMMA MaxIs ==
  ASSUME NEW n \in Nat, NEW S \in SUBSET (1..n), S # {}
  PROVE  Max(S) \in S /\ \A k \in S : k <= Max(S)
<1> DEFINE T == {i \in Nat : n - i \in S}
<1>1. T \in SUBSET Nat /\ T # {}
  <2>1. PICK s \in S : TRUE
    OBVIOUS
  <2>2. n - s \in Nat /\ n - (n - s) = s
    OBVIOUS
  <2>3. n - s \in T
    BY <2>1, <2>2
  <2> QED BY <2>3
<1>2. PICK m \in T : \A k \in T : m <= k
  <2> HIDE DEF T
  <2> QED BY <1>1, LeastIs
<1>3. n - m \in S /\ \A k \in S : k <= n - m
  <2>1. \A k \in S : n - k \in Nat /\ n - (n - k) = k
    OBVIOUS
  <2>2. \A k \in S : n - k \in T
    BY <2>1
  <2> QED BY <1>2, <2>1, <2>2
<1>4. \E x \in S : \A y \in S : x >= y
  BY <1>3
<1>5. Max(S) \in S /\ \A y \in S : Max(S) >= y
  BY <1>4 DEF Max
<1> QED  BY <1>5

LEMMA MinIs ==
  ASSUME NEW S \in SUBSET Nat, S # {}
  PROVE  Min(S) \in S /\ \A k \in S : Min(S) <= k
  BY LeastIs DEF Min

(* What changing one element of a sequence and adding one do.               *)
LEMMA SeqExcept ==
  ASSUME NEW S, NEW q \in Seq(S), NEW i \in 1..Len(q), NEW x \in S
  PROVE  /\ [q EXCEPT ![i] = x] \in Seq(S) /\ Len([q EXCEPT ![i] = x]) = Len(q)
         /\ \A j \in 1..Len(q) : [q EXCEPT ![i] = x][j] = IF j = i THEN x ELSE q[j]
  OBVIOUS

LEMMA SeqAppend ==
  ASSUME NEW S, NEW q \in Seq(S), NEW x \in S
  PROVE  /\ Append(q, x) \in Seq(S) /\ Len(Append(q, x)) = Len(q) + 1 /\ Len(q) \in Nat
         /\ \A j \in 1..Len(q) : Append(q, x)[j] = q[j]
         /\ Append(q, x)[Len(q) + 1] = x
  OBVIOUS

LEMMA SeqJoin ==
  ASSUME NEW S, NEW q \in Seq(S), NEW t \in Seq(S)
  PROVE  /\ q \o t \in Seq(S) /\ Len(q \o t) = Len(q) + Len(t)
         /\ \A i \in 1..Len(q) : (q \o t)[i] = q[i]
         /\ \A i \in 1..Len(t) : (q \o t)[Len(q) + i] = t[i]
  OBVIOUS

LEMMA SubSeqIs ==
  ASSUME NEW S, NEW q \in Seq(S), NEW w \in 0..Len(q)
  PROVE  /\ SubSeq(q, 1, w) \in Seq(S) /\ Len(SubSeq(q, 1, w)) = w
         /\ \A i \in 1..w : SubSeq(q, 1, w)[i] = q[i]
  OBVIOUS

LEMMA SeqLarger ==
  ASSUME NEW S, NEW q \in Seq(S), NEW T, \A i \in 1..Len(q) : q[i] \in T
  PROVE  q \in Seq(T)
  OBVIOUS


----------------------------------------------------------------------------
(* The process tree                                                         *)

Born(n) == [pid : Pids, ppid : Pids, parent : 0..n, from : Nat, to : Int, ended : BOOLEAN,
            born : 1..n]

(* The parents in the tree are in the tree, which has no more processes     *)
(* than the guest had.                                                      *)
TreeIsBounded ==
  /\ Len(processes) <= Len(guest)
  /\ \A p \in DOMAIN processes : processes[p].parent <= Len(processes)

TreeInv == TreeTypeOK /\ TreeIsBounded /\ TreeIsConsistent

LEMMA GetProcessIs ==
  ASSUME NEW S, processes \in Seq(S), NEW pid
  PROVE  /\ GetProcess(pid) \in 0..Len(processes)
         /\ GetProcess(pid) # 0 => processes[GetProcess(pid)].pid = pid
         /\ \A i \in 1..Len(processes) :
              processes[i].pid = pid => GetProcess(pid) # 0 /\ i <= GetProcess(pid)
<1> DEFINE I == {i \in 1..Len(processes) : processes[i].pid = pid}
<1>1. GetProcess(pid) = IF I # {} THEN Max(I) ELSE 0
  BY DEF GetProcess, SelectLastInSeq
<1>2. Len(processes) \in Nat /\ I \in SUBSET (1..Len(processes))
  OBVIOUS
<1>3. CASE I = {}
  BY <1>1, <1>2, <1>3
<1>4. CASE I # {}
  <2>1. Max(I) \in I /\ \A k \in I : k <= Max(I)
    <3> HIDE DEF I
    <3> QED  BY <1>2, <1>4, MaxIs
  <2> QED  BY <1>1, <1>2, <1>4, <2>1
<1> QED  BY <1>3, <1>4

(* What changes in the tree leaves it consistent, when n processes were.    *)
TreeKept(n) ==
  /\ processes' \in Seq(Born(n)) /\ Len(processes') <= n
  /\ children' \in Seq(SUBSET DOMAIN processes') /\ Len(children') = Len(processes')
  /\ failed' \in BOOLEAN
  /\ \A p \in DOMAIN processes' : processes'[p].parent <= Len(processes')
  /\ TreeIsConsistent'

LEMMA UnchangedKeepsTree ==
  ASSUME TreeInv, UNCHANGED tree PROVE TreeKept(Len(guest))
  BY DEF TreeInv, TreeTypeOK, TreeIsBounded, TreeIsConsistent, TreeKept, tree, Born

LEMMA RaiseKeepsTree ==
  ASSUME TreeInv, Raise PROVE TreeKept(Len(guest))
  BY DEF TreeInv, TreeTypeOK, TreeIsBounded, TreeIsConsistent, TreeKept, Raise, Born

LEMMA MmCleanKeepsTree ==
  ASSUME TreeInv, NEW pid \in Pids, MmClean(pid), uid' \in Int PROVE TreeKept(Len(guest))
<1> DEFINE n == Len(processes)
           p == GetProcess(pid)
<1>1. /\ processes \in Seq(Born(Len(guest))) /\ n \in Nat /\ DOMAIN processes = 1..n
      /\ p \in 0..n
  BY GetProcessIs DEF TreeInv, TreeTypeOK, Born
<1>2. CASE p = 0
  BY <1>2, UnchangedKeepsTree DEF MmClean
<1>3. CASE p # 0
  <2>1. /\ processes' = [processes EXCEPT ![p].to = uid', ![p].ended = TRUE]
        /\ UNCHANGED <<children, failed>>
    BY <1>3 DEF MmClean
  <2> HIDE DEF p
  <2>2. p \in 1..n /\ processes[p] \in Born(Len(guest))
    BY <1>1, <1>3
  <2> DEFINE r == [processes[p] EXCEPT !.to = uid', !.ended = TRUE]
  <2>3. r \in Born(Len(guest)) /\ r.pid = processes[p].pid /\ r.parent = processes[p].parent
        /\ r.ended
    BY <2>2 DEF Born
  <2>4. processes' = [processes EXCEPT ![p] = r]
    BY <1>1, <2>1, <2>2
  <2> HIDE DEF r
  <2>6. /\ processes' \in Seq(Born(Len(guest))) /\ Len(processes') = n /\ DOMAIN processes' = 1..n
        /\ \A q \in 1..n : processes'[q] = IF q = p THEN r ELSE processes[q]
    BY <1>1, <2>2, <2>3, <2>4, SeqExcept
  <2>7. \A q \in 1..n : /\ processes'[q].pid = processes[q].pid
                        /\ processes'[q].parent = processes[q].parent
                        /\ processes[q].ended => processes'[q].ended
    BY <2>3, <2>6
  <2>5. TreeIsConsistent'
    BY <1>1, <2>1, <2>6, <2>7 DEF TreeInv, TreeIsConsistent
  <2> QED  BY <1>1, <2>1, <2>5, <2>6, <2>7 DEF TreeInv, TreeTypeOK, TreeIsBounded, TreeKept
<1> QED  BY <1>2, <1>3

LEMMA ChangeParentKeepsTree ==
  ASSUME TreeInv, NEW p \in DOMAIN processes, NEW new \in DOMAIN processes, ChangeParent(p, new)
  PROVE  TreeKept(Len(guest))
<1> DEFINE n == Len(processes)
           old == processes[p].parent
<1>1. /\ processes \in Seq(Born(Len(guest))) /\ n \in Nat /\ DOMAIN processes = 1..n
      /\ children \in Seq(SUBSET (1..n)) /\ Len(children) = n /\ n <= Len(guest)
      /\ Len(guest) \in Nat
  <2>1. /\ processes \in Seq(Born(Len(guest)))
        /\ guest \in Seq([pid : Pids, ppid : Pids, logged : BOOLEAN])
    BY DEF TreeInv, TreeTypeOK, Born
  <2>2. n \in Nat /\ DOMAIN processes = 1..n /\ Len(guest) \in Nat
    BY <2>1
  <2> QED  BY <2>1, <2>2 DEF TreeInv, TreeTypeOK, TreeIsBounded
<1>2. /\ p \in 1..n /\ new \in 1..n /\ processes[p] \in Born(Len(guest)) /\ old \in 0..n
      /\ processes[new] \in Born(Len(guest))
  <2>1. p \in 1..n /\ new \in 1..n
    BY <1>1
  <2>2. processes[p] \in Born(Len(guest)) /\ processes[new] \in Born(Len(guest))
    BY <1>1, <2>1
  <2>3. old \in 0..Len(guest) /\ old <= n
    BY <1>1, <2>1, <2>2 DEF TreeInv, TreeIsBounded, Born
  <2> QED  BY <1>1, <2>1, <2>2, <2>3
<1>3. processes' = [processes EXCEPT ![p].parent = new, ![p].ppid = processes[new].ppid]
      /\ failed' = failed
  BY DEF ChangeParent
<1>4. /\ processes' \in Seq(Born(Len(guest))) /\ Len(processes') = n /\ DOMAIN processes' = 1..n
      /\ \A q \in 1..n : /\ processes'[q].pid = processes[q].pid
                         /\ processes'[q].parent = IF q = p THEN new ELSE processes[q].parent
                         /\ processes'[q].ended = processes[q].ended
  <2> DEFINE r == [processes[p] EXCEPT !.parent = new, !.ppid = processes[new].ppid]
  <2>1. /\ r \in Born(Len(guest)) /\ r.pid = processes[p].pid /\ r.parent = new
        /\ r.ended = processes[p].ended
    <3>1. new \in 0..Len(guest)
      BY <1>1, <1>2
    <3>2. processes[new].ppid \in Pids
      BY <1>2 DEF Born
    <3> QED  BY <1>2, <3>1, <3>2 DEF Born
  <2>2. processes' = [processes EXCEPT ![p] = r]
    BY <1>1, <1>2, <1>3
  <2> HIDE DEF r
  <2>3. /\ processes' \in Seq(Born(Len(guest))) /\ Len(processes') = n /\ DOMAIN processes' = 1..n
        /\ \A q \in 1..n : processes'[q] = IF q = p THEN r ELSE processes[q]
    BY <1>1, <1>2, <2>1, <2>2, SeqExcept
  <2> QED  BY <2>1, <2>3
<1>5. /\ children' \in Seq(SUBSET (1..n)) /\ Len(children') = n
      /\ \A x, q \in 1..n : q \in children'[x] <=>
           \/ x = new /\ q = p
           \/ q \in children[x] /\ (q = p => x # old)
  <2> DEFINE without == IF old = 0 THEN children ELSE [children EXCEPT ![old] = @ \ {p}]
  <2>1. children' = [without EXCEPT ![new] = @ \cup {p}]
    BY DEF ChangeParent
  <2>2. /\ without \in Seq(SUBSET (1..n)) /\ Len(without) = n
        /\ \A x \in 1..n : without[x] = IF x = old THEN children[x] \ {p} ELSE children[x]
    <3>1. CASE old = 0
      BY <1>1, <3>1
    <3>2. CASE old # 0
      <4>1. old \in 1..n /\ children[old] \ {p} \in SUBSET (1..n)
        BY <1>1, <1>2, <3>2
      <4>2. without = [children EXCEPT ![old] = children[old] \ {p}]
        BY <3>2
      <4> DEFINE C == SUBSET (1..n)
                 c == children[old] \ {p}
      <4>3. children \in Seq(C) /\ Len(children) = n /\ c \in C /\ old \in 1..Len(children)
        BY <1>1, <4>1
      <4>4. without = [children EXCEPT ![old] = c]
        BY <4>2
      <4> HIDE DEF without, old, C, c, n
      <4>5. /\ without \in Seq(C) /\ Len(without) = Len(children)
            /\ \A x \in 1..Len(children) : without[x] = IF x = old THEN c ELSE children[x]
        BY <4>3, <4>4, SeqExcept
      <4> QED  BY <4>3, <4>5 DEF C, c
    <3> QED  BY <3>1, <3>2
  <2> HIDE DEF without
  <2>3. /\ children' \in Seq(SUBSET (1..n)) /\ Len(children') = n
        /\ \A x \in 1..n : children'[x] = IF x = new THEN without[x] \cup {p} ELSE without[x]
    <3>1. children' = [without EXCEPT ![new] = without[new] \cup {p}]
      BY <2>1
    <3>2. without[new] \cup {p} \in SUBSET (1..n)
      <4>1. without[new] \in SUBSET (1..n)
        BY <1>2, <2>2
      <4> QED  BY <1>2, <4>1
    <3> DEFINE C == SUBSET (1..n)
               c == without[new] \cup {p}
    <3>3. without \in Seq(C) /\ Len(without) = n /\ c \in C /\ new \in 1..Len(without)
      BY <1>2, <2>2, <3>2
    <3>4. children' = [without EXCEPT ![new] = c]
      BY <3>1
    <3> HIDE DEF C, c, n
    <3>5. /\ children' \in Seq(C) /\ Len(children') = Len(without)
          /\ \A x \in 1..Len(without) : children'[x] = IF x = new THEN c ELSE without[x]
      BY <3>3, <3>4, SeqExcept
    <3> QED  BY <3>3, <3>5 DEF C, c
  <2>4. ASSUME NEW x \in 1..n
        PROVE  children'[x] = {q \in 1..n : \/ x = new /\ q = p
                                            \/ q \in children[x] /\ (q = p => x # old)}
    <3>1. children[x] \subseteq 1..n
      BY <1>1
    <3>2. without[x] = {q \in 1..n : q \in children[x] /\ (q = p => x # old)}
      BY <2>2, <3>1
    <3>3. children'[x] = IF x = new THEN without[x] \cup {p} ELSE without[x]
      BY <2>3
    <3> QED  BY <1>2, <3>2, <3>3
  <2> QED  BY <2>3, <2>4
<1>6. TreeIsConsistent'
  <2>1. \A x, q \in 1..n : q \in children'[x] <=> processes'[q].parent = x
    BY <1>1, <1>2, <1>4, <1>5 DEF TreeInv, TreeIsConsistent
  <2>2. \A x, q \in 1..n : processes'[x].pid = processes'[q].pid /\ x < q => processes'[x].ended
    BY <1>1, <1>4 DEF TreeInv, TreeIsConsistent
  <2> QED  BY <1>4, <2>1, <2>2 DEF TreeIsConsistent
<1>7. \A q \in DOMAIN processes' : processes'[q].parent <= Len(processes')
  BY <1>1, <1>2, <1>4 DEF TreeInv, TreeIsBounded
<1> QED  BY <1>1, <1>3, <1>4, <1>5, <1>6, <1>7 DEF TreeInv, TreeTypeOK, TreeKept

LEMMA SupersededIs ==
  ASSUME TreeInv, NEW pid \in Pids, NEW from \in Nat
  PROVE  LET S == Superseded(pid, from) IN
         /\ S \in Seq(Born(Len(guest))) /\ Len(S) = Len(processes)
         /\ \A i \in 1..Len(processes) :
              /\ S[i].pid = processes[i].pid /\ S[i].parent = processes[i].parent
              /\ S[i].born = processes[i].born /\ S[i].from = processes[i].from
              /\ \/ S[i].to = processes[i].to /\ S[i].ended = processes[i].ended
                 \/ S[i].pid = pid /\ ~processes[i].ended /\ S[i].to = from - 1 /\ S[i].ended
              /\ processes[i].ended => S[i].ended
              /\ S[i].pid = pid => S[i].ended
<1> DEFINE S == Superseded(pid, from)
           n == Len(processes)
           old == GetProcess(pid)
<1>1. /\ processes \in Seq(Born(Len(guest))) /\ n \in Nat /\ DOMAIN processes = 1..n
      /\ \A i \in 1..n : processes[i] \in Born(Len(guest))
  <2>1. processes \in Seq(Born(Len(guest)))
    BY DEF TreeInv, TreeTypeOK, Born
  <2> QED  BY <2>1
<1>2. /\ old \in 0..n
      /\ old # 0 => processes[old].pid = pid
      /\ \A i \in 1..n : processes[i].pid = pid => old # 0 /\ i <= old
  BY <1>1, GetProcessIs
<1>3. \A i \in 1..n : processes[i].pid = pid /\ i # old => processes[i].ended
  <2>1. \A i \in 1..n : processes[i].pid = pid /\ i # old => i < old /\ old \in 1..n
    BY <1>1, <1>2
  <2> QED  BY <1>1, <1>2, <2>1 DEF TreeInv, TreeIsConsistent
<1>4. CASE old # 0 /\ ~processes[old].ended
  <2> DEFINE r == [processes[old] EXCEPT !.to = from - 1, !.ended = TRUE]
  <2>1. S = [[processes EXCEPT ![old].to = from - 1] EXCEPT ![old].ended = TRUE]
    BY <1>4 DEF Superseded
  <2> HIDE DEF old, S
  <2>2. old \in 1..n /\ processes[old] \in Born(Len(guest))
    BY <1>1, <1>2, <1>4
  <2>3. /\ r \in Born(Len(guest)) /\ r.pid = pid /\ r.parent = processes[old].parent /\ r.ended
        /\ r.born = processes[old].born /\ r.from = processes[old].from /\ r.to = from - 1
    <3>1. from - 1 \in Int
      OBVIOUS
    <3>2. processes[old].pid = pid
      BY <1>2, <1>4
    <3> QED  BY <2>2, <3>1, <3>2 DEF Born
  <2>4. S = [processes EXCEPT ![old] = r]
    BY <1>1, <2>1, <2>2
  <2> HIDE DEF r
  <2>5. /\ S \in Seq(Born(Len(guest))) /\ Len(S) = n
        /\ \A q \in 1..n : S[q] = IF q = old THEN r ELSE processes[q]
    BY <1>1, <2>2, <2>3, <2>4, SeqExcept
  <2> QED  BY <1>2, <1>3, <1>4, <2>2, <2>3, <2>5 DEF S
<1>5. CASE ~ (old # 0 /\ ~processes[old].ended)
  <2>1. S = processes
    BY <1>5 DEF Superseded
  <2> HIDE DEF old, S
  <2> QED  BY <1>1, <1>2, <1>3, <1>5, <2>1 DEF S
<1> QED  BY <1>4, <1>5

(* The new process comes behind those that were.                            *)
LEMMA AddedIs ==
  ASSUME TreeInv, NEW pid \in Pids, NEW ppid \in Pids, NEW from \in Nat,
         AddProcess(pid, ppid, from)
  PROVE  LET n == Len(processes) S == Superseded(pid, from) new == processes'[n + 1] IN
         /\ processes' \in Seq(Born(Len(guest) + 1)) /\ Len(processes') = n + 1
         /\ \A i \in 1..n : processes'[i] = S[i]
         /\ new.pid = pid /\ new.parent = GetProcess(ppid) /\ new.born = Len(guest) + 1
         /\ new.from = from /\ new.to = 0 /\ ~new.ended
<1> DEFINE n == Len(processes)
           m == Len(guest)
           above == GetProcess(ppid)
           S == Superseded(pid, from)
           r == [pid |-> pid, ppid |-> ppid, parent |-> above, from |-> from, to |-> 0,
                 ended |-> FALSE, born |-> m + 1]
<1>0. processes' = Append(S, r)
  BY DEF AddProcess
<1>1. processes \in Seq(Born(m)) /\ m \in Nat /\ n \in Nat /\ n <= m
  <2>1. /\ processes \in Seq(Born(m)) /\ n <= m
        /\ guest \in Seq([pid : Pids, ppid : Pids, logged : BOOLEAN])
    BY DEF TreeInv, TreeTypeOK, TreeIsBounded, Born
  <2> QED  BY <2>1
<1>2. above \in 0..n
  BY <1>1, GetProcessIs
<1>3. S \in Seq(Born(m)) /\ Len(S) = n
  BY SupersededIs
<1> HIDE DEF S, above
<1>4. S \in Seq(Born(m + 1))
  <2>1. \A i \in 1..n : S[i] \in Born(m)
    BY <1>3
  <2>2. Born(m) \subseteq Born(m + 1)
    BY <1>1 DEF Born
  <2> QED  BY <1>3, <2>1, <2>2, SeqLarger
<1>5. /\ r \in Born(m + 1) /\ r.pid = pid /\ r.parent = above /\ r.born = m + 1
      /\ r.from = from /\ r.to = 0 /\ ~r.ended
  BY <1>1, <1>2 DEF Born
<1> HIDE DEF r
<1>6. /\ processes' \in Seq(Born(m + 1)) /\ Len(processes') = n + 1
      /\ \A i \in 1..n : processes'[i] = S[i]
      /\ processes'[n + 1] = r
  BY <1>0, <1>3, <1>4, <1>5, SeqAppend
<1> QED  BY <1>5, <1>6 DEF S, above

LEMMA AddProcessKeepsTree ==
  ASSUME TreeInv, NEW pid \in Pids, NEW ppid \in Pids, NEW from \in Nat,
         AddProcess(pid, ppid, from)
  PROVE  TreeKept(Len(guest) + 1)
<1> DEFINE n == Len(processes)
           m == Len(guest)
           above == GetProcess(ppid)
           S == Superseded(pid, from)
           r == processes'[n + 1]
           siblings == IF above = 0 THEN children
                       ELSE [children EXCEPT ![above] = children[above] \cup {n + 1}]
<1>0. children' = Append(siblings, {}) /\ failed' = failed
  BY DEF AddProcess
<1>1. /\ processes \in Seq(Born(m)) /\ m \in Nat /\ n \in Nat /\ n <= m
      /\ DOMAIN processes = 1..n /\ children \in Seq(SUBSET (1..n)) /\ Len(children) = n
  <2>1. /\ processes \in Seq(Born(m)) /\ n <= m
        /\ guest \in Seq([pid : Pids, ppid : Pids, logged : BOOLEAN])
    BY DEF TreeInv, TreeTypeOK, TreeIsBounded, Born
  <2>2. n \in Nat /\ m \in Nat /\ DOMAIN processes = 1..n
    BY <2>1
  <2> QED  BY <2>1, <2>2 DEF TreeInv, TreeTypeOK
<1>2. above \in 0..n
  BY <1>1, GetProcessIs
<1>3. /\ S \in Seq(Born(m)) /\ Len(S) = n
      /\ \A i \in 1..n : /\ S[i].pid = processes[i].pid /\ S[i].parent = processes[i].parent
                         /\ processes[i].ended => S[i].ended
                         /\ S[i].pid = pid => S[i].ended
  BY SupersededIs
<1>5. r.pid = pid /\ r.parent = above
  BY AddedIs
<1>6. /\ processes' \in Seq(Born(m + 1)) /\ Len(processes') = n + 1
      /\ DOMAIN processes' = 1..(n + 1)
      /\ \A i \in 1..n : processes'[i] = S[i]
      /\ processes'[n + 1] = r
  <2>1. /\ processes' \in Seq(Born(m + 1)) /\ Len(processes') = n + 1
        /\ \A i \in 1..n : processes'[i] = S[i]
    BY AddedIs
  <2> QED  BY <2>1
<1> HIDE DEF S, above, r
<1> DEFINE C == SUBSET (1..(n + 1))
<1>7. children \in Seq(C)
  <2>1. \A i \in 1..Len(children) : children[i] \in SUBSET (1..n)
    BY <1>1
  <2>2. SUBSET (1..n) \subseteq C
    BY <1>1
  <2> QED  BY <1>1, <2>1, <2>2, SeqLarger
<1>8. /\ siblings \in Seq(C) /\ Len(siblings) = n
      /\ \A x \in 1..n : siblings[x] = IF x = above THEN children[x] \cup {n + 1} ELSE children[x]
  <2>1. CASE above = 0
    BY <1>1, <1>7, <2>1
  <2>2. CASE above # 0
    <3> DEFINE c == children[above] \cup {n + 1}
    <3>1. above \in 1..Len(children) /\ siblings = [children EXCEPT ![above] = c]
      BY <1>1, <1>2, <2>2
    <3>2. c \in C
      <4>1. children[above] \in SUBSET (1..n)
        BY <1>1, <3>1
      <4> QED  BY <1>1, <4>1
    <3> HIDE DEF siblings, C, c
    <3>3. /\ siblings \in Seq(C) /\ Len(siblings) = Len(children)
          /\ \A x \in 1..Len(children) : siblings[x] = IF x = above THEN c ELSE children[x]
      BY <1>7, <3>1, <3>2, SeqExcept
    <3> QED  BY <1>1, <3>3 DEF c
  <2> QED  BY <2>1, <2>2
<1> HIDE DEF siblings
<1>9. /\ children' \in Seq(C) /\ Len(children') = n + 1
      /\ \A x \in 1..n : children'[x] = siblings[x]
      /\ children'[n + 1] = {}
  <2>1. {} \in C
    OBVIOUS
  <2> HIDE DEF C
  <2> QED  BY <1>0, <1>8, <2>1, SeqAppend
<1>10. TreeIsConsistent'
  <2>1. ASSUME NEW x \in 1..(n + 1), NEW q \in 1..(n + 1)
        PROVE  q \in children'[x] <=> processes'[q].parent = x
    <3>1. /\ x \in 1..n => children[x] \in SUBSET (1..n)
          /\ q \in 1..n => processes[q].parent <= n
          /\ q \in 1..n => processes[q].parent \in Nat
      <4>1. q \in 1..n => processes[q] \in Born(m)
        BY <1>1
      <4>2. q \in 1..n => processes[q].parent \in Nat
        BY <1>1, <4>1 DEF Born
      <4> QED  BY <1>1, <4>2 DEF TreeInv, TreeIsBounded
    <3>2. CASE x \in 1..n /\ q \in 1..n
      <4>1. q \in children[x] <=> processes[q].parent = x
        BY <1>1, <3>2 DEF TreeInv, TreeIsConsistent
      <4>2. processes'[q].parent = processes[q].parent
        BY <1>3, <1>6, <3>2
      <4>3. q # n + 1
        BY <1>1, <3>2
      <4>4. q \in children'[x] <=> q \in children[x]
        BY <1>8, <1>9, <3>2, <4>3
      <4> QED  BY <4>1, <4>2, <4>4
    <3>3. CASE x = n + 1
      <4>1. children'[x] = {}
        BY <1>9, <3>3
      <4>2. CASE q \in 1..n
        <5>1. processes'[q].parent = processes[q].parent
          BY <1>3, <1>6, <4>2
        <5>2. processes[q].parent \in Nat /\ processes[q].parent <= n
          BY <3>1, <4>2
        <5> QED  BY <1>1, <3>3, <4>1, <5>1, <5>2
      <4>3. CASE q = n + 1
        <5>1. processes'[q].parent = above
          BY <1>5, <1>6, <4>3
        <5> QED  BY <1>1, <1>2, <3>3, <4>1, <5>1
      <4> QED  BY <1>1, <4>2, <4>3
    <3>4. CASE x \in 1..n /\ q = n + 1
      <4>1. processes'[q].parent = above
        BY <1>5, <1>6, <3>4
      <4>2. n + 1 \notin children[x]
        BY <1>1, <3>1, <3>4
      <4>3. q \in children'[x] <=> x = above
        BY <1>8, <1>9, <3>4, <4>2
      <4> QED  BY <4>1, <4>3
    <3> QED  BY <1>1, <3>2, <3>3, <3>4
  <2>2. ASSUME NEW x \in 1..(n + 1), NEW q \in 1..(n + 1),
               processes'[x].pid = processes'[q].pid, x < q
        PROVE  processes'[x].ended
    <3>1. x \in 1..n
      BY <1>1, <2>2
    <3>2. CASE q \in 1..n
      <4>1. processes[x].pid = processes[q].pid
        BY <1>3, <1>6, <2>2, <3>1, <3>2
      <4>2. processes[x].ended
        BY <1>1, <2>2, <3>1, <3>2, <4>1 DEF TreeInv, TreeIsConsistent
      <4> QED  BY <1>3, <1>6, <3>1, <4>2
    <3>3. CASE q = n + 1
      BY <1>3, <1>5, <1>6, <2>2, <3>1, <3>3
    <3> QED  BY <1>1, <3>2, <3>3
  <2> QED  BY <1>6, <2>1, <2>2 DEF TreeIsConsistent
<1>11. \A q \in DOMAIN processes' : processes'[q].parent <= Len(processes')
  <2> SUFFICES ASSUME NEW q \in 1..(n + 1) PROVE processes'[q].parent <= n + 1
    BY <1>6
  <2>1. CASE q \in 1..n
    <3>1. processes[q].parent <= n /\ processes[q] \in Born(m)
      BY <1>1, <2>1 DEF TreeInv, TreeIsBounded
    <3>2. processes[q].parent \in Int
      BY <1>1, <3>1 DEF Born
    <3> QED  BY <1>1, <1>3, <1>6, <2>1, <3>1, <3>2
  <2>2. CASE q = n + 1
    BY <1>1, <1>2, <1>5, <1>6, <2>2
  <2> QED  BY <1>1, <2>1, <2>2
<1>12. failed' \in BOOLEAN
  BY <1>0 DEF TreeInv, TreeTypeOK
<1>13. Len(processes') <= m + 1 /\ Len(children') = Len(processes')
       /\ children' \in Seq(SUBSET DOMAIN processes')
  BY <1>1, <1>6, <1>9
<1> QED  BY <1>6, <1>10, <1>11, <1>12, <1>13 DEF TreeKept

LEMMA TreeBegins == InitTree => TreeInv
<1> SUFFICES ASSUME InitTree PROVE TreeInv
  OBVIOUS
<1>1. guest = <<>> /\ processes = <<>> /\ children = <<>> /\ uid = 0 /\ lost = 0
      /\ owner = [pid \in Pids |-> 0]
  BY DEF InitTree
<1>2. failed \in BOOLEAN
  BY DEF InitTree
<1>3. TreeTypeOK
  BY <1>1, <1>2, TreeAssumption DEF TreeTypeOK
<1> QED  BY <1>1, <1>3 DEF TreeInv, TreeIsBounded, TreeIsConsistent

LEMMA TreeKeptIsMore ==
  ASSUME NEW n \in Nat, TreeKept(n) PROVE TreeKept(n + 1)
<1>1. Len(processes') \in Nat /\ \A i \in 1..Len(processes') : processes'[i] \in Born(n)
  BY DEF TreeKept
<1>2. Born(n) \subseteq Born(n + 1)
  BY DEF Born
<1>3. processes' \in Seq(Born(n + 1))
  BY <1>1, <1>2, SeqLarger DEF TreeKept
<1> QED  BY <1>1, <1>3 DEF TreeKept

LEMMA TreeIsKept ==
  ASSUME TreeInv, TreeKept(Len(guest)), UNCHANGED guest, owner' \in [Pids -> 0..Len(guest)],
         uid' \in 0..MaxEvents, lost' \in 0..MaxLost
  PROVE  TreeInv'
  BY DEF TreeInv, TreeTypeOK, TreeIsBounded, TreeKept, Born

LEMMA BirthIs ==
  ASSUME TreeInv, NEW pid \in Pids, NEW ppid \in Pids, Birth(pid, ppid)
  PROVE  /\ guest' \in Seq([pid : Pids, ppid : Pids, logged : BOOLEAN])
         /\ Len(guest') = Len(guest) + 1 /\ Len(guest) \in Nat
         /\ \A g \in 1..Len(guest) : guest'[g] = guest[g]
         /\ LET new == guest'[Len(guest) + 1] IN
            new.pid = pid /\ new.logged \in BOOLEAN /\ (new.logged <=> lost' = lost)
<1> DEFINE G == [pid : Pids, ppid : Pids, logged : BOOLEAN]
           b == [pid |-> pid, ppid |-> ppid, logged |-> lost' = lost]
<1>1. guest \in Seq(G)
  BY DEF TreeInv, TreeTypeOK
<1>2. b \in G
  <2>1. (lost' = lost) \in BOOLEAN
    OBVIOUS
  <2> QED  BY <2>1
<1>3. guest' = Append(guest, b)
  BY DEF Birth
<1>5. b.pid = pid /\ b.logged \in BOOLEAN /\ (b.logged <=> lost' = lost)
  BY Zenon
<1> HIDE DEF b, G
<1>4. /\ guest' \in Seq(G) /\ Len(guest') = Len(guest) + 1 /\ Len(guest) \in Nat
      /\ \A g \in 1..Len(guest) : guest'[g] = guest[g]
      /\ guest'[Len(guest) + 1] = b
  BY <1>1, <1>2, <1>3, SeqAppend
<1> QED  BY <1>4, <1>5 DEF G

(* A process is born; its line may be lost.                                 *)
LEMMA TreeGrows ==
  ASSUME TreeInv, TreeKept(Len(guest) + 1), NEW pid \in Pids, NEW ppid \in Pids,
         Birth(pid, ppid), uid' \in 0..MaxEvents, lost' \in 0..MaxLost
  PROVE  TreeInv'
<1> DEFINE G == [pid : Pids, ppid : Pids, logged : BOOLEAN]
<1>1. guest \in Seq(G) /\ owner \in [Pids -> 0..Len(guest)]
  BY DEF TreeInv, TreeTypeOK
<1>3. owner' = [owner EXCEPT ![pid] = Len(guest) + 1]
  BY DEF Birth
<1>4. guest' \in Seq(G) /\ Len(guest') = Len(guest) + 1 /\ Len(guest) \in Nat
  BY BirthIs
<1>5. owner' \in [Pids -> 0..Len(guest')]
  BY <1>1, <1>3, <1>4
<1> QED  BY <1>4, <1>5 DEF G, TreeInv, TreeTypeOK, TreeIsBounded, TreeKept, Born

LEMMA TreeStep ==
  ASSUME TreeInv, NextTree PROVE TreeInv'
<1>0. /\ Len(guest) \in Nat /\ uid \in 0..MaxEvents /\ lost \in 0..MaxLost
      /\ owner \in [Pids -> 0..Len(guest)]
      /\ processes \in Seq(Born(Len(guest)))
      /\ \A i \in 1..Len(guest) : guest[i].ppid \in Pids
  <2>1. guest \in Seq([pid : Pids, ppid : Pids, logged : BOOLEAN])
    BY DEF TreeInv, TreeTypeOK
  <2>2. Len(guest) \in Nat /\ \A i \in 1..Len(guest) : guest[i].ppid \in Pids
    <3> DEFINE G == [pid : Pids, ppid : Pids, logged : BOOLEAN]
    <3>1. \A g \in G : g.ppid \in Pids
      OBVIOUS
    <3>2. guest \in Seq(G)
      BY <2>1
    <3> HIDE DEF G
    <3> QED  BY <3>1, <3>2
  <2> QED  BY <2>2 DEF TreeInv, TreeTypeOK, Born
<1>1. Event => uid' \in 0..MaxEvents
  BY <1>0, TreeAssumption DEF Event
<1>2. ASSUME NEW pid \in Pids, NEW ppid \in Pids, RunningProcess(pid, ppid) PROVE TreeInv'
  <2>1. TreeKept(Len(guest) + 1)
    BY <1>2, AddProcessKeepsTree DEF RunningProcess
  <2> QED  BY <1>0, <1>2, <2>1, TreeGrows DEF RunningProcess
<1>3. ASSUME NEW creator \in Pids, NEW pid \in Pids, NEW ppid \in Pids,
             CreateProcess(creator, pid, ppid)
      PROVE  TreeInv'
  <2>1. uid' \in 0..MaxEvents /\ Birth(pid, ppid) /\ Reported(AddProcess(pid, creator, uid'))
    BY <1>1, <1>3 DEF CreateProcess
  <2>2. CASE AddProcess(pid, creator, uid') /\ UNCHANGED lost
    <3>1. TreeKept(Len(guest) + 1)
      BY <2>1, <2>2, AddProcessKeepsTree
    <3> QED  BY <1>0, <2>1, <2>2, <3>1, TreeGrows
  <2>3. CASE lost < MaxLost /\ lost' = lost + 1 /\ UNCHANGED tree
    <3>1. TreeKept(Len(guest) + 1)
      BY <1>0, <2>3, UnchangedKeepsTree, TreeKeptIsMore
    <3>2. lost' \in 0..MaxLost
      BY <1>0, <2>3, TreeAssumption
    <3> QED  BY <2>1, <3>1, <3>2, TreeGrows
  <2> QED  BY <2>1, <2>2, <2>3 DEF Reported
<1>4. ASSUME NEW pid \in Pids, ExitProcess(pid) PROVE TreeInv'
  <2>1. /\ uid' \in 0..MaxEvents /\ guest' = guest /\ owner' \in [Pids -> 0..Len(guest)]
        /\ Reported(MmClean(pid))
    BY <1>0, <1>1, <1>4 DEF ExitProcess
  <2>2. MmClean(pid) => TreeKept(Len(guest))
    BY <2>1, MmCleanKeepsTree
  <2>3. TreeKept(Len(guest)) /\ lost' \in 0..MaxLost
    BY <1>0, <2>1, <2>2, UnchangedKeepsTree, TreeAssumption DEF Reported
  <2> QED  BY <2>1, <2>3, TreeIsKept
<1>5. ASSUME NEW killer \in Pids, NEW pid \in Pids, TerminateProcess(killer, pid) PROVE TreeInv'
  <2>1. /\ uid' \in 0..MaxEvents /\ guest' = guest /\ owner' = owner
        /\ Reported(Terminate(killer, pid))
    BY <1>1, <1>5 DEF TerminateProcess
  <2>2. Terminate(killer, pid) => TreeKept(Len(guest))
    BY UnchangedKeepsTree, RaiseKeepsTree DEF Terminate
  <2>3. TreeKept(Len(guest)) /\ lost' \in 0..MaxLost
    BY <1>0, <2>1, <2>2, UnchangedKeepsTree, TreeAssumption DEF Reported
  <2> QED  BY <1>0, <2>1, <2>3, TreeIsKept
<1>6. ASSUME NEW pid \in Pids, CallMethod(pid) PROVE TreeInv'
  <2> DEFINE ppid == guest[owner[pid]].ppid
  <2>1. /\ uid' \in 0..MaxEvents /\ guest' = guest /\ owner' = owner
        /\ Reported(OtherMethod(pid, ppid))
    BY <1>1, <1>6 DEF CallMethod
  <2>2. OtherMethod(pid, ppid) => TreeKept(Len(guest))
    <3> HIDE DEF ppid
    <3>1. /\ GetProcess(pid) # 0 => GetProcess(pid) \in DOMAIN processes
          /\ GetProcess(ppid) # 0 => GetProcess(ppid) \in DOMAIN processes
      <4>1. GetProcess(pid) \in 0..Len(processes) /\ GetProcess(ppid) \in 0..Len(processes)
        BY <1>0, GetProcessIs
      <4> QED  BY <1>0, <4>1
    <3> QED
      BY <3>1, UnchangedKeepsTree, RaiseKeepsTree, ChangeParentKeepsTree DEF OtherMethod
  <2>3. TreeKept(Len(guest)) /\ lost' \in 0..MaxLost
    BY <1>0, <2>1, <2>2, UnchangedKeepsTree, TreeAssumption DEF Reported
  <2> QED  BY <1>0, <2>1, <2>3, TreeIsKept
<1> QED  BY <1>2, <1>3, <1>4, <1>5, <1>6 DEF NextTree

----------------------------------------------------------------------------
(* The log                                                                  *)

(* The process that has a PID is the last that was born with it.            *)
OwnersAreLast ==
  \A pid \in Pids : owner[pid] # 0 =>
    /\ guest[owner[pid]].pid = pid
    /\ \A g \in DOMAIN guest : guest[g].pid = pid => g <= owner[pid]

(* The processes of the tree are those of the guest whose line was read, in *)
(* the order of their births.                                               *)
TreeFollowsGuest ==
  /\ \A p \in DOMAIN processes : LET g == guest[processes[p].born] IN
       processes[p].pid = g.pid /\ g.logged
  /\ \A p, q \in DOMAIN processes : p < q => processes[p].born < processes[q].born
  /\ \A g \in DOMAIN guest :
       guest[g].logged => \E p \in DOMAIN processes : processes[p].born = g

(* A process lasts until it has ended, which one that has its PID has not.  *)
LivesAreKnown ==
  \A p \in DOMAIN processes :
    /\ processes[p].from <= uid /\ processes[p].to <= uid
    /\ processes[p].ended <=> processes[p].to # 0
    /\ owner[processes[p].pid] = processes[p].born => ~processes[p].ended
    /\ uid = 0 => owner[processes[p].pid] # 0

(* No two processes of a PID last at the same time.                         *)
LivesAreApart ==
  \A p, q \in DOMAIN processes :
    processes[p].pid = processes[q].pid /\ p < q => processes[p].to < processes[q].from

(* A line falls into the life of the process it is about.                   *)
LinesAreCovered ==
  \A i \in DOMAIN lines :
    /\ lines[i].evtid <= uid
    /\ lines[i].pid = guest[lines[i].of].pid
    /\ \A p \in DOMAIN processes :
         processes[p].born = lines[i].of => Covers(processes[p], lines[i].evtid)
    /\ \A j \in DOMAIN lines : i < j => lines[i].evtid <= lines[j].evtid

(* What the tree says of the lives of the processes is right, whatever of   *)
(* the log was lost.                                                        *)
LifeInv ==
  OwnersAreLast /\ TreeFollowsGuest /\ LivesAreKnown /\ LivesAreApart /\ LinesAreCovered

LEMMA LifeTypes ==
  ASSUME TreeInv, LogTypeOK
  PROVE  /\ Len(guest) \in Nat /\ DOMAIN guest = 1..Len(guest)
         /\ Len(processes) \in Nat /\ DOMAIN processes = 1..Len(processes)
         /\ Len(lines) \in Nat /\ DOMAIN lines = 1..Len(lines)
         /\ uid \in Nat /\ \A pid \in Pids : owner[pid] \in 0..Len(guest)
         /\ \A g \in 1..Len(guest) : guest[g].pid \in Pids /\ guest[g].logged \in BOOLEAN
         /\ \A p \in 1..Len(processes) :
              /\ processes[p].pid \in Pids /\ processes[p].from \in Nat
              /\ processes[p].to \in Int /\ processes[p].ended \in BOOLEAN
              /\ processes[p].born \in 1..Len(guest)
         /\ \A i \in 1..Len(lines) :
              /\ lines[i].pid \in Pids /\ lines[i].evtid \in Nat \ {0}
              /\ lines[i].of \in 1..Len(guest)
<1> DEFINE G == [pid : Pids, ppid : Pids, logged : BOOLEAN]
           L == [pid : Pids, evtid : 1..MaxEvents, method : Methods, of : 1..Len(guest)]
           B == Born(Len(guest))
<1>1. guest \in Seq(G) /\ processes \in Seq(B) /\ lines \in Seq(L)
  BY DEF TreeInv, TreeTypeOK, LogTypeOK, Born
<1>2. /\ \A g \in G : g.pid \in Pids /\ g.logged \in BOOLEAN
      /\ \A p \in B : /\ p.pid \in Pids /\ p.from \in Nat /\ p.to \in Int
                       /\ p.ended \in BOOLEAN /\ p.born \in 1..Len(guest)
      /\ \A l \in L : l.pid \in Pids /\ l.evtid \in Nat \ {0} /\ l.of \in 1..Len(guest)
  BY DEF Born
<1> HIDE DEF G, L, B
<1>3. /\ Len(guest) \in Nat /\ DOMAIN guest = 1..Len(guest)
      /\ Len(processes) \in Nat /\ DOMAIN processes = 1..Len(processes)
      /\ Len(lines) \in Nat /\ DOMAIN lines = 1..Len(lines)
      /\ \A g \in 1..Len(guest) : guest[g] \in G
      /\ \A p \in 1..Len(processes) : processes[p] \in B
      /\ \A i \in 1..Len(lines) : lines[i] \in L
  BY <1>1
<1>4. uid \in Nat /\ \A pid \in Pids : owner[pid] \in 0..Len(guest)
  BY TreeAssumption DEF TreeInv, TreeTypeOK
<1> QED  BY <1>2, <1>3, <1>4

(* What is known of the life of one process.                                *)
LEMMA LifeOf ==
  ASSUME TreeInv, LogTypeOK, LifeInv, NEW p \in 1..Len(processes)
  PROVE  /\ processes[p].from <= uid /\ processes[p].to <= uid
         /\ processes[p].ended <=> processes[p].to # 0
         /\ owner[processes[p].pid] = processes[p].born => ~processes[p].ended
         /\ processes[p].from \in Nat /\ processes[p].to \in Int /\ processes[p].pid \in Pids
         /\ processes[p].born \in 1..Len(guest) /\ processes[p].born \in Nat \ {0}
<1>1. /\ processes[p].from \in Nat /\ processes[p].to \in Int /\ processes[p].pid \in Pids
      /\ processes[p].born \in 1..Len(guest) /\ DOMAIN processes = 1..Len(processes)
      /\ Len(guest) \in Nat
  BY LifeTypes
<1>2. LivesAreKnown
  BY DEF LifeInv
<1> QED  BY <1>1, <1>2 DEF LivesAreKnown

LEMMA LineIs ==
  ASSUME TreeInv, LogTypeOK, LifeInv, NEW i \in 1..Len(lines)
  PROVE  /\ lines[i].evtid <= uid /\ lines[i].pid = guest[lines[i].of].pid
         /\ \A p \in 1..Len(processes) :
              processes[p].born = lines[i].of => Covers(processes[p], lines[i].evtid)
         /\ \A j \in 1..Len(lines) : i < j => lines[i].evtid <= lines[j].evtid
         /\ lines[i].evtid \in Nat \ {0} /\ lines[i].of \in 1..Len(guest)
<1>1. /\ DOMAIN processes = 1..Len(processes) /\ DOMAIN lines = 1..Len(lines)
      /\ lines[i].evtid \in Nat \ {0} /\ lines[i].of \in 1..Len(guest)
  BY LifeTypes
<1>2. LinesAreCovered
  BY DEF LifeInv
<1> QED  BY <1>1, <1>2 DEF LinesAreCovered

SameLife(p) ==
  /\ processes'[p].pid = processes[p].pid /\ processes'[p].born = processes[p].born
  /\ processes'[p].from = processes[p].from

SameEnd(p) == processes'[p].to = processes[p].to /\ processes'[p].ended = processes[p].ended

(* No process is added, and no other than e is taken to have ended.         *)
Ends(e) ==
  /\ Len(processes') = Len(processes)
  /\ \A p \in 1..Len(processes) :
       /\ SameLife(p)
       /\ IF p = e THEN processes'[p].to = uid' /\ processes'[p].ended ELSE SameEnd(p)

(* No process is born; the one that has ended is the last of its PID.       *)
LEMMA LivesGoOn ==
  ASSUME TreeInv, LogTypeOK, LifeInv, TreeInv', UNCHANGED <<guest, lines>>, uid' = uid + 1,
         \A pid \in Pids : owner'[pid] \in {0, owner[pid]},
         NEW e \in 0..Len(processes), Ends(e),
         e # 0 => /\ owner'[processes[e].pid] = 0
                  /\ \A q \in 1..Len(processes) : processes[q].pid = processes[e].pid => q <= e
  PROVE  LifeInv'
<1> DEFINE n == Len(processes)
<1>1. DOMAIN processes' = 1..n /\ n \in Nat /\ uid \in Nat
  <2>1. processes' \in Seq(Born(Len(guest))')
    BY DEF TreeInv, TreeTypeOK, Born
  <2> QED  BY <2>1, LifeTypes DEF Ends
<1>2. OwnersAreLast'
  BY LifeTypes DEF LifeInv, OwnersAreLast
<1>3. TreeFollowsGuest'
  <2>1. \A p \in 1..n : SameLife(p)
    BY DEF Ends
  <2>2. \A p \in 1..n : processes'[p].pid = guest[processes[p].born].pid
                      /\ guest[processes'[p].born].logged
    BY <2>1, LifeTypes DEF LifeInv, TreeFollowsGuest, SameLife
  <2>3. \A p, q \in 1..n : p < q => processes'[p].born < processes'[q].born
    BY <2>1, LifeTypes DEF LifeInv, TreeFollowsGuest, SameLife
  <2>4. ASSUME NEW g \in DOMAIN guest, guest[g].logged
        PROVE  \E p \in 1..n : processes'[p].born = g
    <3>1. PICK p \in 1..n : processes[p].born = g
      BY <2>4, LifeTypes DEF LifeInv, TreeFollowsGuest
    <3> QED  BY <2>1, <3>1 DEF SameLife
  <2> QED  BY <1>1, <2>1, <2>2, <2>3, <2>4 DEF TreeFollowsGuest, SameLife
<1>4. LivesAreKnown'
  <2> SUFFICES ASSUME NEW p \in 1..n
      PROVE  /\ processes'[p].from <= uid' /\ processes'[p].to <= uid'
             /\ processes'[p].ended <=> processes'[p].to # 0
             /\ owner'[processes'[p].pid] = processes'[p].born => ~processes'[p].ended
    BY <1>1 DEF LivesAreKnown
  <2>1. /\ processes[p].from <= uid /\ processes[p].to <= uid
        /\ processes[p].ended <=> processes[p].to # 0
        /\ owner[processes[p].pid] = processes[p].born => ~processes[p].ended
        /\ processes[p].from \in Nat /\ processes[p].to \in Int /\ processes[p].pid \in Pids
        /\ processes[p].born \in Nat \ {0}
    BY LifeOf
  <2>2. CASE p = e
    BY <1>1, <2>1, <2>2 DEF Ends, SameLife
  <2>3. CASE p # e
    BY <1>1, <2>1, <2>3 DEF Ends, SameLife, SameEnd
  <2> QED  BY <2>2, <2>3
<1>5. LivesAreApart'
  <2> SUFFICES ASSUME NEW p \in 1..n, NEW q \in 1..n, processes[p].pid = processes[q].pid, p < q
               PROVE  processes'[p].to < processes'[q].from
    BY <1>1 DEF LivesAreApart, Ends, SameLife
  <2>1. processes[p].to < processes[q].from
    BY <1>1, LifeTypes DEF LifeInv, LivesAreApart
  <2>2. p # e
    BY <1>1
  <2> QED  BY <2>1, <2>2 DEF Ends, SameLife, SameEnd
<1>6. LinesAreCovered'
  <2> SUFFICES ASSUME NEW i \in 1..Len(lines)
      PROVE  /\ lines[i].evtid <= uid' /\ lines[i].pid = guest[lines[i].of].pid
             /\ \A p \in 1..n :
                  processes'[p].born = lines[i].of => Covers(processes'[p], lines[i].evtid)
             /\ \A j \in 1..Len(lines) : i < j => lines[i].evtid <= lines[j].evtid
    BY <1>1, LifeTypes DEF LinesAreCovered
  <2>1. /\ lines[i].evtid <= uid /\ lines[i].pid = guest[lines[i].of].pid
        /\ \A p \in 1..n :
             processes[p].born = lines[i].of => Covers(processes[p], lines[i].evtid)
        /\ \A j \in 1..Len(lines) : i < j => lines[i].evtid <= lines[j].evtid
        /\ lines[i].evtid \in Nat
    BY LineIs
  <2>2. ASSUME NEW p \in 1..n, processes'[p].born = lines[i].of
        PROVE  Covers(processes'[p], lines[i].evtid)
    <3>1. Covers(processes[p], lines[i].evtid)
      BY <2>1, <2>2 DEF Ends, SameLife
    <3> QED  BY <1>1, <2>1, <3>1 DEF Covers, Ends, SameLife, SameEnd
  <2> QED  BY <1>1, <2>1, <2>2
<1> QED  BY <1>2, <1>3, <1>4, <1>5, <1>6 DEF LifeInv

(* A process whose line is lost is born.                                    *)
LEMMA BirthUnseen ==
  ASSUME TreeInv, LogTypeOK, LifeInv, TreeInv', UNCHANGED lines, uid' = uid + 1,
         NEW pid \in Pids, NEW ppid \in Pids, Birth(pid, ppid), lost' # lost, Ends(0)
  PROVE  LifeInv'
<1> DEFINE n == Len(processes)
           m == Len(guest)
<1>1. /\ DOMAIN processes' = 1..n /\ n \in Nat /\ uid \in Nat /\ m \in Nat
      /\ DOMAIN guest' = 1..(m + 1) /\ \A g \in 1..m : guest'[g] = guest[g]
      /\ guest'[m + 1].pid = pid /\ ~guest'[m + 1].logged
      /\ owner \in [Pids -> 0..m] /\ owner' = [owner EXCEPT ![pid] = m + 1]
  <2>1. processes' \in Seq(Born(Len(guest))') /\ owner \in [Pids -> 0..m]
    BY DEF TreeInv, TreeTypeOK, Born
  <2>2. DOMAIN processes' = 1..n
    BY <2>1 DEF Ends
  <2>3. /\ Len(guest') = m + 1 /\ \A g \in 1..m : guest'[g] = guest[g]
        /\ guest'[m + 1].pid = pid /\ ~guest'[m + 1].logged
        /\ guest' \in Seq([pid : Pids, ppid : Pids, logged : BOOLEAN])
    BY BirthIs
  <2> QED  BY <2>1, <2>2, <2>3, LifeTypes DEF Birth
<1>2. \A p \in 1..n : SameLife(p) /\ SameEnd(p)
  BY DEF Ends
<1>3. OwnersAreLast'
  <2> SUFFICES ASSUME NEW x \in Pids, owner'[x] # 0
      PROVE  /\ guest'[owner'[x]].pid = x
             /\ \A g \in 1..(m + 1) : guest'[g].pid = x => g <= owner'[x]
    BY <1>1 DEF OwnersAreLast
  <2>1. CASE x = pid
    BY <1>1, <2>1
  <2>2. CASE x # pid
    <3>1. owner'[x] = owner[x] /\ owner[x] \in 1..m
      BY <1>1, <2>2
    <3>2. guest[owner[x]].pid = x /\ \A g \in 1..m : guest[g].pid = x => g <= owner[x]
      BY <3>1, LifeTypes DEF LifeInv, OwnersAreLast
    <3>3. \A g \in 1..(m + 1) : guest'[g].pid = x => g \in 1..m
      BY <1>1, <2>2
    <3> QED  BY <1>1, <3>1, <3>2, <3>3
  <2> QED  BY <2>1, <2>2
<1>4. TreeFollowsGuest'
  <2>1. \A p \in 1..n : /\ processes[p].born \in 1..m
                        /\ processes[p].pid = guest[processes[p].born].pid
                        /\ guest[processes[p].born].logged
    BY LifeTypes DEF LifeInv, TreeFollowsGuest
  <2>2. \A p, q \in 1..n : p < q => processes[p].born < processes[q].born
    BY LifeTypes DEF LifeInv, TreeFollowsGuest
  <2>3. \A g \in 1..m : guest[g].logged => \E p \in 1..n : processes[p].born = g
    BY LifeTypes DEF LifeInv, TreeFollowsGuest
  <2>4. \A g \in 1..(m + 1) : guest'[g].logged => g \in 1..m
    BY <1>1
  <2>5. ASSUME NEW g \in 1..(m + 1), guest'[g].logged
        PROVE  \E p \in 1..n : processes'[p].born = g
    <3>1. PICK p \in 1..n : processes[p].born = g
      BY <1>1, <2>3, <2>4, <2>5
    <3> QED  BY <1>2, <3>1 DEF SameLife
  <2>6. \A p \in 1..n : /\ processes'[p].pid = guest'[processes'[p].born].pid
                        /\ guest'[processes'[p].born].logged
    BY <1>1, <1>2, <2>1 DEF SameLife
  <2>7. \A p, q \in 1..n : p < q => processes'[p].born < processes'[q].born
    BY <1>2, <2>2 DEF SameLife
  <2> QED  BY <1>1, <2>5, <2>6, <2>7 DEF TreeFollowsGuest
<1>5. LivesAreKnown'
  <2> SUFFICES ASSUME NEW p \in 1..n
      PROVE  /\ processes'[p].from <= uid' /\ processes'[p].to <= uid'
             /\ processes'[p].ended <=> processes'[p].to # 0
             /\ owner'[processes'[p].pid] = processes'[p].born => ~processes'[p].ended
    BY <1>1 DEF LivesAreKnown
  <2>1. /\ processes[p].from <= uid /\ processes[p].to <= uid
        /\ processes[p].ended <=> processes[p].to # 0
        /\ owner[processes[p].pid] = processes[p].born => ~processes[p].ended
        /\ processes[p].from \in Nat /\ processes[p].to \in Int /\ processes[p].pid \in Pids
        /\ processes[p].born \in 1..m
    BY LifeOf
  <2>2. SameLife(p) /\ SameEnd(p)
    BY <1>2
  <2>3. owner'[processes[p].pid] = processes[p].born => ~processes[p].ended
    <3>1. owner'[processes[p].pid] \in {owner[processes[p].pid], m + 1}
      BY <1>1, <2>1
    <3> QED  BY <1>1, <2>1, <3>1
  <2>4. processes[p].from <= uid' /\ processes[p].to <= uid'
    BY <1>1, <2>1
  <2> QED  BY <2>1, <2>2, <2>3, <2>4 DEF SameLife, SameEnd
<1>6. LivesAreApart'
  <2> SUFFICES ASSUME NEW p \in 1..n, NEW q \in 1..n,
                      processes'[p].pid = processes'[q].pid, p < q
               PROVE  processes'[p].to < processes'[q].from
    BY <1>1 DEF LivesAreApart
  <2>1. SameLife(p) /\ SameEnd(p) /\ SameLife(q)
    BY <1>2
  <2>2. DOMAIN processes = 1..n
    BY LifeTypes
  <2> QED  BY <2>1, <2>2 DEF LifeInv, LivesAreApart, SameLife, SameEnd
<1>7. LinesAreCovered'
  <2> SUFFICES ASSUME NEW i \in 1..Len(lines)
      PROVE  /\ lines[i].evtid <= uid' /\ lines[i].pid = guest'[lines[i].of].pid
             /\ \A p \in 1..n :
                  processes'[p].born = lines[i].of => Covers(processes'[p], lines[i].evtid)
             /\ \A j \in 1..Len(lines) : i < j => lines[i].evtid <= lines[j].evtid
    BY <1>1, LifeTypes DEF LinesAreCovered
  <2>1. /\ lines[i].evtid <= uid /\ lines[i].pid = guest[lines[i].of].pid
        /\ \A p \in 1..n :
             processes[p].born = lines[i].of => Covers(processes[p], lines[i].evtid)
        /\ \A j \in 1..Len(lines) : i < j => lines[i].evtid <= lines[j].evtid
        /\ lines[i].evtid \in Nat /\ lines[i].of \in 1..m
    BY LineIs
  <2>2. ASSUME NEW p \in 1..n, processes'[p].born = lines[i].of
        PROVE  Covers(processes'[p], lines[i].evtid)
    <3>1. SameLife(p) /\ SameEnd(p)
      BY <1>2
    <3>2. Covers(processes[p], lines[i].evtid)
      BY <2>1, <2>2, <3>1 DEF SameLife
    <3> QED  BY <3>1, <3>2 DEF Covers, SameLife, SameEnd
  <2>3. lines[i].evtid <= uid'
    BY <1>1, <2>1
  <2>4. guest'[lines[i].of] = guest[lines[i].of]
    BY <1>1, <2>1
  <2> QED  BY <2>1, <2>2, <2>3, <2>4
<1> QED  BY <1>3, <1>4, <1>5, <1>6, <1>7 DEF LifeInv

(* A process whose line is read is born: when the guest is looked at first, *)
(* or by another one, when nobody has its PID.                              *)
LEMMA BirthSeen ==
  ASSUME TreeInv, LogTypeOK, LifeInv, TreeInv', UNCHANGED <<lines, lost>>,
         NEW pid \in Pids, NEW ppid \in Pids, Birth(pid, ppid),
         NEW by \in Pids, NEW from \in Nat, uid' = from, AddProcess(pid, by, from),
         (uid = 0 /\ uid' = 0) \/ (uid' = uid + 1 /\ owner[pid] = 0)
  PROVE  LifeInv'
<1> DEFINE n == Len(processes)
           m == Len(guest)
           new == processes'[n + 1]
<1>1. /\ DOMAIN processes' = 1..(n + 1) /\ n \in Nat /\ uid \in Nat /\ m \in Nat
      /\ DOMAIN guest' = 1..(m + 1) /\ \A g \in 1..m : guest'[g] = guest[g]
      /\ guest'[m + 1].pid = pid /\ guest'[m + 1].logged
      /\ owner \in [Pids -> 0..m] /\ owner' = [owner EXCEPT ![pid] = m + 1]
  <2>1. processes' \in Seq(Born(m + 1)) /\ Len(processes') = n + 1
    BY AddedIs
  <2>2. owner \in [Pids -> 0..m]
    BY DEF TreeInv, TreeTypeOK
  <2>3. /\ Len(guest') = m + 1 /\ \A g \in 1..m : guest'[g] = guest[g]
        /\ guest'[m + 1].pid = pid /\ guest'[m + 1].logged
        /\ guest' \in Seq([pid : Pids, ppid : Pids, logged : BOOLEAN])
    BY BirthIs
  <2> QED  BY <2>1, <2>2, <2>3, LifeTypes DEF Birth
<1>2. /\ new.pid = pid /\ new.born = m + 1 /\ new.from = from /\ new.to = 0 /\ ~new.ended
      /\ \A p \in 1..n :
           /\ SameLife(p)
           /\ \/ SameEnd(p)
              \/ /\ processes[p].pid = pid /\ ~processes[p].ended
                 /\ processes'[p].to = from - 1 /\ processes'[p].ended
           /\ processes[p].ended => SameEnd(p)
           /\ processes[p].pid = pid => processes'[p].ended
  <2>1. /\ \A p \in 1..n : processes'[p] = Superseded(pid, from)[p]
        /\ new.pid = pid /\ new.born = m + 1 /\ new.from = from /\ new.to = 0 /\ ~new.ended
    BY AddedIs
  <2> QED  BY <2>1, SupersededIs DEF SameLife, SameEnd
<1> HIDE DEF new
<1>3. \A p \in 1..n :
        /\ processes[p].from <= uid /\ processes[p].to <= uid
        /\ processes[p].ended <=> processes[p].to # 0
        /\ owner[processes[p].pid] = processes[p].born => ~processes[p].ended
        /\ uid = 0 => owner[processes[p].pid] # 0
        /\ processes[p].from \in Nat /\ processes[p].to \in Int /\ processes[p].pid \in Pids
        /\ processes[p].born \in 1..m
  BY LifeTypes DEF LifeInv, LivesAreKnown
<1>4. OwnersAreLast'
  <2> SUFFICES ASSUME NEW x \in Pids, owner'[x] # 0
      PROVE  /\ guest'[owner'[x]].pid = x
             /\ \A g \in 1..(m + 1) : guest'[g].pid = x => g <= owner'[x]
    BY <1>1 DEF OwnersAreLast
  <2>1. CASE x = pid
    BY <1>1, <2>1
  <2>2. CASE x # pid
    <3>1. owner'[x] = owner[x] /\ owner[x] \in 1..m
      BY <1>1, <2>2
    <3>2. guest[owner[x]].pid = x /\ \A g \in 1..m : guest[g].pid = x => g <= owner[x]
      BY <3>1, LifeTypes DEF LifeInv, OwnersAreLast
    <3>3. \A g \in 1..(m + 1) : guest'[g].pid = x => g \in 1..m
      BY <1>1, <2>2
    <3> QED  BY <1>1, <3>1, <3>2, <3>3
  <2> QED  BY <2>1, <2>2
<1>5. TreeFollowsGuest'
  <2>1. \A p \in 1..n : /\ processes[p].pid = guest[processes[p].born].pid
                        /\ guest[processes[p].born].logged
    BY LifeTypes DEF LifeInv, TreeFollowsGuest
  <2>2. \A p, q \in 1..n : p < q => processes[p].born < processes[q].born
    BY LifeTypes DEF LifeInv, TreeFollowsGuest
  <2>3. \A g \in 1..m : guest[g].logged => \E p \in 1..n : processes[p].born = g
    BY LifeTypes DEF LifeInv, TreeFollowsGuest
  <2>4. \A p \in 1..(n + 1) : /\ processes'[p].pid = guest'[processes'[p].born].pid
                              /\ guest'[processes'[p].born].logged
    <3> SUFFICES ASSUME NEW p \in 1..(n + 1)
        PROVE  /\ processes'[p].pid = guest'[processes'[p].born].pid
               /\ guest'[processes'[p].born].logged
      OBVIOUS
    <3>1. CASE p \in 1..n
      <4>1. SameLife(p) /\ processes[p].born \in 1..m
        BY <1>2, <1>3, <3>1
      <4>2. guest'[processes[p].born] = guest[processes[p].born]
        BY <1>1, <4>1
      <4> QED  BY <2>1, <3>1, <4>1, <4>2 DEF SameLife
    <3>2. CASE p = n + 1
      BY <1>1, <1>2, <3>2 DEF new
    <3> QED  BY <1>1, <3>1, <3>2
  <2>5. \A p, q \in 1..(n + 1) : p < q => processes'[p].born < processes'[q].born
    <3> SUFFICES ASSUME NEW p \in 1..(n + 1), NEW q \in 1..(n + 1), p < q
                 PROVE  processes'[p].born < processes'[q].born
      OBVIOUS
    <3>1. p \in 1..n
      BY <1>1
    <3>2. CASE q \in 1..n
      BY <1>2, <2>2, <3>1, <3>2 DEF SameLife
    <3>3. CASE q = n + 1
      <4>1. processes'[q].born = m + 1
        BY <1>2, <3>3 DEF new
      <4>2. processes'[p].born = processes[p].born
        BY <1>2, <3>1 DEF SameLife
      <4>3. processes[p].born \in 1..m
        BY <1>3, <3>1
      <4> QED  BY <1>1, <4>1, <4>2, <4>3
    <3> QED  BY <1>1, <3>2, <3>3
  <2>6. \A g \in 1..(m + 1) :
          guest'[g].logged => \E p \in 1..(n + 1) : processes'[p].born = g
    <3> SUFFICES ASSUME NEW g \in 1..(m + 1), guest'[g].logged
                 PROVE  \E p \in 1..(n + 1) : processes'[p].born = g
      OBVIOUS
    <3>1. CASE g \in 1..m
      <4>1. PICK p \in 1..n : processes[p].born = g
        BY <1>1, <2>3, <3>1
      <4>2. processes'[p].born = g /\ p \in 1..(n + 1)
        BY <1>1, <1>2, <4>1 DEF SameLife
      <4> QED  BY <4>2
    <3>2. CASE g = m + 1
      <4>1. processes'[n + 1].born = g
        BY <1>2, <3>2 DEF new
      <4>2. n + 1 \in 1..(n + 1)
        BY <1>1
      <4> QED  BY <4>1, <4>2
    <3> QED  BY <1>1, <3>1, <3>2
  <2> QED  BY <1>1, <2>4, <2>5, <2>6 DEF TreeFollowsGuest
<1>6. LivesAreKnown'
  <2> SUFFICES ASSUME NEW p \in 1..(n + 1)
      PROVE  /\ processes'[p].from <= uid' /\ processes'[p].to <= uid'
             /\ processes'[p].ended <=> processes'[p].to # 0
             /\ owner'[processes'[p].pid] = processes'[p].born => ~processes'[p].ended
             /\ uid' = 0 => owner'[processes'[p].pid] # 0
    BY <1>1 DEF LivesAreKnown
  <2>0. ASSUME p \in 1..n
        PROVE  /\ processes[p].from <= uid /\ processes[p].to <= uid
               /\ processes[p].ended <=> processes[p].to # 0
               /\ owner[processes[p].pid] = processes[p].born => ~processes[p].ended
               /\ uid = 0 => owner[processes[p].pid] # 0
               /\ processes[p].from \in Nat /\ processes[p].to \in Int
               /\ processes[p].pid \in Pids /\ processes[p].born \in 1..m /\ SameLife(p)
    BY <1>2, <1>3, <2>0
  <2>1. CASE p \in 1..n /\ SameEnd(p)
    <3>1. uid' >= uid /\ (uid' = 0 => uid = 0)
      BY <1>1
    <3>2. /\ processes'[p].from <= uid' /\ processes'[p].to <= uid'
          /\ processes'[p].ended <=> processes'[p].to # 0
      BY <1>1, <2>0, <2>1, <3>1 DEF SameLife, SameEnd
    <3>3. CASE processes[p].pid = pid
      <4>1. owner'[pid] = m + 1 /\ processes'[p].born # m + 1 /\ m + 1 # 0
        BY <1>1, <2>0, <2>1 DEF SameLife
      <4> QED  BY <2>0, <2>1, <3>2, <3>3, <4>1 DEF SameLife
    <3>4. CASE processes[p].pid # pid
      <4>1. owner'[processes[p].pid] = owner[processes[p].pid]
        BY <1>1, <3>4
      <4> QED  BY <2>0, <2>1, <3>1, <3>2, <4>1 DEF SameLife, SameEnd
    <3> QED  BY <3>3, <3>4
  <2>2. CASE /\ p \in 1..n /\ processes[p].pid = pid /\ ~processes[p].ended
             /\ processes'[p].to = from - 1 /\ processes'[p].ended
    <3>1. SameLife(p) /\ owner'[pid] = m + 1 /\ processes[p].born # m + 1 /\ m + 1 # 0
      BY <1>1, <2>0, <2>2
    <3>2. from - 1 <= uid' /\ from - 1 \in Int /\ uid' >= uid
      BY <1>1
    <3>3. from # 1
      BY <1>1, <2>0, <2>2
    <3>4. processes[p].from <= uid'
      BY <1>1, <2>0, <2>2, <3>2
    <3>5. from - 1 # 0
      BY <3>3
    <3> QED  BY <2>2, <3>1, <3>2, <3>4, <3>5 DEF SameLife
  <2>3. CASE p = n + 1
    BY <1>1, <1>2, <2>3 DEF new
  <2> QED  BY <1>1, <1>2, <2>1, <2>2, <2>3
<1>7. LivesAreApart'
  <2> SUFFICES ASSUME NEW p \in 1..(n + 1), NEW q \in 1..(n + 1),
                      processes'[p].pid = processes'[q].pid, p < q
               PROVE  processes'[p].to < processes'[q].from
    BY <1>1 DEF LivesAreApart
  <2>1. p \in 1..n
    BY <1>1
  <2>2. CASE q \in 1..n
    <3>1. processes[p].pid = processes[q].pid
      BY <1>2, <2>1, <2>2 DEF SameLife
    <3>2. processes[p].to < processes[q].from /\ processes[p].ended
      BY <2>1, <2>2, <3>1, LifeTypes DEF LifeInv, LivesAreApart, TreeInv, TreeIsConsistent
    <3> QED  BY <1>2, <2>1, <2>2, <3>2 DEF SameLife, SameEnd
  <2>3. CASE q = n + 1
    <3>1. processes[p].pid = pid /\ processes'[q].from = from
      BY <1>2, <2>1, <2>3 DEF SameLife, new
    <3>2. CASE ~processes[p].ended
      <4>1. processes'[p].ended
        BY <1>2, <2>1, <3>1
      <4>2. processes'[p].to = from - 1
        BY <1>2, <2>1, <3>2, <4>1 DEF SameEnd
      <4> QED  BY <3>1, <4>2
    <3>3. CASE processes[p].ended
      <4>1. processes'[p].to = processes[p].to
        BY <1>2, <2>1, <3>3 DEF SameEnd
      <4>2. processes[p].to \in Int /\ processes[p].to # 0 /\ processes[p].to <= uid
        BY <1>3, <2>1, <3>3
      <4> QED  BY <1>1, <3>1, <4>1, <4>2
    <3> QED  BY <3>2, <3>3
  <2> QED  BY <1>1, <2>2, <2>3
<1>8. LinesAreCovered'
  <2> SUFFICES ASSUME NEW i \in 1..Len(lines)
      PROVE  /\ lines[i].evtid <= uid' /\ lines[i].pid = guest'[lines[i].of].pid
             /\ \A p \in 1..(n + 1) :
                  processes'[p].born = lines[i].of => Covers(processes'[p], lines[i].evtid)
             /\ \A j \in 1..Len(lines) : i < j => lines[i].evtid <= lines[j].evtid
    BY <1>1, LifeTypes DEF LinesAreCovered
  <2>1. /\ lines[i].evtid <= uid /\ lines[i].pid = guest[lines[i].of].pid
        /\ \A p \in 1..n :
             processes[p].born = lines[i].of => Covers(processes[p], lines[i].evtid)
        /\ \A j \in 1..Len(lines) : i < j => lines[i].evtid <= lines[j].evtid
        /\ lines[i].evtid \in Nat \ {0} /\ lines[i].of \in 1..m
    BY LineIs
  <2>2. ASSUME NEW p \in 1..(n + 1), processes'[p].born = lines[i].of
        PROVE  Covers(processes'[p], lines[i].evtid)
    <3>1. p \in 1..n
      <4>1. p = n + 1 => processes'[p].born = m + 1
        BY <1>2 DEF new
      <4>2. p # n + 1
        BY <1>1, <2>1, <2>2, <4>1
      <4> QED  BY <1>1, <4>2
    <3>2. Covers(processes[p], lines[i].evtid)
      <4>1. processes'[p].born = processes[p].born
        BY <1>2, <3>1 DEF SameLife
      <4> QED  BY <2>1, <2>2, <3>1, <4>1
    <3>3. SameLife(p) /\ (SameEnd(p) \/ processes'[p].to = from - 1)
      BY <1>2, <3>1
    <3>4. processes[p].from \in Nat /\ processes[p].to \in Int
      BY <1>3, <3>1
    <3>5. CASE SameEnd(p)
      BY <3>2, <3>3, <3>5 DEF Covers, SameLife, SameEnd
    <3>6. CASE processes'[p].to = from - 1
      <4>1. lines[i].evtid <= uid /\ lines[i].evtid \in Nat \ {0} /\ uid \in Nat
        BY <1>1, <2>1
      <4>2. (from = 0 /\ uid = 0) \/ from = uid + 1
        OBVIOUS
      <4>3. lines[i].evtid <= from - 1
        BY <4>1, <4>2
      <4>4. processes'[p].from <= lines[i].evtid
        BY <3>2, <3>3 DEF Covers, SameLife
      <4> QED  BY <3>6, <4>3, <4>4 DEF Covers
    <3> QED  BY <3>3, <3>5, <3>6
  <2>3. lines[i].evtid <= uid'
    BY <1>1, <2>1
  <2>4. guest'[lines[i].of] = guest[lines[i].of]
    BY <1>1, <2>1
  <2> QED  BY <2>1, <2>2, <2>3, <2>4
<1> QED  BY <1>4, <1>5, <1>6, <1>7, <1>8 DEF LifeInv

LEMMA NoneEnds ==
  ASSUME TreeInv, UNCHANGED processes PROVE Ends(0)
<1>1. \A p \in 1..Len(processes) : p # 0
  OBVIOUS
<1> QED  BY <1>1 DEF Ends, SameLife, SameEnd

LEMMA MmCleanEnds ==
  ASSUME TreeInv, NEW pid \in Pids, MmClean(pid), uid' \in Int
  PROVE  \E e \in 0..Len(processes) :
           /\ Ends(e)
           /\ e # 0 => /\ processes[e].pid = pid
                      /\ \A q \in 1..Len(processes) : processes[q].pid = pid => q <= e
<1> DEFINE n == Len(processes)
           p == GetProcess(pid)
<1>1. /\ processes \in Seq(Born(Len(guest))) /\ n \in Nat /\ DOMAIN processes = 1..n
      /\ p \in 0..n /\ (p # 0 => processes[p].pid = pid)
      /\ \A q \in 1..n : processes[q].pid = pid => q <= p
  BY GetProcessIs DEF TreeInv, TreeTypeOK, Born
<1>2. CASE p = 0
  <2>1. Ends(0)
    BY <1>2, NoneEnds DEF MmClean, tree
  <2>2. 0 \in 0..n
    BY <1>1
  <2> QED  BY <2>1, <2>2
<1>3. CASE p # 0
  <2>1. processes' = [processes EXCEPT ![p].to = uid', ![p].ended = TRUE]
    BY <1>3 DEF MmClean
  <2> HIDE DEF p
  <2>2. p \in 1..n /\ processes[p] \in Born(Len(guest))
    BY <1>1, <1>3
  <2> DEFINE r == [processes[p] EXCEPT !.to = uid', !.ended = TRUE]
  <2>3. /\ r \in Born(Len(guest)) /\ r.pid = processes[p].pid /\ r.born = processes[p].born
        /\ r.from = processes[p].from /\ r.to = uid' /\ r.ended
    BY <2>2 DEF Born
  <2>4. processes' = [processes EXCEPT ![p] = r]
    BY <1>1, <2>1, <2>2
  <2> HIDE DEF r
  <2>5. /\ Len(processes') = n
        /\ \A q \in 1..n : processes'[q] = IF q = p THEN r ELSE processes[q]
    BY <1>1, <2>2, <2>3, <2>4, SeqExcept
  <2>6. Ends(p)
    BY <2>3, <2>5 DEF Ends, SameLife, SameEnd
  <2> QED  BY <1>1, <2>6
<1> QED  BY <1>2, <1>3

LEMMA ChangeParentEnds ==
  ASSUME TreeInv, NEW p \in DOMAIN processes, NEW new \in DOMAIN processes, ChangeParent(p, new)
  PROVE  Ends(0)
<1> DEFINE n == Len(processes)
           m == Len(guest)
           r == [processes[p] EXCEPT !.parent = new, !.ppid = processes[new].ppid]
<1>1. /\ processes \in Seq(Born(m)) /\ n \in Nat /\ DOMAIN processes = 1..n /\ n <= m
      /\ p \in 1..n /\ new \in 0..m /\ processes[p] \in Born(m) /\ processes[new] \in Born(m)
  <2>1. processes \in Seq(Born(m)) /\ n <= m /\ guest \in Seq([pid : Pids, ppid : Pids, logged : BOOLEAN])
    BY DEF TreeInv, TreeTypeOK, TreeIsBounded, Born
  <2>2. n \in Nat /\ DOMAIN processes = 1..n /\ m \in Nat
    BY <2>1
  <2>3. processes[p] \in Born(m) /\ processes[new] \in Born(m)
    BY <2>1, <2>2
  <2> QED  BY <2>1, <2>2, <2>3
<1>2. /\ r \in Born(m) /\ r.pid = processes[p].pid /\ r.born = processes[p].born
      /\ r.from = processes[p].from /\ r.to = processes[p].to /\ r.ended = processes[p].ended
  <2>1. processes[new].ppid \in Pids
    BY <1>1 DEF Born
  <2> QED  BY <1>1, <2>1 DEF Born
<1>3. processes' = [processes EXCEPT ![p] = r]
  BY <1>1 DEF ChangeParent
<1> HIDE DEF r
<1>4. /\ Len(processes') = n
      /\ \A q \in 1..n : processes'[q] = IF q = p THEN r ELSE processes[q]
  BY <1>1, <1>2, <1>3, SeqExcept
<1>5. \A q \in 1..n : q # 0
  OBVIOUS
<1> QED  BY <1>2, <1>4, <1>5 DEF Ends, SameLife, SameEnd

LEMMA LifeStep ==
  ASSUME TreeInv, LogTypeOK, LifeInv, NextTree, UNCHANGED lines
  PROVE  LifeInv'
<1>0. /\ TreeInv' /\ uid \in Nat /\ lost \in Nat /\ Len(processes) \in Nat
      /\ 0 \in 0..Len(processes)
      /\ DOMAIN processes = 1..Len(processes) /\ \A pid \in Pids : owner[pid] \in 0..Len(guest)
      /\ owner \in [Pids -> 0..Len(guest)]
  BY TreeStep, LifeTypes, TreeAssumption DEF TreeInv, TreeTypeOK
<1>1. ASSUME UNCHANGED guest, uid' = uid + 1, Ends(0),
             \A pid \in Pids : owner'[pid] \in {0, owner[pid]}
      PROVE  LifeInv'
  BY <1>0, <1>1, LivesGoOn
<1>2. UNCHANGED tree => Ends(0)
  BY NoneEnds DEF tree
<1>3. ASSUME NEW pid \in Pids, NEW ppid \in Pids, RunningProcess(pid, ppid) PROVE LifeInv'
  <2>1. /\ uid = 0 /\ uid' = 0 /\ UNCHANGED lost /\ Birth(pid, ppid)
        /\ AddProcess(pid, ppid, 0)
    BY <1>3 DEF RunningProcess
  <2> QED  BY <1>0, <2>1, BirthSeen
<1>4. ASSUME NEW creator \in Pids, NEW pid \in Pids, NEW ppid \in Pids,
             CreateProcess(creator, pid, ppid)
      PROVE  LifeInv'
  <2>1. /\ uid' = uid + 1 /\ owner[pid] = 0 /\ Birth(pid, ppid)
        /\ Reported(AddProcess(pid, creator, uid'))
    BY <1>4 DEF CreateProcess, Event
  <2>2. CASE AddProcess(pid, creator, uid') /\ UNCHANGED lost
    <3>1. uid' \in Nat
      BY <1>0, <2>1
    <3> QED  BY <1>0, <2>1, <2>2, <3>1, BirthSeen
  <2>3. CASE lost' = lost + 1 /\ UNCHANGED tree
    <3>1. lost' # lost
      BY <1>0, <2>3
    <3> QED  BY <1>0, <1>2, <2>1, <2>3, <3>1, BirthUnseen
  <2> QED  BY <2>1, <2>2, <2>3 DEF Reported
<1>5. ASSUME NEW pid \in Pids, ExitProcess(pid) PROVE LifeInv'
  <2>1. /\ uid' = uid + 1 /\ UNCHANGED guest /\ owner' = [owner EXCEPT ![pid] = 0]
        /\ MmClean(pid) \/ UNCHANGED tree
    BY <1>5 DEF ExitProcess, Event, Reported
  <2>2. owner'[pid] = 0 /\ \A x \in Pids : owner'[x] \in {0, owner[x]}
    BY <1>0, <2>1
  <2>3. CASE MmClean(pid)
    <3>1. uid' \in Int
      BY <1>0, <2>1
    <3>2. PICK e \in 0..Len(processes) :
            /\ Ends(e)
            /\ e # 0 => /\ processes[e].pid = pid
                       /\ \A q \in 1..Len(processes) : processes[q].pid = pid => q <= e
      BY <2>3, <3>1, MmCleanEnds
    <3> QED  BY <1>0, <2>1, <2>2, <3>2, LivesGoOn
  <2> QED  BY <1>1, <1>2, <2>1, <2>2, <2>3
<1>6. ASSUME NEW killer \in Pids, NEW pid \in Pids, TerminateProcess(killer, pid) PROVE LifeInv'
  <2>1. uid' = uid + 1 /\ UNCHANGED <<guest, owner, processes>>
    BY <1>6 DEF TerminateProcess, Event, Reported, Terminate, Raise, tree
  <2> QED  BY <1>1, <2>1, NoneEnds
<1>7. ASSUME NEW pid \in Pids, CallMethod(pid) PROVE LifeInv'
  <2> DEFINE ppid == guest[owner[pid]].ppid
  <2>1. /\ uid' = uid + 1 /\ UNCHANGED <<guest, owner>>
        /\ OtherMethod(pid, ppid) \/ UNCHANGED tree
    BY <1>7 DEF CallMethod, Event, Reported
  <2> HIDE DEF ppid
  <2>2. CASE OtherMethod(pid, ppid)
    <3>1. /\ GetProcess(pid) # 0 => GetProcess(pid) \in DOMAIN processes
          /\ GetProcess(ppid) # 0 => GetProcess(ppid) \in DOMAIN processes
      <4>1. processes \in Seq(Born(Len(guest)))
        BY DEF TreeInv, TreeTypeOK, Born
      <4>2. GetProcess(pid) \in 0..Len(processes) /\ GetProcess(ppid) \in 0..Len(processes)
        BY <4>1, GetProcessIs
      <4> QED  BY <1>0, <4>2
    <3>2. Ends(0)
      BY <2>2, <3>1, NoneEnds, ChangeParentEnds DEF OtherMethod, Raise, tree
    <3> QED  BY <1>1, <2>1, <3>2
  <2> QED  BY <1>1, <1>2, <2>1, <2>2
<1> QED  BY <1>3, <1>4, <1>5, <1>6, <1>7 DEF NextTree

(* Nothing is indexed before the log is complete.                           *)
IndexIsLast ==
  /\ Len(attributed) <= Len(lines)
  /\ attributed = <<>> => found = [pid \in Pids |-> 0] /\ index = [p \in 1..MaxProcesses |-> <<>>]

(* The process found for a PID began before any line that is still to come. *)
FoundIsRight ==
  \A pid \in Pids : found[pid] # 0 =>
    /\ processes[found[pid]].pid = pid
    /\ \A j \in DOMAIN lines :
         j > Len(attributed) => processes[found[pid]].from <= lines[j].evtid

InOrder(blocks) ==
  \A k, l \in DOMAIN blocks : k < l => blocks[k].end <= blocks[l].start

HasLine(blocks, i) ==
  \E k \in DOMAIN blocks :
    /\ blocks[k].start <= LineStart(i) /\ LineStart(i + 1) <= blocks[k].end
    /\ blocks[k].method = lines[i].method

HasByteOf(blocks, i) ==
  \E k \in DOMAIN blocks :
    blocks[k].start < LineStart(i + 1) /\ LineStart(i) < blocks[k].end

(* The blocks of a process follow one another in the log, hold every line   *)
(* put down to it, with its method, and have no byte of any other line,     *)
(* however the lines of several processes alternate.                        *)
BlocksHoldTheLines ==
  \A p \in DOMAIN index :
    /\ InOrder(index[p])
    /\ \A i \in DOMAIN attributed :
         IF attributed[i] = p THEN HasLine(index[p], i) ELSE ~HasByteOf(index[p], i)

(* The blocks lie within what has been read.                                *)
BlocksEnd ==
  \A p \in DOMAIN index : \A k \in DOMAIN index[p] :
    /\ index[p][k].start <= index[p][k].end
    /\ index[p][k].end <= LineStart(Len(attributed) + 1)

LogInv ==
  /\ TreeInv /\ LogTypeOK /\ LifeInv /\ Len(guest) <= MaxProcesses
  /\ IndexIsLast /\ FoundIsRight /\ LinesAreAttributed /\ BlocksEnd /\ BlocksHoldTheLines

Entry(n) == [pid : Pids, evtid : 1..MaxEvents, method : Methods, of : 1..n]
Block == [start : Nat, end : Nat, method : Methods]

LEMMA LogBegins == InitLog => LogInv
<1> SUFFICES ASSUME InitLog PROVE LogInv
  OBVIOUS
<1>1. /\ TreeInv /\ guest = <<>> /\ processes = <<>> /\ owner = [pid \in Pids |-> 0] /\ lines = <<>>
      /\ found = [pid \in Pids |-> 0] /\ index = [p \in 1..MaxProcesses |-> <<>>]
      /\ attributed = <<>>
  BY TreeBegins DEF InitLog, InitTree
<1>2. LogTypeOK
  BY <1>1 DEF LogTypeOK
<1>3. LifeInv
  BY <1>1 DEF LifeInv, OwnersAreLast, TreeFollowsGuest, LivesAreKnown, LivesAreApart,
              LinesAreCovered
<1>4. Len(guest) <= MaxProcesses
  BY <1>1, TreeAssumption
<1>5. IndexIsLast /\ FoundIsRight /\ LinesAreAttributed /\ BlocksEnd /\ BlocksHoldTheLines
  BY <1>1 DEF IndexIsLast, FoundIsRight, LinesAreAttributed, BlocksEnd, BlocksHoldTheLines, InOrder
<1> QED  BY <1>1, <1>2, <1>3, <1>4, <1>5 DEF LogInv

(* While the log is written, the index is empty.                            *)
LEMMA NothingIndexed ==
  ASSUME LogInv, attributed = <<>>, UNCHANGED indexVars, TreeInv', LifeInv',
         Len(guest') <= MaxProcesses, lines' \in Seq(Entry(Len(guest'))), Len(processes') \in Nat
  PROVE  LogInv'
<1>1. /\ found' = [pid \in Pids |-> 0] /\ index' = [p \in 1..MaxProcesses |-> <<>>]
      /\ attributed' = <<>>
  BY DEF LogInv, IndexIsLast, indexVars
<1>2. LogTypeOK'
  BY <1>1 DEF LogTypeOK, Entry
<1>3. IndexIsLast'
  BY <1>1 DEF IndexIsLast
<1>4. FoundIsRight' /\ LinesAreAttributed' /\ BlocksEnd' /\ BlocksHoldTheLines'
  BY <1>1 DEF FoundIsRight, LinesAreAttributed, BlocksEnd, BlocksHoldTheLines, InOrder
<1> QED  BY <1>2, <1>3, <1>4 DEF LogInv

LEMMA WriteTree ==
  ASSUME LogInv, attributed = <<>>, NextTree, UNCHANGED <<lines, indexVars>> PROVE LogInv'
<1>0. lines \in Seq(Entry(Len(guest))) /\ TreeInv /\ LogTypeOK /\ LifeInv /\ TreeInv'
  BY TreeStep DEF LogInv, LogTypeOK, Entry
<1>1. Len(guest) \in Nat /\ Len(guest') \in Nat /\ Len(guest) <= Len(guest')
      /\ Len(guest') <= MaxProcesses
  <2>1. guest \in Seq([pid : Pids, ppid : Pids, logged : BOOLEAN])
    BY <1>0 DEF TreeInv, TreeTypeOK
  <2>2. guest' = guest \/ \E pid, ppid \in Pids : Birth(pid, ppid)
    BY DEF NextTree, ExitProcess, CallMethod, RunningProcess, TerminateProcess, CreateProcess
  <2>3. CASE guest' = guest
    BY <2>1, <2>3 DEF LogInv
  <2>4. ASSUME NEW pid \in Pids, NEW ppid \in Pids, Birth(pid, ppid)
        PROVE  /\ Len(guest) \in Nat /\ Len(guest') = Len(guest) + 1
               /\ Len(guest) < MaxProcesses
    BY <1>0, <2>4, BirthIs DEF Birth
  <2> QED  BY <2>2, <2>3, <2>4, TreeAssumption
<1>2. Entry(Len(guest)) \subseteq Entry(Len(guest'))
  BY <1>1 DEF Entry
<1>3. lines' \in Seq(Entry(Len(guest')))
  <2>1. \A i \in 1..Len(lines) : lines[i] \in Entry(Len(guest))
    BY <1>0
  <2>2. lines \in Seq(Entry(Len(guest')))
    BY <1>0, <1>2, <2>1, SeqLarger
  <2> QED  BY <2>2
<1>4. Len(processes') \in Nat
  <2>1. processes' \in Seq(Born(Len(guest))')
    BY <1>0 DEF TreeInv, TreeTypeOK, Born
  <2> QED  BY <2>1
<1>5. LifeInv'
  BY <1>0, LifeStep
<1> QED  BY <1>0, <1>1, <1>3, <1>4, <1>5, NothingIndexed

LEMMA WriteLine ==
  ASSUME LogInv, attributed = <<>>, NEW pid \in Pids, NEW method \in Methods, LogLine(pid, method)
  PROVE  LogInv'
<1> DEFINE n == Len(processes)
           l == [pid |-> pid, evtid |-> uid + 1, method |-> method, of |-> owner[pid]]
<1>0. TreeInv /\ LogTypeOK /\ LifeInv /\ lines \in Seq(Entry(Len(guest)))
      /\ Len(guest) <= MaxProcesses
  BY DEF LogInv, LogTypeOK, Entry
<1>1. /\ owner[pid] # 0 /\ uid' = uid + 1 /\ uid < MaxEvents /\ lines' = Append(lines, l)
      /\ UNCHANGED <<guest, owner, lost, processes, children, failed, indexVars>>
  BY DEF LogLine, Event, tree
<1>2. /\ uid \in 0..MaxEvents /\ uid' \in 1..MaxEvents /\ owner[pid] \in 1..Len(guest)
      /\ n \in Nat
  <2>1. uid \in 0..MaxEvents /\ owner[pid] \in 0..Len(guest) /\ Len(guest) \in Nat
    BY <1>0, LifeTypes DEF TreeInv, TreeTypeOK
  <2> QED  BY <1>0, <1>1, <2>1, TreeAssumption, LifeTypes
<1>3. l \in Entry(Len(guest)) /\ l.pid = pid /\ l.evtid = uid + 1 /\ l.of = owner[pid]
  BY <1>1, <1>2 DEF Entry
<1> HIDE DEF l
<1>4. /\ lines' \in Seq(Entry(Len(guest'))) /\ Len(lines') = Len(lines) + 1
      /\ \A i \in 1..Len(lines) : lines'[i] = lines[i]
      /\ lines'[Len(lines) + 1] = l
  BY <1>0, <1>1, <1>3, SeqAppend
<1>5. TreeInv'
  BY <1>0, <1>1, <1>2 DEF TreeInv, TreeTypeOK, TreeIsBounded, TreeIsConsistent
<1>6. OwnersAreLast' /\ TreeFollowsGuest' /\ LivesAreApart'
  BY <1>0, <1>1 DEF LifeInv, OwnersAreLast, TreeFollowsGuest, LivesAreApart
<1>7. LivesAreKnown'
  <2>1. \A p \in 1..n : /\ processes[p].from \in Nat /\ processes[p].to \in Int
                        /\ processes[p].pid \in Pids
    BY <1>0, LifeTypes
  <2>2. DOMAIN processes = 1..n /\ LivesAreKnown
    BY <1>0, LifeTypes DEF LifeInv
  <2> QED  BY <1>1, <1>2, <2>1, <2>2 DEF LivesAreKnown
<1>8. LinesAreCovered'
  <2>1. DOMAIN lines' = 1..(Len(lines) + 1) /\ Len(lines) \in Nat
    BY <1>0, <1>4, LifeTypes
  <2>2. \A i \in 1..Len(lines) :
          /\ lines[i].evtid <= uid /\ lines[i].evtid \in Nat
          /\ lines[i].pid = guest[lines[i].of].pid
          /\ \A p \in 1..n :
               processes[p].born = lines[i].of => Covers(processes[p], lines[i].evtid)
          /\ \A j \in 1..Len(lines) : i < j => lines[i].evtid <= lines[j].evtid
    BY <1>0, LineIs
  <2>3. guest[owner[pid]].pid = pid
    BY <1>0, <1>1 DEF LifeInv, OwnersAreLast
  <2>4. ASSUME NEW p \in 1..n, processes[p].born = owner[pid] PROVE Covers(processes[p], uid + 1)
    <3>1. processes[p].pid = pid
      <4>1. p \in DOMAIN processes /\ TreeFollowsGuest
        BY <1>0, LifeTypes DEF LifeInv
      <4>2. processes[p].pid = guest[processes[p].born].pid
        BY <4>1 DEF TreeFollowsGuest
      <4> QED  BY <2>3, <2>4, <4>2
    <3>2. processes[p].to = 0 /\ processes[p].from <= uid /\ processes[p].from \in Nat
      <4>1. /\ processes[p].ended <=> processes[p].to # 0
            /\ owner[processes[p].pid] = processes[p].born => ~processes[p].ended
            /\ processes[p].from <= uid /\ processes[p].from \in Nat
        BY <1>0, LifeOf
      <4> QED  BY <2>4, <3>1, <4>1
    <3> QED  BY <1>2, <3>2 DEF Covers
  <2> SUFFICES ASSUME NEW i \in 1..(Len(lines) + 1)
      PROVE  /\ lines'[i].evtid <= uid' /\ lines'[i].pid = guest'[lines'[i].of].pid
             /\ \A p \in 1..n :
                  processes[p].born = lines'[i].of => Covers(processes[p], lines'[i].evtid)
             /\ \A j \in 1..(Len(lines) + 1) : i < j => lines'[i].evtid <= lines'[j].evtid
    BY <1>0, <1>1, <2>1, LifeTypes DEF LinesAreCovered, Covers
  <2>5. CASE i \in 1..Len(lines)
    <3>1. lines'[i] = lines[i]
      BY <1>4, <2>5
    <3>2. \A j \in 1..(Len(lines) + 1) : i < j => lines'[i].evtid <= lines'[j].evtid
      <4>1. ASSUME NEW j \in 1..(Len(lines) + 1), i < j PROVE lines[i].evtid <= lines'[j].evtid
        <5>1. CASE j \in 1..Len(lines)
          BY <1>4, <2>2, <2>5, <4>1, <5>1
        <5>2. CASE j = Len(lines) + 1
          BY <1>2, <1>3, <1>4, <2>2, <2>5, <5>2
        <5> QED  BY <2>1, <5>1, <5>2
      <4> QED  BY <3>1, <4>1
    <3>3. lines[i].evtid <= uid'
      <4>1. lines[i].evtid <= uid /\ lines[i].evtid \in Nat
        BY <2>2, <2>5
      <4> QED  BY <1>1, <1>2, <4>1
    <3>4. guest' = guest
      BY <1>1
    <3> QED  BY <2>2, <2>5, <3>1, <3>2, <3>3, <3>4
  <2>6. CASE i = Len(lines) + 1
    <3>1. lines'[i] = l
      BY <1>4, <2>6
    <3> QED  BY <1>1, <1>2, <1>3, <2>1, <2>3, <2>4, <2>6, <3>1
  <2> QED  BY <2>1, <2>5, <2>6
<1> QED  BY <1>0, <1>1, <1>2, <1>4, <1>5, <1>6, <1>7, <1>8, NothingIndexed DEF LifeInv

(* get_process_for_evtid finds a process that had the PID, if there is one. *)
LEMMA GetProcessForEvtidIs ==
  ASSUME TreeInv, NEW pid, NEW evtid
  PROVE  LET q == GetProcessForEvtid(pid, evtid) IN
         /\ q \in 0..Len(processes)
         /\ q # 0 => processes[q].pid = pid /\ Covers(processes[q], evtid)
         /\ \A p \in 1..Len(processes) :
              processes[p].pid = pid /\ Covers(processes[p], evtid) => q # 0
<1> DEFINE I == {i \in 1..Len(processes) : processes[i].pid = pid /\ Covers(processes[i], evtid)}
           q == GetProcessForEvtid(pid, evtid)
<1>1. q = IF I # {} THEN Min(I) ELSE 0
  BY DEF GetProcessForEvtid, SelectInSeq
<1>2. Len(processes) \in Nat
  BY DEF TreeInv, TreeTypeOK
<1>3. CASE I = {}
  BY <1>1, <1>2, <1>3
<1>4. CASE I # {}
  <2>1. I \in SUBSET Nat
    OBVIOUS
  <2>2. Min(I) \in I
    <3> HIDE DEF I
    <3> QED  BY <1>4, <2>1, MinIs
  <2>3. q \in I
    BY <1>1, <1>4, <2>2
  <2> QED  BY <1>2, <2>3
<1> QED  BY <1>3, <1>4


(* One line follows the other.                                              *)
LEMMA LinesFollow ==
  ASSUME NEW i \in Nat \ {0}
  PROVE  /\ LineStart(i) \in Nat /\ LineStart(i + 1) \in Nat /\ LineStart(i) < LineStart(i + 1)
         /\ \A j \in 1..(i - 1) : LineStart(j + 1) <= LineStart(i) /\ LineStart(j) < LineStart(i)
<1>1. LineWidth \in Nat \ {0}
  BY LogAssumption
<1>2. \A m \in Nat : LineWidth * m \in Nat
  BY <1>1
<1>3. \A m \in Nat : LineWidth * (m + 1) = LineWidth * m + LineWidth
  BY <1>1
<1>4. LineStart(i) = LineWidth * (i - 1) /\ LineStart(i + 1) = LineWidth * ((i - 1) + 1)
  BY DEF LineStart
<1>5. i - 1 \in Nat
  OBVIOUS
<1>6. LineStart(i) \in Nat /\ LineStart(i + 1) = LineStart(i) + LineWidth
  BY <1>2, <1>3, <1>4, <1>5
<1>7. ASSUME NEW j \in 1..(i - 1)
      PROVE  LineStart(j + 1) <= LineStart(i) /\ LineStart(j) < LineStart(i)
  <2>1. /\ LineStart(j) = LineWidth * (j - 1) /\ LineStart(j + 1) = LineWidth * ((j - 1) + 1)
        /\ j - 1 \in Nat /\ j \in Nat /\ i - 1 - j \in Nat
    BY DEF LineStart
  <2>2. LineStart(j) \in Nat /\ LineStart(j + 1) = LineStart(j) + LineWidth
    BY <1>2, <1>3, <2>1
  <2>3. LineStart(i) = LineStart(j + 1) + LineWidth * (i - 1 - j)
    <3>1. \A m, d \in Nat : LineWidth * (m + d) = LineWidth * m + LineWidth * d
      BY <1>1
    <3>2. j + (i - 1 - j) = i - 1 /\ (j - 1) + 1 = j
      BY <2>1
    <3> QED  BY <1>4, <2>1, <3>1, <3>2
  <2>4. LineWidth * (i - 1 - j) \in Nat
    BY <1>2, <2>1
  <2> QED  BY <1>1, <2>2, <2>3, <2>4
<1> QED  BY <1>1, <1>6, <1>7

(* What a line adds to the blocks of its process.                           *)
LEMMA ExtendIs ==
  ASSUME NEW i \in Nat \ {0}, lines[i].method \in Methods,
         NEW b \in Seq(Block), InOrder(b),
         \A k \in 1..Len(b) : b[k].start <= b[k].end /\ b[k].end <= LineStart(i)
  PROVE  LET E == Extend(b, i) IN
         /\ E \in Seq(Block) /\ InOrder(E) /\ HasLine(E, i)
         /\ \A k \in 1..Len(E) : E[k].start <= E[k].end /\ E[k].end <= LineStart(i + 1)
         /\ \A j \in 1..(i - 1) : /\ HasLine(b, j) => HasLine(E, j)
                                  /\ ~HasByteOf(b, j) => ~HasByteOf(E, j)
<1> DEFINE n == Len(b)
           E == Extend(b, i)
           s == LineStart(i)
           e == LineStart(i + 1)
<1>1. /\ s \in Nat /\ e \in Nat /\ s < e
      /\ \A j \in 1..(i - 1) : /\ LineStart(j) \in Nat /\ LineStart(j + 1) \in Nat
                               /\ LineStart(j + 1) <= s /\ LineStart(j) < s
  <2>1. \A j \in 1..(i - 1) : j \in Nat \ {0}
    OBVIOUS
  <2> QED  BY <2>1, LinesFollow
<1>2. /\ n \in Nat /\ DOMAIN b = 1..n
      /\ \A k \in 1..n : /\ b[k] \in Block /\ b[k].start \in Nat /\ b[k].end \in Nat
                         /\ b[k].method \in Methods
  <2>1. \A x \in Block : x.start \in Nat /\ x.end \in Nat /\ x.method \in Methods
    BY DEF Block
  <2> HIDE DEF E, s, e
  <2> QED  BY <2>1
<1>3. CASE b # <<>> /\ Last(b).end = s /\ Last(b).method = lines[i].method
  <2> DEFINE x == [b[n] EXCEPT !.end = e]
  <2>1. n \in 1..n /\ E = [b EXCEPT ![n].end = e] /\ b[n].end = s /\ b[n].method = lines[i].method
    BY <1>2, <1>3 DEF Extend, Last
  <2>2. /\ x \in Block /\ x.start = b[n].start /\ x.end = e /\ x.method = b[n].method
    BY <1>1, <1>2, <2>1 DEF Block
  <2>3. E = [b EXCEPT ![n] = x]
    BY <2>1
  <2> HIDE DEF x, E, s, e
  <2>4. /\ E \in Seq(Block) /\ Len(E) = n
        /\ \A k \in 1..n : E[k] = IF k = n THEN x ELSE b[k]
    BY <2>1, <2>2, <2>3, SeqExcept
  <2>5. /\ DOMAIN E = 1..n
        /\ \A k \in 1..n : /\ E[k].start = b[k].start /\ E[k].method = b[k].method
                           /\ E[k].end = IF k = n THEN e ELSE b[k].end
    BY <2>2, <2>4
  <2>6. b[n].start <= s
    BY <2>1
  <2>7. InOrder(E)
    <3> SUFFICES ASSUME NEW k \in 1..n, NEW l \in 1..n, k < l PROVE E[k].end <= E[l].start
      BY <2>5 DEF InOrder
    <3>1. b[k].end <= b[l].start
      BY <1>2 DEF InOrder
    <3>2. k # n
      <4>1. k < l /\ l <= n /\ k \in Nat /\ n \in Nat
        BY <1>2
      <4> QED  BY <4>1
    <3>3. E[k].end = b[k].end /\ E[l].start = b[l].start
      BY <2>5, <3>2
    <3> QED  BY <3>1, <3>3
  <2>8. HasLine(E, i)
    BY <1>1, <2>1, <2>5, <2>6 DEF HasLine, s, e
  <2>9. ASSUME NEW k \in 1..n PROVE E[k].start <= E[k].end /\ E[k].end <= e /\ b[k].end <= E[k].end
    <3>1. b[k].start <= b[k].end /\ b[k].end <= s /\ b[k].start \in Nat /\ b[k].end \in Nat
      BY <1>2 DEF s
    <3>2. E[k].start = b[k].start /\ E[k].end = IF k = n THEN e ELSE b[k].end
      BY <2>5
    <3>3. s \in Nat /\ e \in Nat /\ s < e
      BY <1>1
    <3> QED  BY <3>1, <3>2, <3>3
  <2>10. ASSUME NEW j \in 1..(i - 1), HasLine(b, j) PROVE HasLine(E, j)
    <3>1. PICK k \in 1..n : /\ b[k].start <= LineStart(j) /\ LineStart(j + 1) <= b[k].end
                            /\ b[k].method = lines[j].method
      BY <1>2, <2>10 DEF HasLine
    <3>2. E[k].end \in Nat /\ b[k].end \in Nat /\ LineStart(j + 1) \in Nat /\ b[k].end <= E[k].end
      BY <1>1, <1>2, <2>5, <2>9
    <3>3. LineStart(j + 1) <= E[k].end
      BY <3>1, <3>2
    <3> QED  BY <2>5, <3>1, <3>3 DEF HasLine
  <2>11. ASSUME NEW j \in 1..(i - 1), ~HasByteOf(b, j),
                NEW k \in 1..n, E[k].start < LineStart(j + 1), LineStart(j) < E[k].end
         PROVE  FALSE
    <3>1. ~(b[k].start < LineStart(j + 1) /\ LineStart(j) < b[k].end)
      BY <1>2, <2>11 DEF HasByteOf
    <3>2. CASE k = n
      BY <1>1, <2>1, <2>5, <2>11, <3>1, <3>2
    <3>3. CASE k # n
      BY <2>5, <2>11, <3>1, <3>3
    <3> QED  BY <3>2, <3>3
  <2>12. \A j \in 1..(i - 1) : ~HasByteOf(b, j) => ~HasByteOf(E, j)
    BY <2>5, <2>11 DEF HasByteOf
  <2> QED  BY <2>4, <2>7, <2>8, <2>9, <2>10, <2>12 DEF E, e
<1>4. CASE ~(b # <<>> /\ Last(b).end = s /\ Last(b).method = lines[i].method)
  <2> DEFINE x == [start |-> s, end |-> e, method |-> lines[i].method]
  <2>1. E = Append(b, x)
    BY <1>4 DEF Extend
  <2>2. x \in Block /\ x.start = s /\ x.end = e /\ x.method = lines[i].method
    BY <1>1 DEF Block
  <2> HIDE DEF x, E, s, e
  <2>3. /\ E \in Seq(Block) /\ Len(E) = n + 1 /\ E[n + 1] = x
        /\ \A k \in 1..n : E[k] = b[k]
    BY <2>1, <2>2, SeqAppend
  <2>4. DOMAIN E = 1..(n + 1) /\ n + 1 \in 1..(n + 1)
    BY <1>2, <2>3
  <2>5. \A k \in 1..(n + 1) : k \in 1..n \/ k = n + 1
    BY <1>2
  <2>6. InOrder(E)
    <3> SUFFICES ASSUME NEW k \in 1..(n + 1), NEW l \in 1..(n + 1), k < l
                 PROVE  E[k].end <= E[l].start
      BY <2>4 DEF InOrder
    <3>1. k \in 1..n
      BY <1>2
    <3>2. CASE l \in 1..n
      BY <1>2, <2>3, <3>1, <3>2 DEF InOrder
    <3>3. CASE l = n + 1
      BY <1>2, <2>2, <2>3, <3>1, <3>3 DEF s
    <3> QED  BY <2>5, <3>2, <3>3
  <2>7. HasLine(E, i)
    BY <1>1, <2>2, <2>3, <2>4 DEF HasLine, s, e
  <2>8. ASSUME NEW k \in 1..(n + 1) PROVE E[k].start <= E[k].end /\ E[k].end <= e
    <3>1. CASE k \in 1..n
      <4>1. b[k].start <= b[k].end /\ b[k].end <= s /\ b[k].start \in Nat /\ b[k].end \in Nat
        BY <1>2, <3>1 DEF s
      <4> QED  BY <1>1, <2>3, <3>1, <4>1
    <3>2. CASE k = n + 1
      BY <1>1, <2>2, <2>3, <3>2
    <3> QED  BY <2>5, <3>1, <3>2
  <2>9. ASSUME NEW j \in 1..(i - 1), HasLine(b, j) PROVE HasLine(E, j)
    <3>1. PICK k \in 1..n : /\ b[k].start <= LineStart(j) /\ LineStart(j + 1) <= b[k].end
                            /\ b[k].method = lines[j].method
      BY <1>2, <2>9 DEF HasLine
    <3>2. k \in 1..(n + 1)
      BY <1>2
    <3> QED  BY <2>3, <2>4, <3>1, <3>2 DEF HasLine
  <2>10. ASSUME NEW j \in 1..(i - 1), ~HasByteOf(b, j),
                NEW k \in 1..(n + 1), E[k].start < LineStart(j + 1), LineStart(j) < E[k].end
         PROVE  FALSE
    <3>1. CASE k \in 1..n
      BY <1>2, <2>3, <2>10, <3>1 DEF HasByteOf
    <3>2. CASE k = n + 1
      BY <1>1, <2>2, <2>3, <2>10, <3>2
    <3> QED  BY <2>5, <3>1, <3>2
  <2>11. \A j \in 1..(i - 1) : ~HasByteOf(b, j) => ~HasByteOf(E, j)
    BY <2>4, <2>10 DEF HasByteOf
  <2> QED  BY <2>3, <2>6, <2>7, <2>8, <2>9, <2>11 DEF E, e
<1> QED  BY <1>3, <1>4

(* A block that ends before a line has no byte of it.                       *)
LEMMA BlocksBefore ==
  ASSUME NEW i \in Nat \ {0}, NEW b \in Seq(Block),
         \A k \in 1..Len(b) : b[k].end <= LineStart(i)
  PROVE  ~HasByteOf(b, i)
<1>1. LineStart(i) \in Nat
  BY LinesFollow
<1>2. \A k \in 1..Len(b) : b[k].end \in Nat
  <2>1. \A x \in Block : x.end \in Nat
    BY DEF Block
  <2> QED  BY <2>1
<1> QED  BY <1>1, <1>2 DEF HasByteOf

LEMMA IndexTypes ==
  ASSUME TreeInv, LogTypeOK, NEW i \in 1..Len(lines)
  PROVE  /\ lines[i].pid \in Pids /\ lines[i].method \in Methods /\ lines[i].evtid \in Nat \ {0}
         /\ lines[i].of \in 1..Len(guest)
         /\ Len(attributed) \in Nat /\ DOMAIN attributed = 1..Len(attributed)
         /\ DOMAIN index = 1..MaxProcesses /\ \A p \in 1..MaxProcesses : index[p] \in Seq(Block)
         /\ \A pid \in Pids : found[pid] \in 0..Len(processes)
<1> DEFINE L == [pid : Pids, evtid : 1..MaxEvents, method : Methods, of : 1..Len(guest)]
<1>1. lines[i].pid \in Pids /\ lines[i].evtid \in Nat \ {0} /\ lines[i].of \in 1..Len(guest)
  BY LifeTypes
<1>2. lines[i].method \in Methods
  <2>1. lines \in Seq(L)
    BY DEF LogTypeOK
  <2>2. \A l \in L : l.method \in Methods
    OBVIOUS
  <2> HIDE DEF L
  <2> QED  BY <2>1, <2>2
<1>3. attributed \in Seq(0..Len(processes)) /\ found \in [Pids -> 0..Len(processes)]
      /\ index \in [1..MaxProcesses -> Seq(Block)]
  BY DEF LogTypeOK, Block
<1>4. Len(attributed) \in Nat /\ DOMAIN attributed = 1..Len(attributed)
  BY <1>3
<1>5. DOMAIN index = 1..MaxProcesses /\ \A p \in 1..MaxProcesses : index[p] \in Seq(Block)
  BY <1>3
<1>6. \A pid \in Pids : found[pid] \in 0..Len(processes)
  BY <1>3
<1> QED  BY <1>1, <1>2, <1>4, <1>5, <1>6

(* What is found for the next line had the PID at the time; it is the       *)
(* process the line is about if the tree has that one, as no other lasted   *)
(* with the same PID then.                                                  *)
LEMMA LookupIs ==
  ASSUME LogInv, NEW i \in 1..Len(lines), i = Len(attributed) + 1
  PROVE  LET p == Lookup(lines[i].pid, lines[i].evtid) IN
         /\ p \in 0..Len(processes)
         /\ p # 0 => processes[p].pid = lines[i].pid /\ Covers(processes[p], lines[i].evtid)
         /\ guest[lines[i].of].logged => p # 0 /\ processes[p].born = lines[i].of
<1> DEFINE pid == lines[i].pid
           t == lines[i].evtid
           g == lines[i].of
           p == Lookup(pid, t)
<1>1. TreeInv /\ LogTypeOK /\ LifeInv /\ FoundIsRight
  BY DEF LogInv
<1>2. /\ pid \in Pids /\ t \in Nat \ {0} /\ g \in 1..Len(guest) /\ found[pid] \in 0..Len(processes)
      /\ Len(attributed) \in Nat /\ Len(processes) \in Nat /\ DOMAIN processes = 1..Len(processes)
      /\ DOMAIN guest = 1..Len(guest) /\ DOMAIN lines = 1..Len(lines)
      /\ \A q \in 1..Len(processes) : processes[q].from \in Nat /\ processes[q].to \in Int
  BY <1>1, IndexTypes, LifeTypes
<1> HIDE DEF t, pid, g, p
<1>3. /\ p \in 0..Len(processes)
      /\ p # 0 => processes[p].pid = pid /\ Covers(processes[p], t)
      /\ \A q \in 1..Len(processes) : processes[q].pid = pid /\ Covers(processes[q], t) => p # 0
  <2>1. CASE found[pid] = 0 \/ Ended(found[pid], t)
    <3>1. p = GetProcessForEvtid(pid, t)
      BY <2>1 DEF Lookup, p
    <3> QED  BY <1>1, <3>1, GetProcessForEvtidIs
  <2>2. CASE found[pid] # 0 /\ ~Ended(found[pid], t)
    <3>1. p = found[pid]
      BY <2>2 DEF Lookup, p
    <3>2. processes[p].pid = pid /\ processes[p].from <= t
      <4>1. i > Len(attributed) /\ i \in DOMAIN lines
        BY <1>2
      <4> QED  BY <1>1, <1>2, <2>2, <3>1, <4>1 DEF FoundIsRight, t
    <3>3. processes[p].to = 0 \/ t <= processes[p].to
      BY <1>2, <2>2, <3>1 DEF Ended
    <3> QED  BY <1>2, <2>2, <3>1, <3>2, <3>3 DEF Covers
  <2> QED  BY <2>1, <2>2
<1>4. ASSUME guest[g].logged PROVE p # 0 /\ processes[p].born = g
  <2>1. PICK q \in 1..Len(processes) : processes[q].born = g
    BY <1>1, <1>2, <1>4 DEF LifeInv, TreeFollowsGuest
  <2>2. processes[q].pid = pid /\ Covers(processes[q], t)
    <3>1. processes[q].pid = guest[g].pid
      BY <1>1, <1>2, <2>1 DEF LifeInv, TreeFollowsGuest
    <3>2. pid = guest[g].pid /\ Covers(processes[q], t)
      BY <1>1, <1>2, <2>1 DEF LifeInv, LinesAreCovered, pid, g, t
    <3> QED  BY <3>1, <3>2
  <2>3. p \in 1..Len(processes) /\ processes[p].pid = pid /\ Covers(processes[p], t)
    BY <1>2, <1>3, <2>2
  <2>4. ASSUME NEW a \in 1..Len(processes), NEW b \in 1..Len(processes), a < b,
               processes[a].pid = processes[b].pid,
               Covers(processes[a], t), Covers(processes[b], t)
        PROVE  FALSE
    <3>1. processes[a].ended
      BY <1>1, <1>2, <2>4 DEF TreeInv, TreeIsConsistent
    <3>2. processes[a].to # 0 /\ processes[a].to < processes[b].from
      BY <1>1, <1>2, <2>4, <3>1 DEF LifeInv, LivesAreKnown, LivesAreApart
    <3> QED  BY <1>2, <2>4, <3>2 DEF Covers
  <2>5. p = q
    <3>1. ~(p < q) /\ ~(q < p)
      BY <2>2, <2>3, <2>4
    <3> QED  BY <1>2, <2>3, <3>1
  <2> QED  BY <2>1, <2>3, <2>5
<1> QED  BY <1>3, <1>4 DEF pid, t, g, p

(* Indexing a line leaves what the log says of the guest as it is.          *)
LEMMA IndexStep ==
  ASSUME LogInv, IndexLine PROVE LogInv'
<1> DEFINE i == Len(attributed) + 1
           m == Len(processes)
           p == Lookup(lines[i].pid, lines[i].evtid)
           E == Extend(index[p], i)
<1>1. TreeInv /\ LogTypeOK /\ LifeInv /\ Len(guest) <= MaxProcesses
  BY DEF LogInv
<1>2. /\ i \in 1..Len(lines) /\ i \in Nat \ {0} /\ Len(lines) \in Nat /\ m \in Nat
      /\ m <= MaxProcesses /\ MaxProcesses \in Nat
      /\ DOMAIN processes = 1..m /\ DOMAIN lines = 1..Len(lines)
  <2>1. Len(attributed) \in Nat
    BY <1>1 DEF LogTypeOK
  <2>2. i <= Len(lines)
    BY DEF IndexLine
  <2>3. m <= Len(guest)
    BY <1>1 DEF TreeInv, TreeIsBounded
  <2> QED  BY <1>1, <2>1, <2>2, <2>3, LifeTypes, TreeAssumption
<1>3. /\ lines[i].pid \in Pids /\ lines[i].method \in Methods /\ lines[i].evtid \in Nat \ {0}
      /\ Len(attributed) = i - 1 /\ DOMAIN attributed = 1..(i - 1)
      /\ DOMAIN index = 1..MaxProcesses /\ \A q \in 1..MaxProcesses : index[q] \in Seq(Block)
      /\ attributed \in Seq(0..m) /\ found \in [Pids -> 0..m]
      /\ index \in [1..MaxProcesses -> Seq(Block)]
  <2>1. /\ attributed \in Seq(0..m) /\ found \in [Pids -> 0..m]
        /\ index \in [1..MaxProcesses -> Seq(Block)]
    BY <1>1 DEF LogTypeOK, Block
  <2>2. Len(attributed) \in Nat /\ DOMAIN attributed = 1..Len(attributed)
    BY <2>1
  <2>3. i - 1 = Len(attributed)
    BY <2>2
  <2> HIDE DEF i
  <2> QED  BY <1>1, <1>2, <2>1, <2>2, <2>3, IndexTypes
<1>4. /\ p \in 0..m
      /\ p # 0 => processes[p].pid = lines[i].pid /\ Covers(processes[p], lines[i].evtid)
      /\ guest[lines[i].of].logged => p # 0 /\ processes[p].born = lines[i].of
  BY <1>2, LookupIs
<1>5. /\ attributed' = Append(attributed, p)
      /\ IF p = 0 THEN found' = found /\ index' = index
         ELSE /\ found' = [found EXCEPT ![lines[i].pid] = p]
              /\ index' = [index EXCEPT ![p] = E]
      /\ lines' = lines
      /\ UNCHANGED <<guest, owner, uid, lost, processes, children, failed>>
  BY DEF IndexLine, treeVars, guestVars, tree
<1> HIDE DEF p, E
<1>6. /\ attributed' \in Seq(0..m) /\ Len(attributed') = i
      /\ \A j \in 1..(i - 1) : attributed'[j] = attributed[j]
      /\ attributed'[i] = p
  BY <1>2, <1>3, <1>4, <1>5, SeqAppend
<1> HIDE DEF i
<1>7. DOMAIN attributed' = 1..i /\ \A j \in 1..i : j \in 1..(i - 1) \/ j = i
  BY <1>2, <1>6
<1>8. TreeInv'
  BY <1>1, <1>5 DEF TreeInv, TreeTypeOK, TreeIsBounded, TreeIsConsistent
<1>9. LifeInv'
  BY <1>1, <1>5 DEF LifeInv, OwnersAreLast, TreeFollowsGuest, LivesAreKnown, LivesAreApart,
                    LinesAreCovered, Covers
<1>10. \A q \in 1..MaxProcesses :
         /\ InOrder(index[q]) /\ ~HasByteOf(index[q], i)
         /\ \A k \in 1..Len(index[q]) : /\ index[q][k].start <= index[q][k].end
                                        /\ index[q][k].end <= LineStart(i)
  <2> SUFFICES ASSUME NEW q \in 1..MaxProcesses
               PROVE  /\ InOrder(index[q]) /\ ~HasByteOf(index[q], i)
                      /\ \A k \in 1..Len(index[q]) : /\ index[q][k].start <= index[q][k].end
                                                     /\ index[q][k].end <= LineStart(i)
    OBVIOUS
  <2>1. index[q] \in Seq(Block)
    BY <1>3
  <2>2. InOrder(index[q])
    BY <1>3 DEF LogInv, BlocksHoldTheLines
  <2>3. \A k \in DOMAIN index[q] : /\ index[q][k].start <= index[q][k].end
                                   /\ index[q][k].end <= LineStart(i)
    BY <1>3 DEF LogInv, BlocksEnd, i
  <2> QED  BY <1>2, <2>1, <2>2, <2>3, BlocksBefore
<1>11. ASSUME p # 0
       PROVE  /\ p \in 1..MaxProcesses /\ E \in Seq(Block) /\ InOrder(E) /\ HasLine(E, i)
              /\ \A k \in 1..Len(E) : E[k].start <= E[k].end /\ E[k].end <= LineStart(i + 1)
              /\ \A j \in 1..(i - 1) : /\ HasLine(index[p], j) => HasLine(E, j)
                                       /\ ~HasByteOf(index[p], j) => ~HasByteOf(E, j)
  <2>1. p \in 1..MaxProcesses
    BY <1>2, <1>4, <1>11
  <2> QED  BY <1>2, <1>3, <1>10, <2>1, ExtendIs DEF E
<1>12. LogTypeOK'
  <2>1. found' \in [Pids -> 0..m] /\ index' \in [1..MaxProcesses -> Seq(Block)]
    BY <1>3, <1>4, <1>5, <1>11
  <2>2. lines' \in Seq([pid : Pids, evtid : 1..MaxEvents, method : Methods, of : 1..Len(guest')])
    BY <1>1, <1>5 DEF LogTypeOK
  <2> QED  BY <1>5, <1>6, <2>1, <2>2 DEF LogTypeOK, Block
<1>13. IndexIsLast'
  BY <1>2, <1>5, <1>6 DEF IndexIsLast
<1>14. FoundIsRight'
  <2> SUFFICES ASSUME NEW pid \in Pids, found'[pid] # 0, NEW j \in 1..Len(lines)
               PROVE  /\ processes[found'[pid]].pid = pid
                      /\ j > i => processes[found'[pid]].from <= lines[j].evtid
    <3>1. i \in 1..Len(lines)
      BY <1>2
    <3> QED  BY <1>2, <1>5, <1>6, <3>1 DEF FoundIsRight
  <2>1. CASE found'[pid] = found[pid]
    <3>1. /\ processes[found[pid]].pid = pid
          /\ j > Len(attributed) => processes[found[pid]].from <= lines[j].evtid
      BY <1>2, <2>1 DEF LogInv, FoundIsRight
    <3> QED  BY <1>2, <1>3, <2>1, <3>1
  <2>2. CASE p # 0 /\ pid = lines[i].pid
    <3>1. found'[pid] = p
      BY <1>3, <1>5, <2>2
    <3>2. processes[p].from <= lines[i].evtid
      BY <1>4, <2>2 DEF Covers
    <3>3. j > i => lines[i].evtid <= lines[j].evtid
      BY <1>1, <1>2 DEF LifeInv, LinesAreCovered
    <3>4. p \in 1..m /\ lines[i].evtid \in Nat /\ lines[j].evtid \in Nat
      BY <1>1, <1>2, <1>4, <2>2, LifeTypes
    <3>5. processes[p].from \in Nat
      BY <1>1, <3>4, LifeTypes
    <3> QED  BY <1>4, <2>2, <3>1, <3>2, <3>3, <3>4, <3>5
  <2> QED  BY <1>3, <1>5, <2>1, <2>2
<1>15. LinesAreAttributed'
  <2> SUFFICES ASSUME NEW j \in 1..i, guest[lines[j].of].logged
               PROVE  attributed'[j] # 0 /\ processes[attributed'[j]].born = lines[j].of
    BY <1>5, <1>7 DEF LinesAreAttributed
  <2>1. CASE j \in 1..(i - 1)
    BY <1>3, <1>6, <2>1 DEF LogInv, LinesAreAttributed
  <2>2. CASE j = i
    BY <1>4, <1>6, <2>2
  <2> QED  BY <1>7, <2>1, <2>2
<1>16. \A q \in 1..MaxProcesses :
         index'[q] = IF p # 0 /\ q = p THEN E ELSE index[q]
  BY <1>3, <1>5
<1>17. DOMAIN index' = 1..MaxProcesses
  BY <1>3, <1>5
<1>18. BlocksEnd'
  <2> SUFFICES ASSUME NEW q \in 1..MaxProcesses, NEW k \in DOMAIN index'[q]
               PROVE  /\ index'[q][k].start <= index'[q][k].end
                      /\ index'[q][k].end <= LineStart(i + 1)
    BY <1>6, <1>17 DEF BlocksEnd, LineStart
  <2>1. CASE p # 0 /\ q = p
    BY <1>11, <1>16, <2>1
  <2>2. CASE ~(p # 0 /\ q = p)
    <3>1. index'[q] = index[q] /\ index[q] \in Seq(Block)
      BY <1>3, <1>16, <2>2
    <3>2. k \in 1..Len(index[q])
      BY <3>1
    <3>3. index[q][k].start <= index[q][k].end /\ index[q][k].end <= LineStart(i)
      BY <1>10, <3>2
    <3>4. LineStart(i) \in Nat /\ LineStart(i + 1) \in Nat /\ LineStart(i) < LineStart(i + 1)
      BY <1>2, LinesFollow
    <3>5. index[q][k].end \in Nat
      <4>1. index[q][k] \in Block
        BY <3>1, <3>2
      <4> QED  BY <4>1 DEF Block
    <3> QED  BY <3>1, <3>3, <3>4, <3>5
  <2> QED  BY <2>1, <2>2
<1>19. BlocksHoldTheLines'
  <2> SUFFICES ASSUME NEW q \in 1..MaxProcesses
               PROVE  /\ InOrder(index'[q])
                      /\ \A j \in 1..i : IF attributed'[j] = q THEN HasLine(index'[q], j)
                                         ELSE ~HasByteOf(index'[q], j)
    BY <1>5, <1>7, <1>17 DEF BlocksHoldTheLines, InOrder, HasLine, HasByteOf, LineStart
  <2>1. \A j \in 1..(i - 1) : IF attributed[j] = q THEN HasLine(index[q], j)
                               ELSE ~HasByteOf(index[q], j)
    BY <1>3 DEF LogInv, BlocksHoldTheLines
  <2>2. CASE p # 0 /\ q = p
    <3>1. index'[q] = E /\ attributed'[i] = q
      BY <1>6, <1>16, <2>2
    <3>2. ASSUME NEW j \in 1..(i - 1)
          PROVE  IF attributed'[j] = q THEN HasLine(E, j) ELSE ~HasByteOf(E, j)
      BY <1>6, <1>11, <2>1, <2>2
    <3> QED  BY <1>7, <1>11, <2>2, <3>1, <3>2
  <2>3. CASE ~(p # 0 /\ q = p)
    <3>1. index'[q] = index[q] /\ InOrder(index[q]) /\ ~HasByteOf(index[q], i)
      BY <1>10, <1>16, <2>3
    <3>2. attributed'[i] # q
      BY <1>6, <2>3
    <3>3. ASSUME NEW j \in 1..(i - 1)
          PROVE  IF attributed'[j] = q THEN HasLine(index[q], j) ELSE ~HasByteOf(index[q], j)
      BY <1>6, <2>1
    <3> QED  BY <1>7, <3>1, <3>2, <3>3
  <2> QED  BY <2>2, <2>3
<1>20. Len(guest') <= MaxProcesses
  BY <1>1, <1>5
<1> QED  BY <1>8, <1>9, <1>12, <1>13, <1>14, <1>15, <1>18, <1>19, <1>20 DEF LogInv

LEMMA LogStep ==
  ASSUME LogInv, NextLog PROVE LogInv'
  BY WriteTree, WriteLine, IndexStep DEF NextLog

----------------------------------------------------------------------------
(* What the API reads                                                       *)

(* The bytes of the first k blocks, of those that pass.                     *)
Chosen(b, filter, k) ==
  {x \in Nat : \E j \in 1..k :
     Passing(filter, b[j].method) /\ b[j].start <= x /\ x < b[j].end}

(* The blocks of an index, none beyond the byte e.                          *)
Blocks(e) ==
  {b \in Seq(Block) : /\ InOrder(b)
                      /\ \A k \in 1..Len(b) : b[k].start <= b[k].end /\ b[k].end <= e}

LEMMA BlocksAre ==
  ASSUME NEW e \in Nat, NEW b \in Blocks(e)
  PROVE  /\ b \in Seq(Block) /\ Len(b) \in Nat
         /\ \A k \in 1..Len(b) : /\ b[k].start \in Nat /\ b[k].end \in Nat
                                 /\ b[k].start <= b[k].end /\ b[k].end <= e
         /\ \A k, l \in 1..Len(b) : k < l => b[k].end <= b[l].start
<1>1. /\ b \in Seq(Block) /\ InOrder(b) /\ Len(b) \in Nat /\ DOMAIN b = 1..Len(b)
      /\ \A k \in 1..Len(b) : b[k].start <= b[k].end /\ b[k].end <= e
  BY DEF Blocks
<1>2. \A x \in Block : x.start \in Nat /\ x.end \in Nat
  BY DEF Block
<1>3. \A k \in 1..Len(b) : b[k] \in Block
  BY <1>1
<1> QED  BY <1>1, <1>2, <1>3 DEF InOrder

LEMMA ChosenIsFinite ==
  ASSUME NEW e \in Nat, NEW b \in Blocks(e), NEW filter, NEW k \in 0..Len(b)
  PROVE  /\ IsFiniteSet(Chosen(b, filter, k)) /\ Cardinality(Chosen(b, filter, k)) \in Nat
         /\ Chosen(b, filter, k) \subseteq Chosen(b, filter, Len(b))
         /\ Chosen(b, filter, k) \subseteq Nat
<1>1. Chosen(b, filter, k) \in SUBSET (0..e)
  <2> SUFFICES ASSUME NEW x \in Chosen(b, filter, k) PROVE x \in 0..e
    OBVIOUS
  <2>1. PICK j \in 1..k : b[j].start <= x /\ x < b[j].end
    BY DEF Chosen
  <2>2. x \in Nat /\ j \in 1..Len(b)
    BY BlocksAre DEF Chosen
  <2> QED  BY <2>1, <2>2, BlocksAre
<1>2. IsFiniteSet(0..e)
  BY FS_Interval
<1>3. Chosen(b, filter, k) \subseteq Chosen(b, filter, Len(b))
  <2>1. Len(b) \in Nat
    BY BlocksAre
  <2> QED  BY <2>1 DEF Chosen
<1> QED  BY <1>1, <1>2, <1>3, FS_Subset, FS_CardinalityType

LEMMA IntervalIs ==
  ASSUME NEW m \in Nat, NEW n \in Nat
  PROVE  IsFiniteSet(m..(m + n - 1)) /\ Cardinality(m..(m + n - 1)) = n
<1>1. m \in Int /\ m + n - 1 \in Int /\ (IF m > m + n - 1 THEN 0 ELSE m + n - 1 - m + 1) = n
  OBVIOUS
<1> QED  BY <1>1, FS_Interval

(* Two sets of bytes with none in common                                    *)
LEMMA JoinIs ==
  ASSUME NEW S, IsFiniteSet(S), NEW m \in Nat, NEW n \in Nat, S \cap (m..(m + n - 1)) = {}
  PROVE  Cardinality(S \cup (m..(m + n - 1))) = Cardinality(S) + n
<1> DEFINE T == m..(m + n - 1)
<1>1. IsFiniteSet(T) /\ Cardinality(T) = n
  BY IntervalIs
<1>2. S \cap T = {} /\ Cardinality({}) = 0 /\ Cardinality(S) \in Nat
  BY FS_EmptySet, FS_CardinalityType
<1> HIDE DEF T
<1>3. Cardinality(S \cup T) = Cardinality(S) + Cardinality(T) - Cardinality(S \cap T)
  BY <1>1, FS_Union
<1>4. Cardinality(S \cap T) = 0
  BY <1>2
<1>5. Cardinality(S \cup T) = Cardinality(S) + n
  BY <1>1, <1>2, <1>3, <1>4
<1> QED  BY <1>5 DEF T

(* A block that passes adds its bytes, and the bytes before any of them are *)
(* those of the blocks before and those of its own.                         *)
LEMMA ChosenGrows ==
  ASSUME NEW e \in Nat, NEW b \in Blocks(e), NEW filter, NEW k \in 1..Len(b)
  PROVE  LET C(j) == Chosen(b, filter, j) IN
         /\ ~Passing(filter, b[k].method) => C(k) = C(k - 1)
         /\ Passing(filter, b[k].method) =>
              /\ Cardinality(C(k)) = Cardinality(C(k - 1)) + (b[k].end - b[k].start)
              /\ \A x \in b[k].start..(b[k].end - 1) :
                   /\ x \in C(Len(b))
                   /\ Before(C(Len(b)), x) = Cardinality(C(k - 1)) + (x - b[k].start)
<1> DEFINE C(j) == Chosen(b, filter, j)
           s == b[k].start
           n == b[k].end - b[k].start
<1>1. /\ Len(b) \in Nat /\ k \in Nat /\ k - 1 \in 0..Len(b) /\ k <= Len(b) /\ k - 1 + 1 = k
      /\ 1..k = 1..(k - 1) \cup {k}
  BY BlocksAre
<1>2. /\ s \in Nat /\ n \in Nat /\ b[k].end = s + n
      /\ \A j \in 1..Len(b) : /\ b[j].start \in Nat /\ b[j].end \in Nat
                              /\ j < k => b[j].end <= s
                              /\ j > k => b[k].end <= b[j].start
  BY BlocksAre
<1>3. CASE ~Passing(filter, b[k].method)
  <2>1. C(k) = C(k - 1)
    BY <1>1, <1>3 DEF Chosen
  <2> QED  BY <1>3, <2>1
<1>4. CASE Passing(filter, b[k].method)
  <2>1. IsFiniteSet(C(k - 1)) /\ \A x \in C(k - 1) : x \in Nat /\ x < s
    <3>1. IsFiniteSet(C(k - 1))
      BY <1>1, ChosenIsFinite
    <3>2. ASSUME NEW x \in C(k - 1) PROVE x \in Nat /\ x < s
      <4>1. PICK j \in 1..(k - 1) : x \in Nat /\ x < b[j].end
        BY DEF Chosen
      <4>2. j \in 1..Len(b) /\ j < k
        BY <1>1
      <4> QED  BY <1>2, <4>1, <4>2
    <3> QED  BY <3>1, <3>2
  <2>2. C(k) = C(k - 1) \cup (s..(s + n - 1))
    <3>1. \A x : x \in s..(s + n - 1) <=> x \in Nat /\ b[k].start <= x /\ x < b[k].end
      BY <1>2
    <3> QED  BY <1>1, <1>4, <3>1 DEF Chosen
  <2>3. Cardinality(C(k)) = Cardinality(C(k - 1)) + n
    <3>1. C(k - 1) \cap (s..(s + n - 1)) = {}
      BY <1>2, <2>1
    <3> HIDE DEF C, s, n
    <3> QED  BY <1>2, <2>1, <2>2, <3>1, JoinIs
  <2>4. ASSUME NEW x \in s..(b[k].end - 1)
        PROVE  x \in C(Len(b)) /\ Before(C(Len(b)), x) = Cardinality(C(k - 1)) + (x - s)
    <3>1. x \in Nat /\ x - s \in Nat /\ s + (x - s) - 1 = x - 1 /\ s <= x /\ x < b[k].end
      <4>1. s \in Nat /\ n \in Nat /\ b[k].end = s + n
        BY <1>2
      <4> HIDE DEF s, n
      <4> QED  BY <4>1
    <3>2. x \in C(Len(b))
      BY <1>1, <1>4, <3>1 DEF Chosen
    <3>3. {y \in C(Len(b)) : y < x} = C(k - 1) \cup (s..(s + (x - s) - 1))
      <4>1. ASSUME NEW y \in C(Len(b)), y < x PROVE y \in C(k - 1) \cup (s..(x - 1))
        <5>1. PICK j \in 1..Len(b) : /\ y \in Nat /\ Passing(filter, b[j].method)
                                     /\ b[j].start <= y /\ y < b[j].end
          BY DEF Chosen
        <5>2. CASE j < k
          <6>1. j \in 1..(k - 1)
            BY <1>1, <5>2
          <6> QED  BY <5>1, <6>1 DEF Chosen
        <5>3. CASE j = k
          BY <1>2, <3>1, <4>1, <5>1, <5>3
        <5>4. CASE j > k
          <6>1. b[k].end <= b[j].start /\ b[j].start \in Nat /\ b[k].end \in Nat
            BY <1>2, <5>4
          <6> QED  BY <3>1, <4>1, <5>1, <6>1
        <5> QED  BY <1>1, <5>2, <5>3, <5>4
      <4>2. ASSUME NEW y \in C(k - 1) PROVE y \in C(Len(b)) /\ y < x
        <5>1. y \in C(Len(b))
          BY <1>1, ChosenIsFinite
        <5> QED  BY <1>2, <2>1, <3>1, <5>1
      <4>3. ASSUME NEW y \in s..(x - 1) PROVE y \in C(Len(b)) /\ y < x
        <5>1. s \in Nat /\ b[k].end \in Nat /\ x \in Nat /\ x < b[k].end
          BY <1>2, <3>1
        <5>2. y \in Nat /\ s <= y /\ y < b[k].end /\ y < x
          <6> HIDE DEF s
          <6> QED  BY <5>1
        <5> QED  BY <1>1, <1>4, <5>2 DEF Chosen
      <4> HIDE DEF C, s, n
      <4> QED  BY <3>1, <4>1, <4>2, <4>3
    <3>4. C(k - 1) \cap (s..(s + (x - s) - 1)) = {}
      BY <1>2, <2>1, <3>1
    <3> HIDE DEF C, s, n
    <3>5. Cardinality(C(k - 1) \cup (s..(s + (x - s) - 1))) = Cardinality(C(k - 1)) + (x - s)
      BY <1>2, <2>1, <3>1, <3>4, JoinIs
    <3>6. Cardinality({y \in C(Len(b)) : y < x}) = Cardinality(C(k - 1)) + (x - s)
      BY <3>3, <3>5
    <3> QED  BY <3>2, <3>6 DEF Before
  <2> QED  BY <1>4, <2>3, <2>4
<1> QED  BY <1>3, <1>4

(* The loop of scattered_read_file, turn by turn                            *)
LEMMA ReadBlocksAre ==
  ASSUME NEW blocks, Len(blocks) \in Nat, NEW filter, NEW skip, NEW wanted
  PROVE  LET read == ReadBlocks(blocks, filter, skip, wanted) IN
         /\ read[0] = [scanned |-> 0, out |-> <<>>]
         /\ \A k \in 1..Len(blocks) :
              read[k] = IF Passing(filter, blocks[k].method)
                        THEN ReadBlock(read[k - 1], blocks[k], skip, wanted) ELSE read[k - 1]
<1> DEFINE Turn(x, k) == IF k = 0 THEN [scanned |-> 0, out |-> <<>>]
                         ELSE IF Passing(filter, blocks[k].method)
                              THEN ReadBlock(x[k - 1], blocks[k], skip, wanted) ELSE x[k - 1]
           n == Len(blocks)
           Is(x, m) == x = [k \in 0..m |-> Turn(x, k)]
           Bad == {m \in 0..n : ~ \E x : Is(x, m)}
<1>1. Bad = {}
  <2> SUFFICES ASSUME Bad # {} PROVE FALSE
    OBVIOUS
  <2>1. PICK m \in Bad : \A k \in Bad : m <= k
    <3>1. Bad \in SUBSET Nat
      OBVIOUS
    <3> HIDE DEF Bad
    <3> QED  BY <3>1, LeastIs
  <2>2. m \in 0..n /\ m \in Nat /\ ~ \E x : Is(x, m)
    OBVIOUS
  <2>3. CASE m = 0
    <3> DEFINE x == [k \in 0..0 |-> [scanned |-> 0, out |-> <<>>]]
    <3>1. x = [k \in 0..0 |-> Turn(x, k)]
      OBVIOUS
    <3>2. Is(x, 0)
      BY <3>1
    <3> QED  BY <2>2, <2>3, <3>2
  <2>4. CASE m # 0
    <3>1. m - 1 \in 0..n /\ m - 1 < m /\ m - 1 \in Nat
      BY <2>2, <2>4
    <3>2. PICK x : Is(x, m - 1)
      <4>1. m - 1 \notin Bad
        <5> HIDE DEF Bad
        <5> QED  BY <2>1, <2>2, <3>1
      <4> QED  BY <3>1, <4>1
    <3> DEFINE y == [k \in 0..m |-> IF k = m THEN Turn(x, m) ELSE x[k]]
    <3>3. ASSUME NEW k \in 0..m PROVE y[k] = Turn(y, k)
      <4>1. k = 0 \/ (k - 1 \in 0..m /\ k - 1 # m /\ y[k - 1] = x[k - 1])
        BY <2>2
      <4>2. Turn(y, k) = Turn(x, k)
        <5> HIDE DEF y
        <5> QED  BY <4>1
      <4>3. k # m => k \in 0..(m - 1)
        BY <2>2
      <4>4. k # m => x[k] = Turn(x, k)
        <5> HIDE DEF Turn
        <5> QED  BY <3>2, <4>3
      <4> HIDE DEF Turn
      <4> QED  BY <4>2, <4>4
    <3>4. y = [k \in 0..m |-> Turn(y, k)]
      <4>1. y = [k \in 0..m |-> y[k]]
        OBVIOUS
      <4> HIDE DEF y, Turn
      <4> QED  BY <3>3, <4>1
    <3>5. Is(y, m)
      <4> HIDE DEF y, Turn
      <4> QED  BY <3>4
    <3> HIDE DEF y, Is
    <3> QED  BY <2>2, <3>5
  <2> QED  BY <2>3, <2>4
<1>2. \E x : Is(x, n)
  <2>1. n \in 0..n
    OBVIOUS
  <2> QED  BY <1>1, <2>1
<1>3. Is(ReadBlocks(blocks, filter, skip, wanted), n)
  <2>1. ReadBlocks(blocks, filter, skip, wanted) = CHOOSE x : Is(x, n)
    BY DEF ReadBlocks
  <2> HIDE DEF Is
  <2> QED  BY <1>2, <2>1
<1> DEFINE read == ReadBlocks(blocks, filter, skip, wanted)
<1>4. \A k \in 0..n : read[k] = Turn(read, k)
  <2> HIDE DEF Turn, read
  <2> QED  BY <1>3 DEF read
<1>5. 0 \in 0..n /\ \A k \in 1..n : k \in 0..n /\ k # 0
  OBVIOUS
<1> HIDE DEF read
<1> QED  BY <1>4, <1>5 DEF read

LEMMA SpanIs ==
  ASSUME NEW start \in Nat, NEW n \in Nat
  PROVE  /\ Span(start, n) \in Seq(Nat) /\ Len(Span(start, n)) = n
         /\ \A i \in 1..n : Span(start, n)[i] = start + i - 1
  BY DEF Span

(* How much of the slice the first s bytes of the log have                  *)
Clip(s, skip, wanted) ==
  IF s <= skip THEN 0 ELSE IF wanted <= s - skip THEN wanted ELSE s - skip

(* What has been read when s bytes of the log were scanned                  *)
ReadUpTo(read, log, s, skip, wanted) ==
  /\ read.scanned = s /\ read.out \in Seq(Nat) /\ Len(read.out) = Clip(s, skip, wanted)
  /\ \A i \in 1..Len(read.out) : read.out[i] \in log /\ Before(log, read.out[i]) = skip + i - 1

LEMMA ReadBlockIs ==
  ASSUME NEW log, NEW s \in Nat, NEW skip \in Nat, NEW wanted \in Nat, NEW read,
         ReadUpTo(read, log, s, skip, wanted),
         NEW b, b.start \in Nat, b.end \in Nat, b.start <= b.end,
         \A x \in b.start..(b.end - 1) : x \in log /\ Before(log, x) = s + (x - b.start)
  PROVE  ReadUpTo(ReadBlock(read, b, skip, wanted), log, s + (b.end - b.start), skip, wanted)
<1> DEFINE n     == b.end - b.start
           m     == Len(read.out)
           drop  == BlockSkip(skip, s)
           chunk == Min({wanted - m, n - drop})
           span  == Span(b.start + drop, chunk)
           next  == ReadBlock(read, b, skip, wanted)
<1>1. /\ read.scanned = s /\ read.out \in Seq(Nat) /\ m = Clip(s, skip, wanted)
      /\ \A i \in 1..m : read.out[i] \in log /\ Before(log, read.out[i]) = skip + i - 1
  BY DEF ReadUpTo
<1>2. n \in Nat /\ b.end = b.start + n /\ m \in Nat /\ m <= wanted /\ s + n \in Nat
  BY <1>1 DEF Clip
<1>3. /\ next.scanned = s + n
      /\ next.out = IF skip < s + n THEN read.out \o span ELSE read.out
  BY <1>1 DEF ReadBlock
<1>4. CASE skip >= s + n
  <2>1. next.out = read.out
    BY <1>2, <1>3, <1>4
  <2>2. Clip(s, skip, wanted) = 0 /\ Clip(s + n, skip, wanted) = 0
    BY <1>2, <1>4 DEF Clip
  <2> HIDE DEF next, n
  <2> QED  BY <1>1, <1>3, <2>1, <2>2 DEF ReadUpTo, next, n
<1>5. CASE skip < s + n
  <2>1. drop = (IF skip > s THEN skip - s ELSE 0) /\ drop \in Nat /\ n - drop \in Nat
    BY <1>2, <1>5 DEF BlockSkip
  <2>2. /\ chunk \in Nat /\ chunk = (IF wanted - m <= n - drop THEN wanted - m ELSE n - drop)
        /\ chunk <= n - drop
    <3> DEFINE S == {wanted - m, n - drop}
    <3>1. S \in SUBSET Nat /\ S # {}
      <4> HIDE DEF drop, m, n
      <4> QED  BY <1>2, <2>1
    <3>2. Min(S) \in S /\ \A k \in S : Min(S) <= k
      <4> HIDE DEF S
      <4> QED  BY <3>1, MinIs
    <3>3. chunk \in {wanted - m, n - drop} /\ chunk <= wanted - m /\ chunk <= n - drop
      BY <3>2
    <3>4. wanted - m \in Nat
      BY <1>2
    <3> HIDE DEF chunk, S, m, n, drop
    <3> QED  BY <2>1, <3>3, <3>4
  <2>3. m + chunk = Clip(s + n, skip, wanted)
    <3> HIDE DEF chunk, drop, m, n
    <3> QED  BY <1>1, <1>2, <1>5, <2>1, <2>2 DEF Clip
  <2>4. chunk # 0 => s + drop = skip + m
    <3> HIDE DEF chunk, drop, m, n
    <3> QED  BY <1>1, <1>2, <1>5, <2>1, <2>2 DEF Clip
  <2>5. /\ span \in Seq(Nat) /\ Len(span) = chunk
        /\ \A i \in 1..chunk : span[i] = b.start + drop + i - 1
    <3> HIDE DEF chunk, drop
    <3>1. b.start + drop \in Nat
      BY <2>1
    <3> QED  BY <2>2, <3>1, SpanIs
  <2>6. next.out = read.out \o span
    BY <1>3, <1>5
  <2>7. /\ next.out \in Seq(Nat) /\ Len(next.out) = m + chunk
        /\ \A i \in 1..m : next.out[i] = read.out[i]
        /\ \A i \in 1..chunk : next.out[m + i] = span[i]
    <3> DEFINE t == read.out \o span
    <3>1. /\ t \in Seq(Nat) /\ Len(t) = m + Len(span)
          /\ \A i \in 1..m : t[i] = read.out[i]
          /\ \A i \in 1..Len(span) : t[m + i] = span[i]
      <4> DEFINE q == read.out
      <4>1. q \in Seq(Nat) /\ span \in Seq(Nat)
        BY <1>1, <2>5
      <4> HIDE DEF span, q
      <4>2. /\ q \o span \in Seq(Nat) /\ Len(q \o span) = Len(q) + Len(span)
            /\ \A i \in 1..Len(q) : (q \o span)[i] = q[i]
            /\ \A i \in 1..Len(span) : (q \o span)[Len(q) + i] = span[i]
        BY <4>1, SeqJoin
      <4> QED  BY <4>2 DEF q
    <3> HIDE DEF next, span, chunk, t, m
    <3> QED  BY <2>5, <2>6, <3>1 DEF t
  <2>8. ASSUME NEW i \in 1..(m + chunk)
        PROVE  next.out[i] \in log /\ Before(log, next.out[i]) = skip + i - 1
    <3> HIDE DEF next, span, chunk, m, n, drop
    <3>1. CASE i <= m
      <4>1. i \in 1..m
        BY <1>2, <2>2, <3>1
      <4> QED  BY <1>1, <2>7, <4>1 DEF m
    <3>2. CASE i > m
      <4> DEFINE j == i - m
                 x == b.start + drop + j - 1
      <4>1. j \in 1..chunk /\ i = m + j
        BY <1>2, <2>2, <3>2
      <4>2. next.out[i] = x
        BY <2>5, <2>7, <4>1
      <4>3. x \in b.start..(b.end - 1) /\ x - b.start = drop + j - 1
        <5> HIDE DEF j
        <5> QED  BY <1>2, <2>1, <2>2, <4>1
      <4>4. x \in log /\ Before(log, x) = s + (x - b.start)
        <5> HIDE DEF x
        <5> QED  BY <4>3
      <4>5. s + (drop + j - 1) = skip + i - 1
        <5>1. s + drop = skip + m
          BY <2>2, <2>4, <4>1
        <5> HIDE DEF j
        <5> QED  BY <1>2, <2>1, <4>1, <5>1
      <4> HIDE DEF x, j
      <4> QED  BY <4>2, <4>3, <4>4, <4>5
    <3> QED  BY <1>2, <2>2, <3>1, <3>2
  <2> HIDE DEF next, span, chunk, m, drop
  <2> QED  BY <1>3, <2>3, <2>7, <2>8 DEF ReadUpTo, next, n
<1> QED  BY <1>2, <1>4, <1>5

LEMMA ReadIsSlice ==
  ASSUME NEW e \in Nat, NEW b \in Blocks(e), NEW filter, NEW skip \in Nat, NEW wanted \in Nat
  PROVE  LET data == ScatteredRead(b, filter, skip, wanted) IN
         data \in Seq(Nat) /\ IsSlice(data, Chosen(b, filter, Len(b)), skip, wanted)
<1> DEFINE C(k) == Chosen(b, filter, k)
           n == Len(b)
           log == C(n)
           read == ReadBlocks(b, filter, skip, wanted)
           Right(k) == ReadUpTo(read[k], log, Cardinality(C(k)), skip, wanted)
           Bad == {k \in 0..n : ~Right(k)}
<1>1. n \in Nat
  BY BlocksAre
<1>2. /\ read[0] = [scanned |-> 0, out |-> <<>>]
      /\ \A k \in 1..n : read[k] = IF Passing(filter, b[k].method)
                                   THEN ReadBlock(read[k - 1], b[k], skip, wanted) ELSE read[k - 1]
  BY <1>1, ReadBlocksAre
<1>3. Right(0)
  <2>1. C(0) = {}
    BY DEF Chosen
  <2>2. Cardinality(C(0)) = 0
    BY <2>1, FS_EmptySet
  <2>3. read[0].scanned = 0 /\ read[0].out = <<>>
    BY <1>2
  <2> HIDE DEF C, read
  <2> QED  BY <2>2, <2>3 DEF ReadUpTo, Clip
<1>4. ASSUME NEW k \in 1..n, Right(k - 1) PROVE Right(k)
  <2>1. k - 1 \in 0..n
    BY <1>1
  <2>2. Cardinality(C(k - 1)) \in Nat
    BY <2>1, ChosenIsFinite
  <2>3. CASE ~Passing(filter, b[k].method)
    <3>1. read[k] = read[k - 1]
      BY <1>2, <2>3
    <3>2. C(k) = C(k - 1)
      BY <2>3, ChosenGrows
    <3> HIDE DEF C, read
    <3> QED  BY <1>4, <3>1, <3>2
  <2>4. CASE Passing(filter, b[k].method)
    <3>1. read[k] = ReadBlock(read[k - 1], b[k], skip, wanted)
      BY <1>2, <2>4
    <3>2. /\ Cardinality(C(k)) = Cardinality(C(k - 1)) + (b[k].end - b[k].start)
          /\ \A x \in b[k].start..(b[k].end - 1) :
               x \in log /\ Before(log, x) = Cardinality(C(k - 1)) + (x - b[k].start)
      BY <2>4, ChosenGrows
    <3>3. b[k].start \in Nat /\ b[k].end \in Nat /\ b[k].start <= b[k].end
      BY BlocksAre
    <3> HIDE DEF C, read, log
    <3>4. ReadUpTo(ReadBlock(read[k - 1], b[k], skip, wanted), log,
                   Cardinality(C(k - 1)) + (b[k].end - b[k].start), skip, wanted)
      BY <1>4, <2>2, <3>2, <3>3, ReadBlockIs
    <3> QED  BY <3>1, <3>2, <3>4
  <2> QED  BY <2>3, <2>4
<1>5. Bad = {}
  <2> SUFFICES ASSUME Bad # {} PROVE FALSE
    OBVIOUS
  <2>1. PICK m \in Bad : \A k \in Bad : m <= k
    <3>1. Bad \in SUBSET Nat
      OBVIOUS
    <3> HIDE DEF Bad
    <3> QED  BY <3>1, LeastIs
  <2> HIDE DEF Right
  <2>2. m \in 0..n /\ m \in Nat /\ ~Right(m) /\ m # 0
    BY <1>3
  <2>3. m \in 1..n /\ m - 1 \in 0..n /\ m - 1 < m
    BY <1>1, <2>2
  <2>4. m - 1 \notin Bad
    <3> HIDE DEF Bad
    <3> QED  BY <2>1, <2>2, <2>3
  <2> QED  BY <1>4, <2>2, <2>3, <2>4
<1>6. Right(n)
  <2>1. n \in 0..n
    BY <1>1
  <2> HIDE DEF Right
  <2> QED  BY <1>5, <2>1
<1> DEFINE data == ScatteredRead(b, filter, skip, wanted)
<1>7. data = read[n].out
  BY DEF ScatteredRead
<1>8. Cardinality(log) \in Nat
  <2>1. n \in 0..n
    BY <1>1
  <2> QED  BY <2>1, ChosenIsFinite
<1>9. Len(data) = IF skip < Cardinality(log) THEN Min({wanted, Cardinality(log) - skip}) ELSE 0
  <2>1. Len(data) = Clip(Cardinality(log), skip, wanted)
    <3> HIDE DEF data, read, log
    <3> QED  BY <1>6, <1>7 DEF ReadUpTo, log
  <2>2. CASE skip < Cardinality(log)
    <3> DEFINE S == {wanted, Cardinality(log) - skip}
    <3>1. S \in SUBSET Nat /\ S # {}
      <4> HIDE DEF log
      <4> QED  BY <1>8, <2>2
    <3>2. Min(S) \in S /\ \A k \in S : Min(S) <= k
      <4> HIDE DEF S
      <4> QED  BY <3>1, MinIs
    <3> HIDE DEF data, log
    <3> QED  BY <1>8, <2>1, <2>2, <3>2 DEF Clip
  <2>3. CASE ~(skip < Cardinality(log))
    <3> HIDE DEF data, log
    <3> QED  BY <1>8, <2>1, <2>3 DEF Clip
  <2> QED  BY <2>2, <2>3
<1>10. data \in Seq(Nat) /\ \A i \in DOMAIN data : /\ data[i] \in log
                                                  /\ Before(log, data[i]) = skip + i - 1
  <2>1. /\ data \in Seq(Nat)
        /\ \A i \in 1..Len(data) : data[i] \in log /\ Before(log, data[i]) = skip + i - 1
    <3> HIDE DEF data, read, log
    <3> QED  BY <1>6, <1>7 DEF ReadUpTo, log
  <2> HIDE DEF data, log
  <2>2. DOMAIN data = 1..Len(data)
    BY <2>1
  <2> QED  BY <2>1, <2>2
<1> HIDE DEF data
<1> QED  BY <1>9, <1>10 DEF IsSlice, data

LEMMA LineNext ==
  ASSUME NEW i \in Nat \ {0} PROVE LineStart(i + 1) = LineStart(i) + LineWidth
<1>1. LineWidth \in Nat /\ i - 1 \in Nat
  BY LogAssumption
<1>2. LineWidth * ((i - 1) + 1) = LineWidth * (i - 1) + LineWidth
  BY <1>1
<1> QED  BY <1>1, <1>2 DEF LineStart

LEMMA FirstLine == LineStart(1) = 0
  BY LogAssumption DEF LineStart

LEMMA LineOfByte ==
  ASSUME NEW n \in Nat, NEW x \in Nat, x < LineStart(n + 1)
  PROVE  \E i \in 1..n : LineStart(i) <= x /\ x < LineStart(i + 1)
<1> DEFINE S == {i \in Nat : x < LineStart(i + 1)}
<1>1. PICK m \in S : \A k \in S : m <= k
  <2>1. S \in SUBSET Nat /\ S # {}
    OBVIOUS
  <2> HIDE DEF S
  <2> QED  BY <2>1, LeastIs
<1>2. m \in Nat /\ x < LineStart(m + 1) /\ m <= n
  BY <1>1
<1>3. m # 0
  <2>1. LineStart(0 + 1) = 0
    BY FirstLine
  <2> QED  BY <1>2, <2>1
<1>4. m - 1 \in Nat /\ (m - 1) + 1 = m /\ m - 1 < m
  BY <1>2, <1>3
<1>5. ~(x < LineStart(m))
  <2>1. m - 1 \notin S
    <3> HIDE DEF S
    <3> QED  BY <1>1, <1>2, <1>4
  <2> QED  BY <1>4, <2>1
<1>6. LineStart(m) \in Nat
  BY <1>2, <1>3, LinesFollow
<1> QED  BY <1>2, <1>3, <1>5, <1>6

(* The blocks of a process that pass have the bytes of its lines that do.   *)
LEMMA LogIsChosen ==
  ASSUME NEW p, NEW filter, Len(lines) \in Nat, DOMAIN lines = 1..Len(lines),
         DOMAIN attributed = 1..Len(lines),
         index[p] \in Blocks(LineStart(Len(lines) + 1)),
         \A i \in 1..Len(lines) :
           IF attributed[i] = p THEN HasLine(index[p], i) ELSE ~HasByteOf(index[p], i)
  PROVE  FilteredLog(p, filter) = Chosen(index[p], filter, Len(index[p]))
<1> DEFINE b == index[p]
           n == Len(lines)
<1>1. \A i \in 1..n : i \in Nat \ {0}
  OBVIOUS
<1>2. \A i \in 1..n : LineStart(i) \in Nat /\ LineStart(i + 1) \in Nat
  BY <1>1, LinesFollow
<1>3. LineStart(n + 1) \in Nat
  <2>1. n + 1 \in Nat \ {0}
    OBVIOUS
  <2> QED  BY <2>1, LinesFollow
<1>4. /\ b \in Seq(Block) /\ Len(b) \in Nat /\ DOMAIN b = 1..Len(b)
      /\ \A k \in 1..Len(b) : /\ b[k].start \in Nat /\ b[k].end \in Nat
                              /\ b[k].start <= b[k].end /\ b[k].end <= LineStart(n + 1)
      /\ \A k, l \in 1..Len(b) : k < l => b[k].end <= b[l].start
  <2> HIDE DEF b
  <2>1. b \in Blocks(LineStart(n + 1))
    BY DEF b
  <2> QED  BY <1>3, <2>1, BlocksAre
<1>5. ASSUME NEW x \in FilteredLog(p, filter) PROVE x \in Chosen(b, filter, Len(b))
  <2>1. PICK i \in LinesOf(p, filter) : x \in LineStart(i)..(LineStart(i + 1) - 1)
    BY DEF FilteredLog
  <2>2. i \in 1..n /\ attributed[i] = p /\ Passing(filter, lines[i].method)
    BY DEF LinesOf
  <2>3. PICK k \in 1..Len(b) : /\ b[k].start <= LineStart(i) /\ LineStart(i + 1) <= b[k].end
                               /\ b[k].method = lines[i].method
    BY <1>4, <2>2 DEF HasLine
  <2>4. x \in Nat /\ b[k].start <= x /\ x < b[k].end
    <3>1. /\ LineStart(i) \in Nat /\ LineStart(i + 1) \in Nat
          /\ b[k].start \in Nat /\ b[k].end \in Nat
      BY <1>2, <1>4, <2>2
    <3> HIDE DEF b
    <3> QED  BY <2>1, <2>3, <3>1
  <2> QED  BY <2>2, <2>3, <2>4 DEF Chosen
<1>6. ASSUME NEW x \in Chosen(b, filter, Len(b)) PROVE x \in FilteredLog(p, filter)
  <2>1. PICK k \in 1..Len(b) : /\ x \in Nat /\ Passing(filter, b[k].method)
                               /\ b[k].start <= x /\ x < b[k].end
    BY DEF Chosen
  <2>2. PICK i \in 1..n : LineStart(i) <= x /\ x < LineStart(i + 1)
    <3>1. x < LineStart(n + 1)
      BY <1>3, <1>4, <2>1
    <3> QED  BY <2>1, <3>1, LineOfByte
  <2>3. HasByteOf(b, i)
    <3>1. b[k].start < LineStart(i + 1) /\ LineStart(i) < b[k].end
      BY <1>2, <1>4, <2>1, <2>2
    <3> QED  BY <1>4, <3>1 DEF HasByteOf
  <2>4. attributed[i] = p /\ HasLine(b, i)
    BY <2>3
  <2>5. PICK l \in 1..Len(b) : /\ b[l].start <= LineStart(i) /\ LineStart(i + 1) <= b[l].end
                               /\ b[l].method = lines[i].method
    BY <1>4, <2>4 DEF HasLine
  <2>6. k = l
    <3>1. b[l].start <= x /\ x < b[l].end
      <4>1. /\ LineStart(i) \in Nat /\ LineStart(i + 1) \in Nat /\ x \in Nat
            /\ b[l].start \in Nat /\ b[l].end \in Nat
        BY <1>2, <1>4, <2>1
      <4> HIDE DEF b
      <4> QED  BY <2>2, <2>5, <4>1
    <3>2. ~(k < l)
      <4>1. k < l => b[k].end <= b[l].start
        BY <1>4
      <4> QED  BY <1>4, <2>1, <3>1, <4>1
    <3>3. ~(l < k)
      <4>1. l < k => b[l].end <= b[k].start
        BY <1>4
      <4> QED  BY <1>4, <2>1, <3>1, <4>1
    <3> QED  BY <1>4, <3>2, <3>3
  <2>7. i \in LinesOf(p, filter)
    BY <2>1, <2>4, <2>5, <2>6 DEF LinesOf
  <2>8. x \in LineStart(i)..(LineStart(i + 1) - 1)
    BY <1>2, <2>1, <2>2
  <2> QED  BY <2>7, <2>8 DEF FilteredLog
<1> HIDE DEF b
<1>7. FilteredLog(p, filter) = Chosen(b, filter, Len(b))
  BY <1>5, <1>6
<1> QED  BY <1>7 DEF b

----------------------------------------------------------------------------
(* What the viewer shows                                                    *)

(* The bytes of some lines of the log                                       *)
LogOf(L) == UNION {LineStart(i)..(LineStart(i + 1) - 1) : i \in L}

Upto(L, k) == {x \in LogOf(L) : x < LineStart(k)}

LEMMA LineTypes ==
  ASSUME NEW n \in Nat, NEW i \in 1..(n + 1)
  PROVE  /\ i \in Nat \ {0} /\ LineStart(i) \in Nat /\ LineStart(i + 1) = LineStart(i) + LineWidth
         /\ LineWidth \in Nat /\ LineWidth > 0
<1>1. i \in Nat \ {0}
  OBVIOUS
<1> QED  BY <1>1, LineNext, LinesFollow, LogAssumption

LEMMA LinesApart ==
  ASSUME NEW i \in Nat \ {0}, NEW j \in Nat \ {0}, i < j
  PROVE  LineStart(i + 1) <= LineStart(j)
<1>1. i \in 1..(j - 1)
  OBVIOUS
<1> QED  BY <1>1, LinesFollow

(* Before a line there are the bytes of some whole lines.                   *)
LEMMA UptoIs ==
  ASSUME NEW n \in Nat, NEW L \in SUBSET (1..n), NEW k \in 1..(n + 1)
  PROVE  /\ IsFiniteSet(Upto(L, k))
         /\ \E c \in 0..(k - 1) : Cardinality(Upto(L, k)) = LineStart(c + 1)
<1> DEFINE Right(m) == /\ IsFiniteSet(Upto(L, m))
                       /\ \E c \in 0..(m - 1) : Cardinality(Upto(L, m)) = LineStart(c + 1)
           Bad == {m \in 1..(n + 1) : ~Right(m)}
<1>0. \A i \in L : i \in Nat \ {0} /\ LineStart(i) \in Nat
  <2> SUFFICES ASSUME NEW i \in L PROVE i \in Nat \ {0} /\ LineStart(i) \in Nat
    OBVIOUS
  <2>1. i \in 1..(n + 1)
    OBVIOUS
  <2> QED  BY <2>1, LineTypes
<1>1. Right(1)
  <2>1. Upto(L, 1) = {}
    BY <1>0, FirstLine DEF Upto, LogOf
  <2>2. IsFiniteSet({}) /\ Cardinality({}) = 0
    BY FS_EmptySet
  <2>3. 0 \in 0..(1 - 1) /\ Cardinality(Upto(L, 1)) = LineStart(0 + 1)
    BY <2>1, <2>2, FirstLine
  <2> QED  BY <2>1, <2>2, <2>3
<1>2. ASSUME NEW m \in 1..n, Right(m) PROVE Right(m + 1)
  <2>1. /\ m \in Nat \ {0} /\ LineStart(m) \in Nat /\ LineStart(m + 1) = LineStart(m) + LineWidth
        /\ LineWidth \in Nat /\ LineWidth > 0
    <3>1. m \in 1..(n + 1)
      OBVIOUS
    <3> QED  BY <3>1, LineTypes
  <2>2. PICK c \in 0..(m - 1) : Cardinality(Upto(L, m)) = LineStart(c + 1)
    BY <1>2
  <2>3. \A i \in L : /\ i < m => LineStart(i + 1) <= LineStart(m)
                     /\ i > m => LineStart(m + 1) <= LineStart(i)
    BY <1>0, <2>1, LinesApart
  <2>4. CASE m \in L
    <3> DEFINE T == LineStart(m)..(LineStart(m) + LineWidth - 1)
    <3>1. Upto(L, m + 1) = Upto(L, m) \cup T
      <4>1. ASSUME NEW x \in Upto(L, m + 1) PROVE x \in Upto(L, m) \cup T
        <5>1. PICK i \in L : x \in LineStart(i)..(LineStart(i + 1) - 1)
          BY DEF Upto, LogOf
        <5>2. x \in LogOf(L) /\ x < LineStart(m + 1)
          BY DEF Upto
        <5>3. x \in Int /\ LineStart(i) <= x /\ LineStart(i) \in Nat
          BY <1>0, <5>1
        <5>4. CASE x < LineStart(m)
          BY <5>2, <5>4 DEF Upto
        <5>5. CASE ~(x < LineStart(m))
          BY <2>1, <5>2, <5>3, <5>5
        <5> QED  BY <5>4, <5>5
      <4>2. ASSUME NEW x \in Upto(L, m) PROVE x \in Upto(L, m + 1)
        <5>1. x \in LogOf(L) /\ x < LineStart(m)
          BY DEF Upto
        <5>2. x \in Int
          BY <5>1 DEF LogOf
        <5>3. x < LineStart(m + 1)
          BY <2>1, <5>1, <5>2
        <5> QED  BY <5>1, <5>3 DEF Upto
      <4>3. ASSUME NEW x \in T PROVE x \in Upto(L, m + 1)
        <5>1. x \in LineStart(m)..(LineStart(m + 1) - 1) /\ x < LineStart(m + 1)
          BY <2>1
        <5> QED  BY <2>4, <5>1 DEF Upto, LogOf
      <4> HIDE DEF T
      <4> QED  BY <4>1, <4>2, <4>3
    <3>2. Upto(L, m) \cap T = {}
      BY <2>1 DEF Upto
    <3>3. IsFiniteSet(T) /\ Cardinality(Upto(L, m) \cup T) = Cardinality(Upto(L, m)) + LineWidth
      BY <1>2, <2>1, <3>2, IntervalIs, JoinIs
    <3>4. IsFiniteSet(Upto(L, m) \cup T)
      <4> HIDE DEF T
      <4> QED  BY <1>2, <3>3, FS_Union
    <3>5. c + 1 \in 0..(m + 1 - 1) /\ c + 1 \in Nat \ {0}
      BY <2>1
    <3>6. Cardinality(Upto(L, m + 1)) = LineStart((c + 1) + 1)
      <4>1. LineStart((c + 1) + 1) = LineStart(c + 1) + LineWidth
        BY <3>5, LineNext
      <4> HIDE DEF T
      <4> QED  BY <2>2, <3>1, <3>3, <4>1
    <3>7. IsFiniteSet(Upto(L, m + 1))
      BY <3>1, <3>4
    <3>8. \E d \in 0..(m + 1 - 1) : Cardinality(Upto(L, m + 1)) = LineStart(d + 1)
      BY <3>5, <3>6
    <3> QED  BY <3>7, <3>8
  <2>5. CASE m \notin L
    <3>1. Upto(L, m + 1) = Upto(L, m)
      <4>1. ASSUME NEW x \in LogOf(L) PROVE x < LineStart(m + 1) <=> x < LineStart(m)
        <5>1. PICK i \in L : x \in LineStart(i)..(LineStart(i + 1) - 1)
          BY DEF LogOf
        <5>2. /\ LineStart(i) \in Nat /\ LineStart(i + 1) = LineStart(i) + LineWidth
              /\ i \in Nat
          BY <1>0, LineNext
        <5>3. i < m \/ i > m
          BY <2>1, <2>5, <5>2
        <5>4. CASE i < m
          <6>1. LineStart(i + 1) <= LineStart(m)
            BY <2>3, <5>4
          <6> QED  BY <2>1, <5>1, <5>2, <6>1
        <5>5. CASE i > m
          <6>1. LineStart(m + 1) <= LineStart(i)
            BY <2>3, <5>5
          <6> QED  BY <2>1, <5>1, <5>2, <6>1
        <5> QED  BY <5>3, <5>4, <5>5
      <4> QED  BY <4>1 DEF Upto
    <3>2. c \in 0..(m + 1 - 1)
      BY <2>1
    <3> QED  BY <1>2, <2>2, <3>1, <3>2
  <2> QED  BY <2>4, <2>5
<1>3. Bad = {}
  <2> SUFFICES ASSUME Bad # {} PROVE FALSE
    OBVIOUS
  <2>1. PICK m \in Bad : \A j \in Bad : m <= j
    <3>1. Bad \in SUBSET Nat
      OBVIOUS
    <3> HIDE DEF Bad
    <3> QED  BY <3>1, LeastIs
  <2> HIDE DEF Right
  <2>2. m \in 1..(n + 1) /\ m \in Nat /\ ~Right(m) /\ m # 1
    BY <1>1
  <2>3. m - 1 \in 1..n /\ m - 1 \in 1..(n + 1) /\ m - 1 < m /\ (m - 1) + 1 = m
    BY <2>2
  <2>4. m - 1 \notin Bad
    <3> HIDE DEF Bad
    <3> QED  BY <2>1, <2>2, <2>3
  <2>5. Right(m - 1)
    BY <2>3, <2>4
  <2>6. Right((m - 1) + 1)
    BY <1>2, <2>3, <2>5
  <2> QED  BY <2>2, <2>3, <2>6
<1> QED  BY <1>3

(* A byte ends a line of the log if it is the last of some whole lines.     *)
LEMMA EndOfLine ==
  ASSUME NEW n \in Nat, DOMAIN lines = 1..n, NEW L \in SUBSET (1..n), NEW x \in LogOf(L)
  PROVE  /\ Before(LogOf(L), x) \in Nat
         /\ EndsLine(x) <=> \E c \in Nat : Before(LogOf(L), x) + 1 = LineStart(c + 1)
<1>1. PICK i \in L : x \in LineStart(i)..(LineStart(i + 1) - 1)
  BY DEF LogOf
<1>2. /\ i \in 1..n /\ i \in Nat \ {0} /\ LineStart(i) \in Nat
      /\ LineStart(i + 1) = LineStart(i) + LineWidth /\ LineWidth \in Nat /\ LineWidth > 0
  <2>1. i \in 1..(n + 1) /\ i \in 1..n
    OBVIOUS
  <2> QED  BY <2>1, LineTypes
<1> DEFINE r == x - LineStart(i)
<1>3. /\ x \in Nat /\ r \in Nat /\ r < LineWidth /\ LineStart(i) <= x /\ x < LineStart(i + 1)
      /\ x = LineStart(i) + r
  BY <1>1, <1>2
<1>4. PICK c \in Nat : /\ IsFiniteSet(Upto(L, i)) /\ Cardinality(Upto(L, i)) = LineStart(c + 1)
                       /\ LineStart(c + 1) \in Nat /\ LineStart(c + 2) = LineStart(c + 1) + LineWidth
                       /\ LineStart(c + 2) \in Nat
  <2>1. i \in 1..(n + 1)
    BY <1>2
  <2>2. PICK c \in 0..(i - 1) : IsFiniteSet(Upto(L, i)) /\ Cardinality(Upto(L, i)) = LineStart(c + 1)
    BY <2>1, UptoIs
  <2>3. c \in Nat /\ c + 1 \in Nat \ {0} /\ (c + 1) + 1 = c + 2
    BY <1>2
  <2> QED  BY <2>2, <2>3, LineNext, LinesFollow
<1>5. Before(LogOf(L), x) = LineStart(c + 1) + r
  <2> DEFINE T == LineStart(i)..(LineStart(i) + r - 1)
  <2>1. {y \in LogOf(L) : y < x} = Upto(L, i) \cup T
    <3>1. ASSUME NEW y \in LogOf(L), y < x PROVE y \in Upto(L, i) \cup T
      <4>1. y \in Int
        BY DEF LogOf
      <4>2. CASE y < LineStart(i)
        BY <4>2 DEF Upto
      <4>3. CASE ~(y < LineStart(i))
        BY <1>2, <1>3, <3>1, <4>1, <4>3
      <4> QED  BY <4>2, <4>3
    <3>2. ASSUME NEW y \in Upto(L, i) PROVE y \in LogOf(L) /\ y < x
      <4>1. y \in LogOf(L) /\ y < LineStart(i)
        BY DEF Upto
      <4>2. y \in Int
        BY <4>1 DEF LogOf
      <4> QED  BY <1>2, <1>3, <4>1, <4>2
    <3>3. ASSUME NEW y \in T PROVE y \in LogOf(L) /\ y < x
      <4>1. y \in LineStart(i)..(LineStart(i + 1) - 1) /\ y < x
        BY <1>2, <1>3
      <4> QED  BY <4>1 DEF LogOf
    <3> HIDE DEF T
    <3> QED  BY <3>1, <3>2, <3>3
  <2>2. Upto(L, i) \cap T = {}
    BY <1>2 DEF Upto
  <2>3. Cardinality(Upto(L, i) \cup T) = Cardinality(Upto(L, i)) + r
    <3> HIDE DEF r
    <3> QED  BY <1>2, <1>3, <1>4, <2>2, JoinIs
  <2> QED  BY <1>4, <2>1, <2>3 DEF Before
<1> HIDE DEF r
<1>6. ASSUME EndsLine(x) PROVE \E d \in Nat : Before(LogOf(L), x) + 1 = LineStart(d + 1)
  <2>1. PICK j \in 1..n : x + 1 = LineStart(j + 1)
    BY <1>6 DEF EndsLine
  <2>2. j \in Nat \ {0} /\ LineStart(j) \in Nat /\ LineStart(j + 1) = LineStart(j) + LineWidth
    <3>1. j \in 1..(n + 1)
      OBVIOUS
    <3> QED  BY <3>1, LineTypes
  <2>3. ~(j < i)
    <3>1. j < i => LineStart(j + 1) <= LineStart(i)
      BY <1>2, <2>2, LinesApart
    <3> QED  BY <1>2, <1>3, <2>1, <2>2, <3>1
  <2>4. ~(j > i)
    <3>1. i < j => LineStart(i + 1) <= LineStart(j)
      BY <1>2, <2>2, LinesApart
    <3> QED  BY <1>2, <1>3, <2>1, <2>2, <3>1
  <2>5. j = i
    BY <1>2, <2>2, <2>3, <2>4
  <2>6. r + 1 = LineWidth
    BY <1>2, <1>3, <2>1, <2>5
  <2>7. Before(LogOf(L), x) + 1 = LineStart((c + 1) + 1) /\ c + 1 \in Nat
    <3>1. c + 1 \in Nat /\ (c + 1) + 1 = c + 2
      BY <1>4
    <3>2. LineStart(c + 1) + r + 1 = LineStart(c + 1) + LineWidth
      <4>1. LineStart(c + 1) \in Nat /\ r \in Nat
        BY <1>3, <1>4
      <4> QED  BY <2>6, <4>1
    <3> QED  BY <1>4, <1>5, <3>1, <3>2
  <2> QED  BY <2>7
<1>7. ASSUME NEW d \in Nat, Before(LogOf(L), x) + 1 = LineStart(d + 1) PROVE EndsLine(x)
  <2>1. d + 1 \in Nat \ {0} /\ c + 1 \in Nat \ {0} /\ LineStart(d + 1) \in Nat
    <3>1. d + 1 \in Nat \ {0} /\ c + 1 \in Nat \ {0}
      BY <1>4
    <3> QED  BY <3>1, LinesFollow
  <2>2. d > c
    <3>1. d < c => LineStart((d + 1) + 1) <= LineStart(c + 1)
      BY <2>1, LinesApart
    <3>2. LineStart((d + 1) + 1) = LineStart(d + 1) + LineWidth
      BY <2>1, LineNext
    <3>3. d = c => LineStart(d + 1) = LineStart(c + 1)
      OBVIOUS
    <3>4. LineStart(d + 1) > LineStart(c + 1)
      BY <1>3, <1>4, <1>5, <1>7, <2>1
    <3>5. ~(d < c)
      BY <1>2, <1>4, <2>1, <3>1, <3>2, <3>4
    <3>6. d # c
      BY <1>4, <2>1, <3>3, <3>4
    <3> QED  BY <3>5, <3>6
  <2>3. LineStart((c + 1) + 1) <= LineStart(d + 1)
    BY <2>1, <2>2, LinesApart
  <2>4. r + 1 = LineWidth
    <3>1. LineStart((c + 1) + 1) = LineStart(c + 1) + LineWidth
      BY <2>1, LineNext
    <3>2. LineStart(c + 1) + r + 1 = LineStart(d + 1)
      BY <1>5, <1>7
    <3>3. /\ r \in Nat /\ r < LineWidth /\ LineWidth \in Nat
          /\ LineStart(c + 1) \in Nat /\ LineStart(d + 1) \in Nat
      BY <1>2, <1>3, <1>4, <2>1
    <3> QED  BY <2>3, <3>1, <3>2, <3>3
  <2>5. x + 1 = LineStart(i + 1)
    BY <1>2, <1>3, <2>4
  <2> QED  BY <1>2, <2>5 DEF EndsLine
<1> QED  BY <1>3, <1>4, <1>5, <1>6, <1>7

LEMMA LineOrder ==
  ASSUME NEW c \in Nat, NEW d \in Nat
  PROVE  /\ LineStart(c + 1) \in Nat /\ LineStart((c + 1) + 1) = LineStart(c + 1) + LineWidth
         /\ LineWidth \in Nat /\ LineWidth > 0
         /\ c < d => LineStart(c + 1) + LineWidth <= LineStart(d + 1)
         /\ c <= d => LineStart(c + 1) <= LineStart(d + 1)
<1>1. c + 1 \in Nat \ {0} /\ d + 1 \in Nat \ {0}
  OBVIOUS
<1>2. /\ LineStart(c + 1) \in Nat /\ LineStart((c + 1) + 1) = LineStart(c + 1) + LineWidth
      /\ LineWidth \in Nat /\ LineWidth > 0 /\ LineStart(d + 1) \in Nat
  BY <1>1, LinesFollow, LineNext, LogAssumption
<1>3. c < d => LineStart((c + 1) + 1) <= LineStart(d + 1)
  <2>1. c < d => c + 1 < d + 1
    OBVIOUS
  <2> QED  BY <1>1, <2>1, LinesApart
<1>4. c = d => LineStart(c + 1) = LineStart(d + 1)
  OBVIOUS
<1>5. c <= d => c < d \/ c = d
  OBVIOUS
<1> QED  BY <1>2, <1>3, <1>4, <1>5

LEMMA TotalIs ==
  ASSUME NEW n \in Nat, NEW L \in SUBSET (1..n)
  PROVE  \E t \in 0..n : Cardinality(LogOf(L)) = LineStart(t + 1)
<1>1. ASSUME NEW x \in LogOf(L) PROVE x < LineStart(n + 1)
  <2>1. PICK i \in L : x \in LineStart(i)..(LineStart(i + 1) - 1)
    BY DEF LogOf
  <2>2. i \in Nat \ {0} /\ i + 1 \in Nat \ {0} /\ n + 1 \in Nat \ {0} /\ i < n + 1
    OBVIOUS
  <2>3. LineStart(i) \in Nat /\ LineStart(i + 1) \in Nat /\ LineStart(n + 1) \in Nat
    BY <2>2, LinesFollow
  <2>4. LineStart(i + 1) <= LineStart(n + 1)
    BY <2>2, LinesApart
  <2> QED  BY <2>1, <2>3, <2>4
<1>2. Upto(L, n + 1) = LogOf(L)
  BY <1>1 DEF Upto
<1>3. n + 1 \in 1..(n + 1) /\ (n + 1) - 1 = n
  OBVIOUS
<1> QED  BY <1>2, <1>3, UptoIs

LEMMA MaxZero ==
  ASSUME NEW n \in Nat, NEW T \in SUBSET (1..n)
  PROVE  /\ Max({0} \cup T) \in {0} \cup T /\ Max({0} \cup T) \in 0..n
         /\ \A i \in T : i <= Max({0} \cup T)
<1> DEFINE S == {0} \cup T
<1>1. \E x \in S : \A y \in S : x >= y
  <2>1. CASE T = {}
    BY <2>1
  <2>2. CASE T # {}
    <3>1. Max(T) \in T /\ \A y \in T : y <= Max(T)
      <4> HIDE DEF S
      <4> QED  BY <2>2, MaxIs
    <3> DEFINE m == Max(T)
    <3>2. m \in T /\ \A y \in T : y <= m
      BY <3>1
    <3> HIDE DEF m
    <3>3. m \in S /\ \A y \in S : m >= y
      BY <3>2
    <3> QED  BY <3>3
  <2> QED  BY <2>1, <2>2
<1>2. Max(S) \in S /\ \A y \in S : Max(S) >= y
  <2> HIDE DEF S
  <2> QED  BY <1>1 DEF Max
<1>3. \A x \in S : x \in 0..n
  OBVIOUS
<1> DEFINE m == Max(S)
<1>4. m \in S /\ m \in 0..n /\ \A y \in S : m >= y
  <2> HIDE DEF S
  <2> QED  BY <1>2, <1>3
<1>5. \A i \in T : i \in S /\ i \in Nat
  OBVIOUS
<1> HIDE DEF m
<1>6. m \in {0} \cup T /\ m \in 0..n /\ \A i \in T : i <= m
  BY <1>4, <1>5
<1> QED  BY <1>6 DEF m

(* What is shown of a response that starts with a line ends with one, and   *)
(* has a line unless there is none left.                                    *)
LEMMA WholeLinesAre ==
  ASSUME NEW n \in Nat, DOMAIN lines = 1..n, NEW L \in SUBSET (1..n), NEW c \in Nat,
         NEW size \in Nat, size >= LineWidth, NEW data \in Seq(Nat),
         IsSlice(data, LogOf(L), LineStart(c + 1), size)
  PROVE  /\ WholeLines(data) \in 0..Len(data) /\ Len(data) \in Nat
         /\ \E d \in Nat : LineStart(c + 1) + WholeLines(data) = LineStart(d + 1)
         /\ LineStart(c + 1) + WholeLines(data) <= Cardinality(LogOf(L))
            \/ WholeLines(data) = 0
         /\ LineStart(c + 1) < Cardinality(LogOf(L)) => WholeLines(data) >= LineWidth
<1> DEFINE start == LineStart(c + 1)
           log   == LogOf(L)
           total == Cardinality(log)
           m     == Len(data)
           T     == {i \in 1..m : EndsLine(data[i])}
           w     == WholeLines(data)
<1>1. m \in Nat /\ DOMAIN data = 1..m
  OBVIOUS
<1>2. PICK t \in 0..n : total = LineStart(t + 1)
  BY TotalIs
<1>3. /\ start \in Nat /\ LineStart((c + 1) + 1) = start + LineWidth
      /\ LineWidth \in Nat /\ LineWidth > 0 /\ t \in Nat
      /\ total \in Nat
      /\ c < t => start + LineWidth <= total
      /\ t <= c => total <= start
  <2>1. t \in Nat
    OBVIOUS
  <2> QED  BY <1>2, <2>1, LineOrder
<1>4. /\ m = IF start < total THEN Min({size, total - start}) ELSE 0
      /\ \A i \in 1..m : data[i] \in log /\ Before(log, data[i]) = start + i - 1
  BY <1>1 DEF IsSlice
<1>5. w \in {0} \cup T /\ w \in 0..m /\ \A i \in T : i <= w
  <2>1. T \in SUBSET (1..m)
    OBVIOUS
  <2>2. w = Max({0} \cup T)
    BY <1>1 DEF WholeLines
  <2> HIDE DEF T, w, m
  <2> QED  BY <1>1, <2>1, <2>2, MaxZero
<1>6. ASSUME NEW i \in 1..m
      PROVE  EndsLine(data[i]) <=> \E d \in Nat : start + i = LineStart(d + 1)
  <2>1. data[i] \in log /\ Before(log, data[i]) = start + i - 1
    BY <1>4
  <2>2. EndsLine(data[i]) <=> \E d \in Nat : Before(log, data[i]) + 1 = LineStart(d + 1)
    BY <2>1, EndOfLine
  <2>3. Before(log, data[i]) + 1 = start + i
    <3> HIDE DEF start, log
    <3> QED  BY <1>1, <1>3, <2>1
  <2> QED  BY <2>2, <2>3
<1>7. \E d \in Nat : start + w = LineStart(d + 1)
  <2>1. CASE w = 0
    <3>1. start + w = LineStart(c + 1)
      <4> HIDE DEF w
      <4> QED  BY <1>3, <2>1
    <3> QED  BY <3>1
  <2>2. CASE w \in T
    <3>1. w \in 1..m /\ EndsLine(data[w])
      <4> HIDE DEF w
      <4> QED  BY <2>2
    <3> HIDE DEF w, start, m
    <3> QED  BY <1>6, <3>1
  <2> HIDE DEF w, T
  <2> QED  BY <1>5, <2>1, <2>2
<1>8. start < total => m \in {size, total - start} /\ m <= size /\ m <= total - start
  <2> SUFFICES ASSUME start < total
               PROVE  m \in {size, total - start} /\ m <= size /\ m <= total - start
    OBVIOUS
  <2> DEFINE S == {size, total - start}
  <2>1. S \in SUBSET Nat /\ S # {}
    <3> HIDE DEF start, total
    <3> QED  BY <1>3
  <2>2. Min(S) \in S /\ \A k \in S : Min(S) <= k
    <3> HIDE DEF S
    <3> QED  BY <2>1, MinIs
  <2>3. m = Min(S)
    BY <1>4
  <2> HIDE DEF m
  <2> QED  BY <2>2, <2>3
<1>9. start + w <= total \/ w = 0
  <2> HIDE DEF start, total, m, w, T
  <2> QED  BY <1>1, <1>3, <1>4, <1>5, <1>8
<1>10. ASSUME start < total PROVE w >= LineWidth
  <2> HIDE DEF start, total, m, w
  <2>1. start + LineWidth <= total
    BY <1>3, <1>10
  <2>2. LineWidth \in 1..m
    BY <1>1, <1>3, <1>8, <1>10, <2>1
  <2>3. start + LineWidth = LineStart((c + 1) + 1) /\ c + 1 \in Nat
    BY <1>3
  <2>4. EndsLine(data[LineWidth])
    BY <1>6, <2>2, <2>3
  <2>5. LineWidth \in T
    BY <2>2, <2>4
  <2> HIDE DEF T
  <2>6. LineWidth <= w
    BY <1>5, <2>5
  <2> QED  BY <1>1, <1>3, <1>5, <2>6
<1> QED  BY <1>1, <1>5, <1>7, <1>9, <1>10

(* The requests of the viewer, one by one                                   *)
LEMMA ViewsAre ==
  ASSUME NEW blocks, Len(lines) \in Nat, NEW filter
  PROVE  LET view == Views(blocks, filter) IN
         /\ view[0] = [shown |-> <<>>, start |-> 0]
         /\ \A k \in 1..Len(lines) : view[k] = Load(blocks, filter, view[k - 1])
<1> DEFINE Turn(x, k) == IF k = 0 THEN [shown |-> <<>>, start |-> 0]
                         ELSE Load(blocks, filter, x[k - 1])
           n == Len(lines)
           Is(x, m) == x = [k \in 0..m |-> Turn(x, k)]
           Bad == {m \in 0..n : ~ \E x : Is(x, m)}
<1>1. Bad = {}
  <2> SUFFICES ASSUME Bad # {} PROVE FALSE
    OBVIOUS
  <2>1. PICK m \in Bad : \A k \in Bad : m <= k
    <3>1. Bad \in SUBSET Nat
      OBVIOUS
    <3> HIDE DEF Bad
    <3> QED  BY <3>1, LeastIs
  <2>2. m \in 0..n /\ m \in Nat /\ ~ \E x : Is(x, m)
    OBVIOUS
  <2>3. CASE m = 0
    <3> DEFINE x == [k \in 0..0 |-> [shown |-> <<>>, start |-> 0]]
    <3>1. x = [k \in 0..0 |-> Turn(x, k)]
      OBVIOUS
    <3>2. Is(x, 0)
      BY <3>1
    <3> QED  BY <2>2, <2>3, <3>2
  <2>4. CASE m # 0
    <3>1. m - 1 \in 0..n /\ m - 1 < m /\ m - 1 \in Nat
      BY <2>2, <2>4
    <3>2. PICK x : Is(x, m - 1)
      <4>1. m - 1 \notin Bad
        <5> HIDE DEF Bad
        <5> QED  BY <2>1, <2>2, <3>1
      <4> QED  BY <3>1, <4>1
    <3> DEFINE y == [k \in 0..m |-> IF k = m THEN Turn(x, m) ELSE x[k]]
    <3>3. ASSUME NEW k \in 0..m PROVE y[k] = Turn(y, k)
      <4>1. k = 0 \/ (k - 1 \in 0..m /\ k - 1 # m /\ y[k - 1] = x[k - 1])
        BY <2>2
      <4>2. Turn(y, k) = Turn(x, k)
        <5> HIDE DEF y
        <5> QED  BY <4>1
      <4>3. k # m => k \in 0..(m - 1)
        BY <2>2
      <4>4. k # m => x[k] = Turn(x, k)
        <5> HIDE DEF Turn
        <5> QED  BY <3>2, <4>3
      <4> HIDE DEF Turn
      <4> QED  BY <4>2, <4>4
    <3>4. y = [k \in 0..m |-> Turn(y, k)]
      <4>1. y = [k \in 0..m |-> y[k]]
        OBVIOUS
      <4> HIDE DEF y, Turn
      <4> QED  BY <3>3, <4>1
    <3>5. Is(y, m)
      <4> HIDE DEF y, Turn
      <4> QED  BY <3>4
    <3> HIDE DEF y, Is
    <3> QED  BY <2>2, <3>5
  <2> QED  BY <2>3, <2>4
<1>2. \E x : Is(x, n)
  <2>1. n \in 0..n
    OBVIOUS
  <2> QED  BY <1>1, <2>1
<1>3. Is(Views(blocks, filter), n)
  <2>1. Views(blocks, filter) = CHOOSE x : Is(x, n)
    BY DEF Views
  <2> HIDE DEF Is
  <2> QED  BY <1>2, <2>1
<1> DEFINE view == Views(blocks, filter)
<1>4. \A k \in 0..n : view[k] = Turn(view, k)
  <2> HIDE DEF Turn, view
  <2> QED  BY <1>3 DEF view
<1>5. 0 \in 0..n /\ \A k \in 1..n : k \in 0..n /\ k # 0
  OBVIOUS
<1> HIDE DEF view
<1> QED  BY <1>4, <1>5 DEF view

(* What the viewer shows after k requests: the beginning of the log, up to  *)
(* the end of a line, with k lines at least unless that is all of it.       *)
ShownUpTo(view, log, k) ==
  /\ view.start \in Nat /\ view.shown \in Seq(Nat) /\ Len(view.shown) = view.start
  /\ view.start <= Cardinality(log)
  /\ \E c \in Nat : view.start = LineStart(c + 1) /\ (c >= k \/ view.start = Cardinality(log))
  /\ \A i \in 1..view.start : view.shown[i] \in log /\ Before(log, view.shown[i]) = i - 1

LEMMA LoadShowsMore ==
  ASSUME NEW n \in Nat, DOMAIN lines = 1..n, NEW L \in SUBSET (1..n),
         NEW e \in Nat, NEW b \in Blocks(e), NEW filter,
         LogOf(L) = Chosen(b, filter, Len(b)),
         NEW k \in Nat, NEW view, ShownUpTo(view, LogOf(L), k)
  PROVE  ShownUpTo(Load(b, filter, view), LogOf(L), k + 1)
<1> DEFINE log   == LogOf(L)
           total == Cardinality(log)
           start == view.start
           size  == RangeLength(start, start + ChunkSize - 1)
           data  == ScatteredRead(b, filter, start, size)
           w     == WholeLines(data)
           cut   == SubSeq(data, 1, w)
           next  == Load(b, filter, view)
<1>1. /\ start \in Nat /\ view.shown \in Seq(Nat) /\ Len(view.shown) = start /\ start <= total
      /\ \A i \in 1..start : view.shown[i] \in log /\ Before(log, view.shown[i]) = i - 1
  BY DEF ShownUpTo
<1>2. PICK c \in Nat : start = LineStart(c + 1) /\ (c >= k \/ start = total)
  BY DEF ShownUpTo
<1>3. next.shown = view.shown \o cut /\ next.start = start + w
  BY DEF Load, NextStart
<1>4. size = ChunkSize + 1 /\ size \in Nat /\ size >= LineWidth /\ LineWidth \in Nat /\ LineWidth > 0
  <2> HIDE DEF start
  <2> QED  BY <1>1, LogAssumption DEF RangeLength
<1>5. data \in Seq(Nat) /\ IsSlice(data, log, start, size)
  <2> HIDE DEF start, size, log
  <2>1. data \in Seq(Nat) /\ IsSlice(data, Chosen(b, filter, Len(b)), start, size)
    BY <1>1, <1>4, ReadIsSlice
  <2> QED  BY <2>1 DEF log
<1>6. /\ w \in 0..Len(data) /\ Len(data) \in Nat
      /\ \E d \in Nat : start + w = LineStart(d + 1)
      /\ start + w <= total \/ w = 0
      /\ start < total => w >= LineWidth
  <2> HIDE DEF size, data, start
  <2>1. IsSlice(data, LogOf(L), LineStart(c + 1), size)
    BY <1>2, <1>5
  <2>2. /\ WholeLines(data) \in 0..Len(data) /\ Len(data) \in Nat
        /\ \E d \in Nat : LineStart(c + 1) + WholeLines(data) = LineStart(d + 1)
        /\ LineStart(c + 1) + WholeLines(data) <= Cardinality(LogOf(L)) \/ WholeLines(data) = 0
        /\ LineStart(c + 1) < Cardinality(LogOf(L)) => WholeLines(data) >= LineWidth
    BY <1>4, <1>5, <2>1, WholeLinesAre
  <2> QED  BY <1>2, <2>2
<1>7. PICK d \in Nat : start + w = LineStart(d + 1)
  BY <1>6
<1>8. total \in Nat
  <2>1. PICK t \in 0..n : total = LineStart(t + 1)
    BY TotalIs
  <2>2. t + 1 \in Nat \ {0}
    OBVIOUS
  <2> QED  BY <2>1, <2>2, LinesFollow
<1>9. next.start \in Nat /\ next.start <= total
  <2> HIDE DEF next, start, w, total, data
  <2> QED  BY <1>1, <1>3, <1>6, <1>8
<1>10. next.start = LineStart(d + 1) /\ (d >= k + 1 \/ next.start = total)
  <2> HIDE DEF next, start, w, total, data
  <2>1. CASE start < total
    <3>1. d <= c => LineStart(d + 1) <= LineStart(c + 1)
      BY LineOrder
    <3>2. start + w > start
      BY <1>1, <1>4, <1>6, <2>1
    <3>3. d > c
      BY <1>1, <1>2, <1>6, <1>7, <3>1, <3>2
    <3>4. c >= k
      BY <1>1, <1>2, <1>8, <2>1
    <3> QED  BY <1>3, <1>7, <3>3, <3>4
  <2>2. CASE start = total
    BY <1>1, <1>3, <1>6, <1>7, <1>8, <1>9, <2>2
  <2> QED  BY <1>1, <1>8, <2>1, <2>2
<1>11. /\ cut \in Seq(Nat) /\ Len(cut) = w
       /\ \A i \in 1..w : cut[i] = data[i]
  <2> HIDE DEF data, w
  <2> QED  BY <1>5, <1>6, SubSeqIs
<1>12. /\ next.shown \in Seq(Nat) /\ Len(next.shown) = start + w
       /\ \A i \in 1..start : next.shown[i] = view.shown[i]
       /\ \A i \in 1..w : next.shown[start + i] = cut[i]
  <2> DEFINE q == view.shown
  <2>1. q \in Seq(Nat) /\ Len(q) = start
    BY <1>1
  <2> HIDE DEF cut, q
  <2>2. /\ q \o cut \in Seq(Nat) /\ Len(q \o cut) = Len(q) + Len(cut)
        /\ \A i \in 1..Len(q) : (q \o cut)[i] = q[i]
        /\ \A i \in 1..Len(cut) : (q \o cut)[Len(q) + i] = cut[i]
    <3>1. q \in Seq(Nat) /\ cut \in Seq(Nat)
      BY <1>11, <2>1
    <3> QED  BY <3>1, SeqJoin
  <2>3. next.shown = q \o cut
    BY <1>3 DEF q
  <2> HIDE DEF next, start, w
  <2> QED  BY <1>11, <2>1, <2>2, <2>3 DEF q
<1>13. ASSUME NEW i \in 1..(start + w)
       PROVE  next.shown[i] \in log /\ Before(log, next.shown[i]) = i - 1
  <2> HIDE DEF next, cut, w, data, start, log
  <2>1. CASE i <= start
    <3>1. i \in 1..start
      BY <1>1, <1>6, <2>1
    <3> QED  BY <1>1, <1>12, <3>1
  <2>2. CASE i > start
    <3> DEFINE j == i - start
    <3>1. j \in 1..w /\ start + j = i /\ j \in 1..Len(data) /\ j \in Int
      BY <1>1, <1>6, <2>2
    <3>2. data[j] \in log /\ Before(log, data[j]) = start + j - 1
      <4> HIDE DEF j
      <4>1. DOMAIN data = 1..Len(data)
        BY <1>5
      <4> QED  BY <1>5, <3>1, <4>1 DEF IsSlice
    <3>3. next.shown[i] = data[j]
      <4> HIDE DEF j
      <4> QED  BY <1>11, <1>12, <3>1
    <3> HIDE DEF j
    <3>4. start + j - 1 = i - 1
      BY <1>1, <3>1
    <3> QED  BY <3>2, <3>3, <3>4
  <2> QED  BY <1>1, <1>6, <2>1, <2>2
<1> HIDE DEF next, cut, w, data, start, log, total, size
<1>14. Len(next.shown) = next.start /\ \A i \in 1..next.start :
         next.shown[i] \in log /\ Before(log, next.shown[i]) = i - 1
  BY <1>3, <1>12, <1>13
<1>15. ShownUpTo(next, log, k + 1)
  BY <1>9, <1>10, <1>12, <1>14 DEF ShownUpTo, total
<1> QED  BY <1>15 DEF next, log

LEMMA ViewedIsLog ==
  ASSUME NEW n \in Nat, n = Len(lines), DOMAIN lines = 1..n, NEW L \in SUBSET (1..n),
         NEW e \in Nat, NEW b \in Blocks(e), NEW filter,
         LogOf(L) = Chosen(b, filter, Len(b))
  PROVE  IsSlice(Viewed(b, filter), LogOf(L), 0, Cardinality(LogOf(L)))
<1> DEFINE log == LogOf(L)
           total == Cardinality(log)
           view == Views(b, filter)
           Right(k) == ShownUpTo(view[k], log, k)
           Bad == {k \in 0..n : ~Right(k)}
<1>1. PICK t \in 0..n : total = LineStart(t + 1) /\ total \in Nat
  <2>1. PICK t \in 0..n : total = LineStart(t + 1)
    BY TotalIs
  <2>2. t + 1 \in Nat \ {0}
    OBVIOUS
  <2> QED  BY <2>1, <2>2, LinesFollow
<1>2. view[0] = [shown |-> <<>>, start |-> 0] /\ \A k \in 1..n : view[k] = Load(b, filter, view[k - 1])
  BY ViewsAre
<1> HIDE DEF view
<1>3. Right(0)
  <2>1. view[0].start = 0 /\ view[0].shown = <<>>
    BY <1>2
  <2>2. 0 = LineStart(0 + 1) /\ 0 \in Nat
    BY FirstLine
  <2>3. \E c \in Nat : 0 = LineStart(c + 1) /\ c >= 0
    BY <2>2
  <2> HIDE DEF log
  <2> QED  BY <1>1, <2>1, <2>3 DEF ShownUpTo
<1>4. ASSUME NEW k \in 1..n, Right(k - 1) PROVE Right(k)
  <2>1. k - 1 \in Nat /\ (k - 1) + 1 = k
    OBVIOUS
  <2>2. ShownUpTo(Load(b, filter, view[k - 1]), LogOf(L), (k - 1) + 1)
    BY <1>4, <2>1, LoadShowsMore
  <2> QED  BY <1>2, <2>1, <2>2
<1>5. Bad = {}
  <2> SUFFICES ASSUME Bad # {} PROVE FALSE
    OBVIOUS
  <2>1. PICK m \in Bad : \A k \in Bad : m <= k
    <3>1. Bad \in SUBSET Nat
      OBVIOUS
    <3> HIDE DEF Bad
    <3> QED  BY <3>1, LeastIs
  <2> HIDE DEF Right
  <2>2. m \in 0..n /\ m \in Nat /\ ~Right(m) /\ m # 0
    BY <1>3
  <2>3. m \in 1..n /\ m - 1 \in 0..n /\ m - 1 < m
    BY <2>2
  <2>4. m - 1 \notin Bad
    <3> HIDE DEF Bad
    <3> QED  BY <2>1, <2>2, <2>3
  <2> QED  BY <1>4, <2>2, <2>3, <2>4
<1>6. Right(n)
  <2>1. n \in 0..n
    OBVIOUS
  <2> HIDE DEF Right
  <2> QED  BY <1>5, <2>1
<1> DEFINE all == Viewed(b, filter)
<1>7. all = view[n].shown
  BY DEF Viewed, view
<1> HIDE DEF all, log
<1>8. /\ view[n].start \in Nat /\ all \in Seq(Nat) /\ Len(all) = view[n].start
      /\ view[n].start <= total
      /\ \A i \in 1..view[n].start : all[i] \in log /\ Before(log, all[i]) = i - 1
  BY <1>6, <1>7 DEF ShownUpTo
<1>9. view[n].start = total
  <2>1. PICK c \in Nat : view[n].start = LineStart(c + 1) /\ (c >= n \/ view[n].start = total)
    BY <1>6 DEF ShownUpTo
  <2>2. CASE c >= n
    <3>1. t \in Nat /\ t <= c
      BY <2>2
    <3>2. LineStart(t + 1) <= LineStart(c + 1)
      BY <3>1, LineOrder
    <3> HIDE DEF total
    <3> QED  BY <1>1, <1>8, <2>1, <3>2
  <2> QED  BY <2>1, <2>2
<1>10. Len(all) = IF 0 < total THEN Min({total, total - 0}) ELSE 0
  <2>1. {total, total - 0} \in SUBSET Nat /\ {total, total - 0} # {} /\ total - 0 = total
    <3> HIDE DEF total
    <3> QED  BY <1>1
  <2>2. Min({total, total - 0}) = total
    <3>1. {total, total - 0} = {total}
      BY <2>1
    <3>2. Min({total, total - 0}) \in {total}
      <4> DEFINE S == {total, total - 0}
      <4>1. S \in SUBSET Nat /\ S # {} /\ S = {total}
        BY <2>1, <3>1
      <4>2. Min(S) \in S
        <5> HIDE DEF S
        <5> QED  BY <4>1, MinIs
      <4> QED  BY <3>1, <4>2
    <3> QED  BY <3>2
  <2> HIDE DEF total
  <2> QED  BY <1>1, <1>8, <1>9, <2>2
<1>11. \A i \in DOMAIN all : all[i] \in log /\ Before(log, all[i]) = 0 + i - 1
  <2>1. DOMAIN all = 1..view[n].start
    BY <1>8
  <2>2. \A i \in 1..view[n].start : 0 + i - 1 = i - 1
    OBVIOUS
  <2> QED  BY <1>8, <2>1, <2>2
<1>12. IsSlice(all, log, 0, total)
  BY <1>10, <1>11 DEF IsSlice, total
<1> QED  BY <1>12 DEF all, log

(* The index of a process is what the reads of the API are proved for.      *)
LEMMA IndexIsRead ==
  ASSUME LogInv, Indexed, NEW p \in DOMAIN processes, NEW filter
  PROVE  LET n == Len(lines) IN
         /\ n \in Nat /\ DOMAIN lines = 1..n /\ LineStart(n + 1) \in Nat
         /\ LinesOf(p, filter) \in SUBSET (1..n)
         /\ index[p] \in Blocks(LineStart(n + 1))
         /\ FilteredLog(p, filter) = LogOf(LinesOf(p, filter))
         /\ FilteredLog(p, filter) = Chosen(index[p], filter, Len(index[p]))
<1> DEFINE n == Len(lines)
<1>1. /\ n \in Nat /\ DOMAIN lines = 1..n /\ Len(attributed) = n /\ DOMAIN attributed = 1..n
      /\ index \in [1..MaxProcesses -> Seq(Block)]
  <2>1. /\ lines \in Seq(Entry(Len(guest))) /\ attributed \in Seq(0..Len(processes))
        /\ index \in [1..MaxProcesses -> Seq(Block)]
    BY DEF LogInv, LogTypeOK, Entry, Block
  <2> QED  BY <2>1 DEF Indexed
<1>2. p \in 1..MaxProcesses
  <2>1. /\ processes \in Seq(Born(Len(guest))) /\ Len(processes) <= Len(guest)
        /\ Len(guest) <= MaxProcesses /\ Len(guest) \in Nat
    BY DEF LogInv, TreeInv, TreeTypeOK, TreeIsBounded, Born
  <2>2. Len(processes) \in Nat /\ DOMAIN processes = 1..Len(processes)
    BY <2>1
  <2> QED  BY <2>1, <2>2, TreeAssumption
<1>3. p \in DOMAIN index /\ index[p] \in Seq(Block) /\ DOMAIN index[p] = 1..Len(index[p])
  BY <1>1, <1>2
<1>4. LineStart(n + 1) \in Nat
  <2>1. n + 1 \in Nat \ {0}
    BY <1>1
  <2> QED  BY <2>1, LinesFollow
<1>5. index[p] \in Blocks(LineStart(n + 1))
  <2>1. InOrder(index[p])
    BY <1>3 DEF LogInv, BlocksHoldTheLines
  <2>2. \A k \in 1..Len(index[p]) : /\ index[p][k].start <= index[p][k].end
                                    /\ index[p][k].end <= LineStart(n + 1)
    BY <1>1, <1>3 DEF LogInv, BlocksEnd
  <2> QED  BY <1>3, <2>1, <2>2 DEF Blocks
<1>6. \A i \in 1..n : IF attributed[i] = p THEN HasLine(index[p], i) ELSE ~HasByteOf(index[p], i)
  BY <1>1, <1>3 DEF LogInv, BlocksHoldTheLines
<1>7. FilteredLog(p, filter) = Chosen(index[p], filter, Len(index[p]))
  BY <1>1, <1>5, <1>6, LogIsChosen
<1>8. LinesOf(p, filter) \in SUBSET (1..n)
  BY <1>1 DEF LinesOf
<1>9. FilteredLog(p, filter) = LogOf(LinesOf(p, filter))
  BY DEF FilteredLog, LogOf
<1> QED  BY <1>1, <1>4, <1>5, <1>7, <1>8, <1>9

LEMMA ReadsAreExact == LogInv => SlicesAreExact
<1> SUFFICES ASSUME LogInv, Indexed, NEW p \in DOMAIN processes, NEW filter \in SUBSET Methods,
                    NEW skip \in 0..Cardinality(FilteredLog(p, filter)) + 1,
                    NEW wanted \in 0..Cardinality(FilteredLog(p, filter)) + 1
             PROVE  IsSlice(ScatteredRead(index[p], filter, skip, wanted),
                            FilteredLog(p, filter), skip, wanted)
  BY DEF SlicesAreExact
<1>1. skip \in Nat /\ wanted \in Nat
  OBVIOUS
<1> QED  BY <1>1, IndexIsRead, ReadIsSlice

LEMMA ViewerIsExact == LogInv => ViewerShowsTheLog
<1> SUFFICES ASSUME LogInv, Indexed, NEW p \in DOMAIN processes, NEW filter \in SUBSET Methods
             PROVE  IsSlice(Viewed(index[p], filter), FilteredLog(p, filter), 0,
                            Cardinality(FilteredLog(p, filter)))
  BY DEF ViewerShowsTheLog
<1> QED  BY IndexIsRead, ViewedIsLog

----------------------------------------------------------------------------
(* The handles                                                              *)

Opened(n) == [kind : Kinds, parent : 0..n, logged : BOOLEAN]

(* An object has the parent of its kind, which was opened before it.        *)
ObjectsAreBuilt ==
  \A n \in DOMAIN objects :
    IF Parent(objects[n].kind) = "none" THEN objects[n].parent = 0
    ELSE /\ objects[n].parent \in DOMAIN objects
         /\ objects[objects[n].parent].kind = Parent(objects[n].kind)

(* An object that is open and was seen is the one its handle stands for.    *)
OpenIsSeen ==
  \A k \in Programs \X Handles :
    LET n == open[k] IN
    n # 0 /\ objects[n].logged => handles[<<k[1], k[2], objects[n].kind>>] = n

(* An object that was seen has its parent, if that was.                     *)
ParentIsSeen ==
  \A n \in DOMAIN objects :
    LET up == objects[n].parent IN
    objects[n].logged /\ up # 0 /\ objects[up].logged => parent[n] = up

RequestsAreSeen ==
  \A r \in requests : objects[r].logged /\ objects[r].kind = "request"

UsesAreResolved ==
  \A u \in uses : objects[u.about].logged => u.of = u.about

HandlesInv ==
  /\ HandlesTypeOK
  /\ objects \in Seq(Opened(Len(objects))) /\ parent \in Seq(Nat)
  /\ ObjectsAreBuilt /\ OpenIsSeen /\ ParentIsSeen /\ RequestsAreSeen /\ UsesAreResolved

LEMMA HandlesBegin == InitHandles => HandlesInv
<1> SUFFICES ASSUME InitHandles PROVE HandlesInv
  OBVIOUS
<1> USE DEF InitHandles
<1>1. HandlesTypeOK
  BY DEF HandlesTypeOK
<1>2. objects \in Seq(Opened(Len(objects))) /\ parent \in Seq(Nat)
  OBVIOUS
<1>3. ObjectsAreBuilt /\ ParentIsSeen
  BY DEF ObjectsAreBuilt, ParentIsSeen
<1>4. OpenIsSeen
  BY DEF OpenIsSeen
<1>5. RequestsAreSeen /\ UsesAreResolved
  BY DEF RequestsAreSeen, UsesAreResolved
<1> QED  BY <1>1, <1>2, <1>3, <1>4, <1>5 DEF HandlesInv

LEMMA ObjectsAre ==
  ASSUME HandlesInv
  PROVE  /\ objects \in Seq(Opened(Len(objects))) /\ Len(objects) \in Nat
         /\ DOMAIN objects = 1..Len(objects)
         /\ \A n \in 1..Len(objects) :
              /\ objects[n].kind \in Kinds /\ objects[n].parent \in 0..Len(objects)
              /\ objects[n].logged \in BOOLEAN
<1>1. objects \in Seq(Opened(Len(objects)))
  BY DEF HandlesInv
<1>2. \A o \in Opened(Len(objects)) :
        o.kind \in Kinds /\ o.parent \in 0..Len(objects) /\ o.logged \in BOOLEAN
  BY DEF Opened
<1>3. Len(objects) \in Nat /\ DOMAIN objects = 1..Len(objects)
  BY <1>1
<1>4. \A n \in 1..Len(objects) : objects[n] \in Opened(Len(objects))
  BY <1>1
<1> QED  BY <1>1, <1>2, <1>3, <1>4

LEMMA OpenKeepsHandles ==
  ASSUME HandlesInv, NEW p \in Programs, NEW h \in Handles, NEW kind \in Kinds, NEW up \in Handles,
         Open(p, h, kind, up)
  PROVE  HandlesInv'
<1> DEFINE m == Len(objects)
           n == m + 1
           above == IF Parent(kind) = "none" THEN 0 ELSE open[<<p, up>>]
           key == <<p, h, kind>>
<1>0. PICK logged \in BOOLEAN :
        /\ objects' = Append(objects, [kind |-> kind, parent |-> above, logged |-> logged])
        /\ IF logged
           THEN /\ handles' = [handles EXCEPT ![key] = n]
                /\ parent' = Append(parent,
                     IF Parent(kind) = "none" THEN 0 ELSE handles[<<p, up, Parent(kind)>>])
                /\ requests' = IF kind = "request" THEN WithRequest(p, h, n) ELSE requests
           ELSE parent' = Append(parent, 0) /\ UNCHANGED <<handles, requests>>
  BY DEF Open, Seen, Key
<1>1. /\ open[<<p, h>>] = 0 /\ open' = [open EXCEPT ![<<p, h>>] = n] /\ uses' = uses
      /\ Parent(kind) # "none" => above # 0 /\ objects[above].kind = Parent(kind)
  BY DEF Open
<1>2. /\ objects \in Seq(Opened(m)) /\ m \in Nat /\ DOMAIN objects = 1..m
      /\ \A i \in 1..m : /\ objects[i].kind \in Kinds /\ objects[i].parent \in 0..m
                         /\ objects[i].logged \in BOOLEAN
  BY ObjectsAre
<1>3. /\ open \in [Programs \X Handles -> 0..m]
      /\ handles \in [Programs \X Handles \X Kinds -> 0..m]
      /\ Len(parent) = m /\ parent \in Seq(Nat) /\ requests \subseteq 1..m
      /\ uses \subseteq [of : 1..m, about : 1..m]
  BY <1>2 DEF HandlesInv, HandlesTypeOK
<1>4. Parent(kind) # "none" => Parent(kind) \in Kinds
  BY DEF Parent, Kinds
<1>5. above \in 0..m
  BY <1>2, <1>3
<1> DEFINE o == [kind |-> kind, parent |-> above, logged |-> logged]
           q == IF logged /\ Parent(kind) # "none" THEN handles[<<p, up, Parent(kind)>>] ELSE 0
<1>6. q \in 0..m
  BY <1>2, <1>3, <1>4
<1>7. o \in Opened(n) /\ o.kind = kind /\ o.parent = above /\ o.logged = logged
  BY <1>2, <1>5 DEF Opened
<1>8. objects' = Append(objects, o) /\ parent' = Append(parent, q)
  BY <1>0
<1> HIDE DEF o, q
<1>9. objects \in Seq(Opened(n))
  <2>1. Opened(m) \subseteq Opened(n)
    BY <1>2 DEF Opened
  <2> QED  BY <1>2, <2>1, SeqLarger
<1>10. /\ objects' \in Seq(Opened(n)) /\ Len(objects') = n /\ DOMAIN objects' = 1..n
       /\ \A i \in 1..m : objects'[i] = objects[i]
       /\ objects'[n] = o
  <2>1. /\ objects' \in Seq(Opened(n)) /\ Len(objects') = n
        /\ \A i \in 1..m : objects'[i] = objects[i]
        /\ objects'[n] = o
    BY <1>7, <1>8, <1>9, SeqAppend
  <2> QED  BY <2>1
<1>11. /\ parent' \in Seq(Nat) /\ Len(parent') = n
       /\ \A i \in 1..m : parent'[i] = parent[i]
       /\ parent'[n] = q
  BY <1>3, <1>6, <1>8, SeqAppend
<1>12. n \in 1..n /\ \A i \in 0..m : i \in 0..n /\ i # n
  BY <1>2
<1>13. /\ open' \in [Programs \X Handles -> 0..n]
       /\ \A k \in Programs \X Handles : open'[k] = IF k = <<p, h>> THEN n ELSE open[k]
  BY <1>1, <1>3, <1>12
<1>14. /\ handles' \in [Programs \X Handles \X Kinds -> 0..n]
       /\ \A k \in Programs \X Handles \X Kinds :
            handles'[k] = IF logged /\ k = key THEN n ELSE handles[k]
  <2>1. CASE logged
    <3>1. handles' = [handles EXCEPT ![key] = n]
      BY <1>0, <2>1
    <3>2. handles \in [Programs \X Handles \X Kinds -> 0..n] /\ n \in 0..n
      BY <1>3, <1>12
    <3> HIDE DEF key, n
    <3> QED  BY <3>1, <3>2, <2>1
  <2>2. CASE ~logged
    BY <1>0, <1>3, <1>12, <2>2
  <2> QED  BY <2>1, <2>2
<1>15. requests' \subseteq requests \cup (IF logged /\ kind = "request" THEN {n} ELSE {})
  BY <1>0 DEF WithRequest
<1>16. HandlesTypeOK'
  <2>1. requests' \subseteq 1..n /\ uses' \subseteq [of : 1..n, about : 1..n]
    BY <1>1, <1>2, <1>3, <1>12, <1>15
  <2> QED  BY <1>10, <1>11, <1>13, <1>14, <2>1 DEF HandlesTypeOK
<1>17. ObjectsAreBuilt'
  <2> SUFFICES ASSUME NEW i \in 1..n
               PROVE  IF Parent(objects'[i].kind) = "none" THEN objects'[i].parent = 0
                      ELSE /\ objects'[i].parent \in 1..n
                           /\ objects'[objects'[i].parent].kind = Parent(objects'[i].kind)
    BY <1>10 DEF ObjectsAreBuilt, Parent
  <2>1. CASE i = n
    <3>1. objects'[i].kind = kind /\ objects'[i].parent = above
      BY <1>7, <1>10, <2>1
    <3>2. CASE Parent(kind) = "none"
      BY <3>1, <3>2
    <3>3. CASE Parent(kind) # "none"
      <4>1. above \in 1..m /\ objects[above].kind = Parent(kind)
        BY <1>1, <1>5, <3>3
      <4> HIDE DEF above
      <4> QED  BY <1>10, <1>12, <3>1, <3>3, <4>1
    <3> QED  BY <3>2, <3>3
  <2>2. CASE i # n
    <3>1. i \in 1..m
      BY <1>2, <2>2
    <3>2. IF Parent(objects[i].kind) = "none" THEN objects[i].parent = 0
          ELSE objects[i].parent \in 1..m /\ objects[objects[i].parent].kind = Parent(objects[i].kind)
      BY <1>2, <3>1 DEF HandlesInv, ObjectsAreBuilt
    <3>3. objects'[i] = objects[i] /\ \A k \in 1..m : k \in 1..n /\ objects'[k] = objects[k]
      BY <1>10, <1>12, <3>1
    <3> QED  BY <3>2, <3>3
  <2> QED  BY <2>1, <2>2
<1>18. OpenIsSeen'
  <2> SUFFICES ASSUME NEW k \in Programs \X Handles, open'[k] # 0, objects'[open'[k]].logged
               PROVE  handles'[<<k[1], k[2], objects'[open'[k]].kind>>] = open'[k]
    BY DEF OpenIsSeen
  <2>1. CASE k = <<p, h>>
    <3>1. open'[k] = n /\ objects'[n].kind = kind /\ logged
      BY <1>7, <1>10, <1>13, <2>1
    <3>2. key \in Programs \X Handles \X Kinds /\ <<k[1], k[2], kind>> = key
      BY <2>1
    <3> QED  BY <1>14, <3>1, <3>2
  <2>2. CASE k # <<p, h>>
    <3>1. open'[k] = open[k] /\ open[k] \in 1..m
      BY <1>3, <1>13, <2>2
    <3>2. objects'[open[k]] = objects[open[k]]
      BY <1>10, <3>1
    <3> DEFINE kk == <<k[1], k[2], objects[open[k]].kind>>
    <3>3. kk \in Programs \X Handles \X Kinds /\ kk # key
      <4>1. k[1] \in Programs /\ k[2] \in Handles /\ k = <<k[1], k[2]>>
        OBVIOUS
      <4>2. objects[open[k]].kind \in Kinds
        BY <1>2, <3>1
      <4> QED  BY <2>2, <4>1, <4>2
    <3>4. handles[kk] = open[k]
      BY <3>1, <3>2 DEF HandlesInv, OpenIsSeen
    <3> HIDE DEF kk
    <3>5. handles'[kk] = open[k]
      BY <1>14, <3>3, <3>4
    <3> QED  BY <3>1, <3>2, <3>5 DEF kk
  <2> QED  BY <2>1, <2>2
<1>19. ParentIsSeen'
  <2> SUFFICES ASSUME NEW i \in 1..n, objects'[i].logged, objects'[i].parent # 0,
                      objects'[objects'[i].parent].logged
               PROVE  parent'[i] = objects'[i].parent
    BY <1>10 DEF ParentIsSeen
  <2>1. CASE i = n
    <3>1. logged /\ objects'[i].parent = above /\ parent'[i] = q /\ above # 0
      BY <1>7, <1>10, <1>11, <2>1
    <3>2. Parent(kind) # "none" /\ above \in 1..m
      BY <1>5, <3>1
    <3>3. above = open[<<p, up>>] /\ objects[above].kind = Parent(kind) /\ objects[above].logged
      BY <1>1, <1>10, <3>1, <3>2
    <3>4. handles[<<p, up, Parent(kind)>>] = above
      <4>1. <<p, up>> \in Programs \X Handles /\ <<p, up>>[1] = p /\ <<p, up>>[2] = up
        OBVIOUS
      <4> HIDE DEF above
      <4> QED  BY <3>1, <3>3, <4>1 DEF HandlesInv, OpenIsSeen
    <3> QED  BY <3>1, <3>2, <3>4 DEF q
  <2>2. CASE i # n
    <3>1. i \in 1..m /\ objects'[i] = objects[i] /\ parent'[i] = parent[i]
      BY <1>2, <1>10, <1>11, <2>2
    <3>2. objects[i].parent \in 1..m
      BY <1>2, <3>1
    <3> QED  BY <1>2, <1>10, <3>1, <3>2 DEF HandlesInv, ParentIsSeen
  <2> QED  BY <2>1, <2>2
<1>20. RequestsAreSeen'
  <2> SUFFICES ASSUME NEW r \in requests' PROVE objects'[r].logged /\ objects'[r].kind = "request"
    BY DEF RequestsAreSeen
  <2>1. CASE r \in requests
    BY <1>3, <1>10, <2>1 DEF HandlesInv, RequestsAreSeen
  <2>2. CASE r \notin requests
    BY <1>7, <1>10, <1>15, <2>2
  <2> QED  BY <2>1, <2>2
<1>21. UsesAreResolved'
  BY <1>1, <1>3, <1>10 DEF HandlesInv, UsesAreResolved
<1> QED
  BY <1>10, <1>11, <1>16, <1>17, <1>18, <1>19, <1>20, <1>21 DEF HandlesInv

LEMMA HandlesStep ==
  ASSUME HandlesInv, NextHandles PROVE HandlesInv'
<1>1. ASSUME NEW p \in Programs, NEW h \in Handles, Close(p, h) PROVE HandlesInv'
  <2>1. /\ open' = [open EXCEPT ![<<p, h>>] = 0]
        /\ UNCHANGED <<objects, handles, parent, requests, uses>>
    BY <1>1 DEF Close
  <2>2. HandlesTypeOK'
    BY <2>1, ObjectsAre DEF HandlesInv, HandlesTypeOK
  <2>3. OpenIsSeen'
    BY <2>1 DEF HandlesInv, HandlesTypeOK, OpenIsSeen
  <2> QED
    BY <2>1, <2>2, <2>3
       DEF HandlesInv, ObjectsAreBuilt, ParentIsSeen, RequestsAreSeen, UsesAreResolved, Parent
<1>2. ASSUME NEW p \in Programs, NEW h \in Handles, Use(p, h) PROVE HandlesInv'
  <2> DEFINE n == open[<<p, h>>]
             seen == handles[<<p, h, objects[n].kind>>]
  <2>1. /\ n # 0 /\ UNCHANGED <<objects, open, handles, parent, requests>>
        /\ uses' = IF seen = 0 THEN uses ELSE uses \cup {[of |-> seen, about |-> n]}
    BY <1>2 DEF Use, Seen, Key
  <2>2. n \in 1..Len(objects) /\ <<p, h>> \in Programs \X Handles
    BY <2>1, ObjectsAre DEF HandlesInv, HandlesTypeOK
  <2>3. seen \in 0..Len(objects)
    BY <2>2, ObjectsAre DEF HandlesInv, HandlesTypeOK
  <2>4. objects[n].logged => seen = n
    <3>1. <<p, h>>[1] = p /\ <<p, h>>[2] = h
      OBVIOUS
    <3> QED  BY <2>1, <2>2, <3>1 DEF HandlesInv, OpenIsSeen
  <2> HIDE DEF n, seen
  <2>5. UsesAreResolved'
    BY <2>1, <2>4 DEF HandlesInv, UsesAreResolved
  <2>6. HandlesTypeOK'
    <3>1. uses' \subseteq [of : DOMAIN objects, about : DOMAIN objects]
      BY <2>1, <2>2, <2>3, ObjectsAre DEF HandlesInv, HandlesTypeOK
    <3> QED  BY <2>1, <3>1 DEF HandlesInv, HandlesTypeOK
  <2> QED
    BY <2>1, <2>5, <2>6 DEF HandlesInv, ObjectsAreBuilt, OpenIsSeen, ParentIsSeen, RequestsAreSeen
<1> QED  BY <1>1, <1>2, OpenKeepsHandles DEF NextHandles

LEMMA HandlesInvResolves == HandlesInv => HandlesAreResolved
<1> SUFFICES ASSUME HandlesInv PROVE HandlesAreResolved
  OBVIOUS
<1>1. ASSUME NEW r \in requests, objects[objects[r].parent].logged
      PROVE  LET c == objects[r].parent
                 s == objects[c].parent
             IN parent[r] = c /\ (objects[s].logged => parent[c] = s)
  <2>1. r \in DOMAIN objects /\ objects[r].logged /\ objects[r].kind = "request"
    BY <1>1 DEF HandlesInv, HandlesTypeOK, RequestsAreSeen
  <2> DEFINE c == objects[r].parent
             s == objects[c].parent
  <2>2. c \in DOMAIN objects /\ objects[c].kind = "connection"
    BY <2>1 DEF HandlesInv, ObjectsAreBuilt, Parent
  <2>3. s \in DOMAIN objects
    BY <2>2 DEF HandlesInv, ObjectsAreBuilt, Parent
  <2>4. c # 0 /\ s # 0
    BY <2>2, <2>3, ObjectsAre
  <2> QED  BY <1>1, <2>1, <2>2, <2>4 DEF HandlesInv, ParentIsSeen
<1> QED  BY <1>1 DEF HandlesInv, UsesAreResolved, HandlesAreResolved

----------------------------------------------------------------------------
(* The plugins                                                              *)

Sections == {"processes", "memdumps", "http_requests", "modified_files", "connections", "ttps"}

(* The parts of the report that a run makes again: the plugin that makes    *)
(* each, and the file it is made from.                                      *)
Parts ==
  {[step |-> 3, name |-> "processes", from |-> "procmon.log"],
   [step |-> 9, name |-> "http_requests", from |-> "apimon.log"],
   [step |-> 10, name |-> "modified_files", from |-> "filetracer.log"],
   [step |-> 11, name |-> "connections", from |-> "socketmon.log"],
   [step |-> 12, name |-> "ttps", from |-> "ttps.json"]}

There(f) == files[f] # "absent"

(* What was in the report has what it was made from, and this is not        *)
(* removed; the plugin that made it gets as far in every clean run.         *)
PartsAreFound ==
  \A x \in Parts :
    /\ (x.name \in before \cup report \cup sections
        \/ (step = x.step /\ phase \in {"write", "remove"}))
         => There(x.from) /\ There("procmon.log") /\ (x.step > 3 => There("process_tree.json"))
    /\ clean /\ step > x.step /\ x.name \in before => x.name \in sections

TreeIsFound ==
  /\ hasTree => There("procmon.log") /\ There("process_tree.json")
  /\ step = 3 /\ phase = "remove" => hasTree
  /\ clean /\ step > 3 /\ There("procmon.log") => hasTree

(* When a plugin goes on to remove, what it has written is whole.           *)
WrittenIsWhole ==
  phase = "remove" =>
    /\ step = 1 => \A log \in drakmon : files[log] = "whole"
    /\ step = 6 => files["dumps.zip"] = "whole"
    /\ step = 8 /\ config.gzipSyscalls => files["syscall.log.gz"] = "whole"
    /\ step = 13 => report = sections

(* The rounds of gzip_syscalls are of the eighth plugin, and it has not run *)
(* over a former product; metadata.json is written after the last.          *)
SysretIsKept ==
  /\ phase \in {"sysret", "sysret_write", "sysret_remove"} => step = 8
  /\ step = 8 /\ phase \in {"write", "remove", "sysret"} => ~There("sysret.log.gz")
  /\ phase = "sysret_remove" => files["sysret.log.gz"] = "whole"
  /\ phase \in {"append", "metadata"} => step = 14

(* Until generate_report writes it the report is that of the run before.    *)
ReportStands == step < 13 \/ (step = 13 /\ phase = "check") => report = before

SourcesAreWhole ==
  /\ files["drakmon.log"] # "partial"
  /\ files["dumps.zip"] = "absent" => files["dumps"] # "partial"

PostInv ==
  /\ files \in [Files -> {"absent", "partial", "whole"}]
  /\ run \in 0..MaxRuns /\ step \in 1..14 /\ faults \in 0..MaxFaults
  /\ phase \in {"check", "write", "remove", "sysret", "sysret_write", "sysret_remove",
                "append", "metadata", "ended"}
  /\ hasTree \in BOOLEAN /\ clean \in BOOLEAN
  /\ report \subseteq Sections /\ sections \subseteq Sections /\ before \subseteq Sections
  /\ config \in Configs /\ drakmon \in LogSets
  /\ SourcesAreWhole /\ WrittenIsWhole /\ NothingIsLost
  /\ SysretIsKept /\ ReportStands
  /\ TreeIsFound /\ PartsAreFound /\ RerunKeepsSections

(* The table of the plugins, as far as the invariant needs it.              *)
PluginFacts ==
  /\ "drakmon.log" \notin plugin.writes /\ "dumps" \notin plugin.writes
  /\ \A log \in Logs : log \in plugin.writes <=> step = 1 /\ log \in drakmon
  /\ "dumps.zip" \in plugin.writes <=> step = 6
  /\ "syscall.log.gz" \in plugin.writes <=> step = 8 /\ config.gzipSyscalls
  /\ "process_tree.json" \in plugin.writes <=> step = 3
  /\ "report.json" \in plugin.writes <=> step = 13
  /\ plugin.removes = IF step = 1 THEN {"drakmon.log"}
                      ELSE IF step = 6 THEN {"dumps"}
                      ELSE IF step = 8 /\ config.gzipSyscalls THEN {"syscall.log"} ELSE {}
  /\ plugin.empties = IF step = 7 THEN {"ipt"} ELSE {}
  /\ "sysret.log.gz" \notin plugin.writes
  /\ step = 1 => "drakmon.log" \in plugin.requires
  /\ step = 3 => "procmon.log" \in plugin.requires
  /\ step = 6 => "dumps" \in plugin.requires /\ "dumps.zip" \in plugin.generates
  /\ step = 8 => /\ "syscall.log" \in plugin.requires /\ plugin.section = {}
                 /\ plugin.generates = {"syscall.log.gz", "sysret.log.gz"}

(* ... and of those that make the parts of the report.                      *)
PartFacts ==
  /\ plugin.section \subseteq Sections
  /\ \A x \in Parts :
       /\ x.name \in plugin.section => step = x.step
       /\ step = x.step =>
            /\ plugin.section = {x.name} /\ plugin.generates = {}
            /\ plugin.reads = {} /\ plugin.raises = "never"
            /\ plugin.requires = IF step = 3 THEN {"procmon.log"}
                                 ELSE {"process_tree.json", x.from}
            /\ plugin.needsTree <=> step # 3

(* The plugin that is next has these fields.                                *)
Fields(requires, generates, writes, removes, empties, section, needsTree, reads, raises) ==
  /\ plugin.requires = requires /\ plugin.generates = generates
  /\ plugin.writes = writes /\ plugin.removes = removes /\ plugin.empties = empties
  /\ plugin.section = section /\ plugin.needsTree = needsTree
  /\ plugin.reads = reads /\ plugin.raises = raises

LEMMA PluginIs ==
  ASSUME step \in 1..14
  PROVE  /\ step = 1 => plugin = SplitDrakmonLog
         /\ step = 2 => plugin = GenerateWiresharkKeyFile
         /\ step = 3 => plugin = BuildProcessTree
         /\ step = 4 => plugin = CapaAnalysis
         /\ step = 5 => plugin = ScreenshotMetadata
         /\ step = 6 => plugin = ProcessDumps
         /\ step = 7 => plugin = CompressIpt
         /\ step = 8 => plugin = GzipSyscalls
         /\ step = 9 => plugin = InfoFrom("apimon.log", "http_requests")
         /\ step = 10 => plugin = InfoFrom("filetracer.log", "modified_files")
         /\ step = 11 => plugin = InfoFrom("socketmon.log", "connections")
         /\ step = 12 => plugin = InfoFrom("ttps.json", "ttps")
         /\ step = 13 => plugin = GenerateReport
         /\ step = 14 => plugin = IndexLogs
<1> QED  BY DEF plugin, Plugins

LEMMA PluginsAre ==
  ASSUME step \in 1..14, config \in Configs, drakmon \in LogSets
  PROVE  PluginFacts /\ PartFacts
<1>1. CASE step = 1
  <2>1. Fields({"drakmon.log"}, {}, drakmon, {"drakmon.log"}, {}, {}, FALSE, {}, "never")
    BY <1>1, PluginIs DEF Idle, SplitDrakmonLog, Fields
  <2> QED
    BY <1>1, <2>1, PostAssumption DEF Fields, PluginFacts, PartFacts, Logs, Sections, Parts
<1>2. CASE step = 2
  <2>1. Fields({"tlsmon.log"}, {"wireshark_key_file.txt"},
               {"wireshark_key_file.txt"}, {}, {}, {}, FALSE, {}, "never")
    BY <1>2, PluginIs DEF Idle, GenerateWiresharkKeyFile, Fields
  <2> QED
    BY <1>2, <2>1, PostAssumption DEF Fields, PluginFacts, PartFacts, Logs, Sections, Parts
<1>3. CASE step = 3
  <2>1. Fields({"procmon.log"}, {},
               {"process_tree.json"}, {}, {}, {"processes"}, FALSE, {}, "never")
    BY <1>3, PluginIs DEF Idle, BuildProcessTree, Fields
  <2> QED
    BY <1>3, <2>1, PostAssumption DEF Fields, PluginFacts, PartFacts, Logs, Sections, Parts
<1>4. CASE step = 4
  <2>1. Fields({"process_tree.json", "inject.log"}, {"ttps.json"},
               IF config.capaLogs THEN {"ttps.json"} ELSE {}, {}, {}, {}, FALSE, {},
               IF config.capaMalwareOnly THEN "first"
               ELSE IF config.capaMemdumps THEN "last" ELSE "never")
    BY <1>4, PluginIs DEF Idle, CapaAnalysis, Fields
  <2> QED
    BY <1>4, <2>1, PostAssumption DEF Fields, PluginFacts, PartFacts, Logs, Sections, Parts
<1>5. CASE step = 5
  <2>1. Fields({"screenshots.json"}, {}, {}, {}, {}, {}, FALSE, {}, "never")
    BY <1>5, PluginIs DEF Idle, ScreenshotMetadata, Fields
  <2> QED
    BY <1>5, <2>1, PostAssumption DEF Fields, PluginFacts, PartFacts, Logs, Sections, Parts
<1>6. CASE step = 6
  <2>1. Fields({"dumps", "memdump.log", "process_tree.json"}, {"dumps.zip"},
               {"dumps.zip"}, {"dumps"}, {}, {"memdumps"}, TRUE, {}, "never")
    BY <1>6, PluginIs DEF Idle, ProcessDumps, Fields
  <2> QED
    BY <1>6, <2>1, PostAssumption DEF Fields, PluginFacts, PartFacts, Logs, Sections, Parts
<1>7. CASE step = 7
  <2>1. Fields({"ipt"}, {"ipt.zip"}, {"ipt.zip"}, {}, {"ipt"}, {}, FALSE, {}, "never")
    BY <1>7, PluginIs DEF Idle, CompressIpt, Fields
  <2> QED
    BY <1>7, <2>1, PostAssumption DEF Fields, PluginFacts, PartFacts, Logs, Sections, Parts
<1>8. CASE step = 8
  <2>1. Fields({"syscall.log"}, {"syscall.log.gz", "sysret.log.gz"},
               IF config.gzipSyscalls THEN {"syscall.log.gz"} ELSE {},
               IF config.gzipSyscalls THEN {"syscall.log"} ELSE {}, {}, {}, FALSE, {}, "never")
    BY <1>8, PluginIs DEF Idle, GzipSyscalls, Fields
  <2> QED
    BY <1>8, <2>1, PostAssumption DEF Fields, PluginFacts, PartFacts, Logs, Sections, Parts
<1>9. CASE step = 9
  <2>1. plugin = InfoFrom("apimon.log", "http_requests")
    BY <1>9, PluginIs
  <2>2. Fields({"process_tree.json", "apimon.log"}, {},
               {}, {}, {}, {"http_requests"}, TRUE, {}, "never")
    BY <2>1 DEF Idle, InfoFrom, Fields
  <2> QED
    BY <1>9, <2>2, PostAssumption DEF Fields, PluginFacts, PartFacts, Logs, Sections, Parts
<1>10. CASE step = 10
  <2>1. plugin = InfoFrom("filetracer.log", "modified_files")
    BY <1>10, PluginIs
  <2>2. Fields({"process_tree.json", "filetracer.log"}, {},
               {}, {}, {}, {"modified_files"}, TRUE, {}, "never")
    BY <2>1 DEF Idle, InfoFrom, Fields
  <2> QED
    BY <1>10, <2>2, PostAssumption DEF Fields, PluginFacts, PartFacts, Logs, Sections, Parts
<1>11. CASE step = 11
  <2>1. plugin = InfoFrom("socketmon.log", "connections")
    BY <1>11, PluginIs
  <2>2. Fields({"process_tree.json", "socketmon.log"}, {},
               {}, {}, {}, {"connections"}, TRUE, {}, "never")
    BY <2>1 DEF Idle, InfoFrom, Fields
  <2> QED
    BY <1>11, <2>2, PostAssumption DEF Fields, PluginFacts, PartFacts, Logs, Sections, Parts
<1>12. CASE step = 12
  <2>1. plugin = InfoFrom("ttps.json", "ttps")
    BY <1>12, PluginIs
  <2>2. Fields({"process_tree.json", "ttps.json"}, {},
               {}, {}, {}, {"ttps"}, TRUE, {}, "never")
    BY <2>1 DEF Idle, InfoFrom, Fields
  <2> QED
    BY <1>12, <2>2, PostAssumption DEF Fields, PluginFacts, PartFacts, Logs, Sections, Parts
<1>13. CASE step = 13
  <2>1. Fields({}, {}, {"report.json"}, {}, {}, {}, FALSE, {"metadata.json"},
               IF "inject.log" \in drakmon THEN "may" ELSE "never")
    BY <1>13, PluginIs DEF Idle, GenerateReport, Fields
  <2> QED
    BY <1>13, <2>1, PostAssumption DEF Fields, PluginFacts, PartFacts, Logs, Sections, Parts
<1>14. CASE step = 14
  <2>1. Fields({"process_tree.json"}, {"log_index"},
               {"log_index"}, {}, {}, {}, TRUE, {}, "never")
    BY <1>14, PluginIs DEF Idle, IndexLogs, Fields
  <2> QED
    BY <1>14, <2>1, PostAssumption DEF Fields, PluginFacts, PartFacts, Logs, Sections, Parts
<1> QED
  BY <1>1, <1>2, <1>3, <1>4, <1>5, <1>6, <1>7, <1>8, <1>9, <1>10, <1>11, <1>12, <1>13, <1>14

LEMMA PluginsLength == Len(Plugins) = 14 /\ DOMAIN Plugins = 1..14
  BY DEF Plugins

LEMMA PostBegins == InitPost => PostInv
<1> SUFFICES ASSUME InitPost PROVE PostInv
  OBVIOUS
<1>1. PICK made \in SUBSET {"screenshots.json", "dumps", "ipt", "metadata.json"} :
        files = [f \in Files |-> IF f \in {"drakmon.log"} \cup made THEN "whole" ELSE "absent"]
  BY DEF InitPost
<1>2. /\ files \in [Files -> {"absent", "partial", "whole"}]
      /\ files["drakmon.log"] = "whole" /\ files["dumps"] # "partial"
      /\ files["dumps.zip"] = "absent"
  BY <1>1 DEF Files, Logs
<1>3. /\ step = 1 /\ phase = "ended" /\ hasTree = FALSE /\ run = 0 /\ faults = 0 /\ clean = TRUE
      /\ sections = {} /\ report = {} /\ before = {} /\ config \in Configs /\ drakmon \in LogSets
  BY DEF InitPost
<1>4. SourcesAreWhole /\ WrittenIsWhole /\ NothingIsLost /\ TreeIsFound
  BY <1>2, <1>3 DEF SourcesAreWhole, WrittenIsWhole, NothingIsLost, TreeIsFound
<1>9. SysretIsKept /\ ReportStands
  BY <1>3 DEF SysretIsKept, ReportStands
<1>5. PartsAreFound
  BY <1>3 DEF PartsAreFound, Parts
<1>6. RerunKeepsSections
  BY <1>3 DEF RerunKeepsSections
<1>7. run \in 0..MaxRuns /\ step \in 1..14 /\ faults \in 0..MaxFaults
  BY <1>3, PostAssumption
<1>8. hasTree \in BOOLEAN /\ clean \in BOOLEAN
  BY <1>3
<1> QED  BY <1>2, <1>3, <1>4, <1>5, <1>6, <1>7, <1>8, <1>9 DEF PostInv

LEMMA StartRunKeepsPost ==
  ASSUME PostInv, StartRun PROVE PostInv'
<1>1. /\ run' \in 0..MaxRuns /\ step' = 1 /\ phase' = "check" /\ hasTree' = FALSE /\ sections' = {}
      /\ before' = report /\ clean' = TRUE /\ files' = files /\ drakmon' = drakmon
      /\ config' = config /\ report' = report /\ faults' = faults
  BY PostAssumption DEF StartRun, PostInv
<1>2. SourcesAreWhole' /\ WrittenIsWhole' /\ NothingIsLost' /\ TreeIsFound'
  BY <1>1 DEF PostInv, SourcesAreWhole, WrittenIsWhole, NothingIsLost, TreeIsFound, There
<1>3. PartsAreFound'
  BY <1>1 DEF PostInv, PartsAreFound, Parts, There
<1>4. RerunKeepsSections'
  BY <1>1, PluginsLength DEF RerunKeepsSections, Plugins
<1>5. hasTree' \in BOOLEAN /\ clean' \in BOOLEAN
  BY <1>1
<1>6. SysretIsKept' /\ ReportStands'
  BY <1>1 DEF SysretIsKept, ReportStands
<1> QED  BY <1>1, <1>2, <1>3, <1>4, <1>5, <1>6 DEF PostInv

(* Where a plugin goes on, or the last one ends.                            *)
Goes ==
  /\ UNCHANGED <<config, drakmon, run, before>>
  /\ \/ step < 14 /\ step' = step + 1 /\ phase' = "check"
     \/ /\ step' = step /\ phase' \in {"append", "metadata", "ended"}
        /\ clean' \/ phase' # "ended" => step = 14

(* The files and the report stay, or the plugin has removed what it was to. *)
LEMMA GoesOn ==
  ASSUME PostInv, Goes, Plugins' = Plugins,
         hasTree' = hasTree, report' = report, clean' \in BOOLEAN, clean' => clean,
         faults' \in 0..MaxFaults,
         files' \in [Files -> {"absent", "partial", "whole"}],
         \A f \in Files :
           files'[f] = files[f] \/ f \in {"drakmon.log", "dumps", "syscall.log", "sysret.log",
                                          "metadata.json"},
         sections' \subseteq Sections, sections \subseteq sections',
         \A x \in Parts : x.name \in sections' =>
           x.name \in sections \/ (step = x.step /\ phase \in {"write", "remove"}),
         \A x \in Parts : clean' /\ step = x.step /\ x.name \in before => x.name \in sections',
         clean' /\ step = 3 /\ There("procmon.log") => hasTree,
         clean' /\ step = 13 => report = sections \/ report = before,
         SourcesAreWhole', NothingIsLost'
  PROVE  PostInv'
<1> USE DEF Goes
<1>1. /\ step \in 1..14 /\ step' \in 1..14
      /\ phase' \in {"check", "append", "metadata", "ended"}
      /\ config' = config /\ drakmon' = drakmon /\ before' = before
      /\ before \subseteq Sections /\ clean \in BOOLEAN
  BY DEF PostInv
<1>2. \A x \in Parts : /\ x.from \in Files /\ There(x.from) = There(x.from)'
                       /\ x.step \in 3..12 /\ x.name \in Sections
  BY DEF Parts, Files, Logs, There, Sections
<1>3. /\ There("procmon.log") = There("procmon.log")'
      /\ There("process_tree.json") = There("process_tree.json")'
  BY DEF Files, Logs, There
<1>4. WrittenIsWhole'
  BY <1>1 DEF WrittenIsWhole
<1>5. TreeIsFound'
  BY <1>1, <1>3 DEF PostInv, TreeIsFound
<1>6. PartsAreFound'
  <2> SUFFICES ASSUME NEW x \in Parts
               PROVE  /\ x.name \in before' \cup report' \cup sections'
                           => There(x.from)' /\ There("procmon.log")'
                              /\ (x.step > 3 => There("process_tree.json")')
                      /\ clean' /\ step' > x.step /\ x.name \in before' => x.name \in sections'
    BY <1>1 DEF PartsAreFound
  <2>1. x.name \in before' \cup report' \cup sections'
           => There(x.from)' /\ There("procmon.log")' /\ (x.step > 3 => There("process_tree.json")')
    BY <1>1, <1>2, <1>3 DEF PostInv, PartsAreFound
  <2>2. clean' /\ step' > x.step /\ x.name \in before' => x.name \in sections'
    <3>1. clean' /\ step > x.step /\ x.name \in before => x.name \in sections'
      BY DEF PostInv, PartsAreFound
    <3> QED  BY <1>1, <1>2, <3>1
  <2> QED  BY <2>1, <2>2
<1>7. RerunKeepsSections'
  <2> SUFFICES ASSUME step' = 14, clean' PROVE before \ {"memdumps"} \subseteq report
    BY <1>1, PluginsLength DEF RerunKeepsSections
  <2>1. CASE step = 14
    BY <1>1, <2>1, PluginsLength DEF PostInv, RerunKeepsSections
  <2>2. CASE step = 13
    <3>1. \A x \in Parts : x.name \in before => x.name \in sections
      BY <1>2, <2>2 DEF PostInv, PartsAreFound
    <3>2. \A s \in Sections \ {"memdumps"} : \E x \in Parts : x.name = s
      BY DEF Sections, Parts
    <3>3. report = sections \/ report = before
      BY <2>2
    <3> QED  BY <1>1, <3>1, <3>2, <3>3
  <2> QED  BY <1>1, <2>1, <2>2
<1>8. SysretIsKept' /\ ReportStands'
  <2>1. SysretIsKept'
    BY <1>1 DEF SysretIsKept
  <2>2. ReportStands'
    BY <1>1 DEF PostInv, ReportStands
  <2> QED  BY <2>1, <2>2
<1> QED  BY <1>1, <1>4, <1>5, <1>6, <1>7, <1>8 DEF PostInv

LogKept(log) ==
  \/ files[log] = "whole"
  \/ log = "syscall.log" /\ files["syscall.log.gz"] = "whole"
  \/ log = "sysret.log" /\ files["sysret.log.gz"] = "whole"

(* A step within gzip_syscalls, on sysret.log.                              *)
LEMMA GoesWithin ==
  ASSUME PostInv, step = 8, step' = 8, phase' \in {"sysret", "sysret_write", "sysret_remove"},
         UNCHANGED <<config, drakmon, run, before, hasTree, sections, report, faults, clean>>,
         Plugins' = Plugins,
         files' \in [Files -> {"absent", "partial", "whole"}],
         \A f \in Files : files'[f] = files[f] \/ f \in {"syscall.log", "sysret.log.gz"},
         SysretIsKept', NothingIsLost'
  PROVE  PostInv'
<1>1. SourcesAreWhole'
  BY DEF PostInv, SourcesAreWhole, Files
<1>2. WrittenIsWhole' /\ ReportStands'
  BY DEF PostInv, WrittenIsWhole, ReportStands
<1>3. /\ There("procmon.log") = There("procmon.log")'
      /\ There("process_tree.json") = There("process_tree.json")'
      /\ \A x \in Parts : There(x.from) = There(x.from)' /\ x.step # 8
  BY DEF There, Files, Logs, Parts
<1>4. TreeIsFound'
  BY <1>3 DEF PostInv, TreeIsFound
<1>5. PartsAreFound'
  BY <1>3 DEF PostInv, PartsAreFound
<1>6. RerunKeepsSections'
  BY PluginsLength DEF RerunKeepsSections
<1> QED
  BY <1>1, <1>2, <1>4, <1>5, <1>6 DEF PostInv

LEMMA SamePlugins ==
  ASSUME UNCHANGED <<config, drakmon>> PROVE Plugins' = Plugins
  BY DEF Plugins, Idle, SplitDrakmonLog, GenerateWiresharkKeyFile, BuildProcessTree, CapaAnalysis,
         ScreenshotMetadata, ProcessDumps, CompressIpt, GzipSyscalls, InfoFrom, GenerateReport,
         IndexLogs

LEMMA GoesNext ==
  ASSUME NextPlugin, step \in 1..14, UNCHANGED <<config, drakmon, run, before>>
  PROVE  Goes
  BY PluginsLength DEF NextPlugin, Goes

LEMMA SkipKeepsPost ==
  ASSUME PostInv, Skip PROVE PostInv'
<1> USE DEF Skip, context
<1>1. Goes /\ Plugins' = Plugins
  BY GoesNext, SamePlugins DEF PostInv
<1>2. PluginFacts /\ PartFacts
  BY PluginsAre DEF PostInv
<1>3. SourcesAreWhole' /\ NothingIsLost'
  BY DEF PostInv, SourcesAreWhole, NothingIsLost
<1>4. ASSUME NEW x \in Parts, clean, step = x.step, x.name \in before PROVE x.name \in sections
  <2>1. There(x.from) /\ There("procmon.log") /\ (x.step > 3 => There("process_tree.json"))
    BY <1>4 DEF PostInv, PartsAreFound
  <2>2. x.step \in 3..12 /\ (x.step = 3 => x.from = "procmon.log")
    BY DEF Parts
  <2>3. /\ plugin.generates = {} /\ plugin.raises = "never" /\ plugin.reads = {}
        /\ plugin.needsTree <=> step # 3
        /\ plugin.requires = IF step = 3 THEN {"procmon.log"} ELSE {"process_tree.json", x.from}
    BY <1>2, <1>4 DEF PartFacts
  <2>4. Required
    BY <1>4, <2>1, <2>2, <2>3 DEF Required, There
  <2>5. step > 3 => hasTree
    BY <1>4, <2>1 DEF PostInv, TreeIsFound
  <2> QED  BY <1>4, <2>2, <2>3, <2>4, <2>5
<1>5. ~(step = 3 /\ There("procmon.log"))
  <2> SUFFICES ASSUME step = 3, There("procmon.log") PROVE FALSE
    OBVIOUS
  <2>1. [step |-> 3, name |-> "processes", from |-> "procmon.log"] \in Parts
    BY DEF Parts
  <2>2. /\ plugin.generates = {} /\ plugin.raises = "never" /\ plugin.reads = {}
        /\ ~plugin.needsTree /\ plugin.requires = {"procmon.log"}
    BY <1>2, <2>1 DEF PartFacts
  <2> QED  BY <2>2 DEF Required, There
<1>6. step = 13 => report = before
  BY DEF PostInv, ReportStands
<1> QED
  BY <1>1, <1>3, <1>4, <1>5, <1>6, GoesOn DEF PostInv

LEMMA FaultKeepsPost ==
  ASSUME PostInv, PluginRaises \/ Kill PROVE PostInv'
<1> USE DEF PluginRaises, Kill, Fault, context
<1>1. Goes /\ Plugins' = Plugins
  BY GoesNext, SamePlugins DEF PostInv, Goes
<1>2. SourcesAreWhole' /\ NothingIsLost'
  BY DEF PostInv, SourcesAreWhole, NothingIsLost
<1>3. faults' \in 0..MaxFaults /\ clean' = FALSE
  BY PostAssumption DEF PostInv
<1> QED
  BY <1>1, <1>2, <1>3, GoesOn DEF PostInv

LEMMA CompleteKeepsPost ==
  ASSUME PostInv, Complete PROVE PostInv'
<1> USE DEF Complete, context
<1>1. Plugins' = Plugins
  BY SamePlugins
<1>2. PluginFacts /\ PartFacts
  BY PluginsAre DEF PostInv
<1>3. \A f \in Files : files'[f] = IF f \in plugin.removes THEN "absent" ELSE files[f]
  BY DEF Become
<1>4. files' \in [Files -> {"absent", "partial", "whole"}]
  BY DEF Become, PostInv
<1>5. \A f \in Files : files'[f] = files[f] \/ f \in {"drakmon.log", "dumps", "syscall.log"}
  BY <1>2, <1>3 DEF PluginFacts
<1>6. SourcesAreWhole'
  BY <1>2, <1>3 DEF PluginFacts, SourcesAreWhole, PostInv, Files, Logs
<1>7. NothingIsLost'
  <2>1. \/ files["drakmon.log"] = "whole"
        \/ \A log \in drakmon : LogKept(log)
    BY DEF PostInv, NothingIsLost, LogKept
  <2>2. /\ step = 1 => \A log \in drakmon : files[log] = "whole"
        /\ step = 6 => files["dumps.zip"] = "whole"
        /\ step = 8 /\ config.gzipSyscalls => files["syscall.log.gz"] = "whole"
    BY DEF PostInv, WrittenIsWhole
  <2>3. drakmon \subseteq Logs
    BY PostAssumption DEF PostInv
  <2>4. \A log \in drakmon : log \in Files
    BY <2>3 DEF Files
  <2>5. \A log \in Logs : log \in Files /\ log \notin {"drakmon.log", "dumps", "ipt"}
    BY DEF Files, Logs
  <2>6. {"drakmon.log", "syscall.log.gz", "sysret.log.gz", "dumps.zip", "dumps"} \subseteq Files
    BY DEF Files
  <2>7. \/ files'["drakmon.log"] = "whole"
        \/ \A log \in drakmon : LogKept(log)'
    <3>1. CASE step = 1
      <4>1. plugin.removes = {"drakmon.log"}
        BY <1>2, <3>1 DEF PluginFacts
      <4>2. \A log \in drakmon : files'[log] = files[log] /\ files[log] = "whole"
        BY <1>3, <2>2, <2>3, <2>5, <3>1, <4>1
      <4> QED  BY <4>2 DEF LogKept
    <3>2. CASE step = 8 /\ config.gzipSyscalls
      <4>1. plugin.removes = {"syscall.log"}
        BY <1>2, <3>2 DEF PluginFacts
      <4> QED  BY <1>3, <2>1, <2>2, <2>3, <2>5, <2>6, <3>2, <4>1 DEF LogKept
    <3>3. CASE step # 1 /\ ~(step = 8 /\ config.gzipSyscalls)
      <4>1. plugin.removes \subseteq {"dumps"}
        BY <1>2, <3>3 DEF PluginFacts
      <4> QED  BY <1>3, <2>1, <2>3, <2>5, <2>6, <4>1 DEF LogKept
    <3> QED  BY <3>1, <3>2, <3>3
  <2>8. files'["dumps.zip"] # "absent" => files'["dumps"] = "whole" \/ files'["dumps.zip"] = "whole"
    BY <1>2, <1>3, <2>2, <2>6 DEF PluginFacts, PostInv, NothingIsLost
  <2> QED  BY <2>7, <2>8 DEF NothingIsLost, LogKept
<1>8. /\ sections' \subseteq Sections /\ sections \subseteq sections'
      /\ \A x \in Parts : x.name \in sections' =>
           x.name \in sections \/ (step = x.step /\ phase \in {"write", "remove"})
      /\ \A x \in Parts : step = x.step => x.name \in sections'
  BY <1>2 DEF PartFacts, PostInv
<1>9. /\ step = 3 => hasTree
      /\ step = 13 => report = sections
  BY DEF PostInv, TreeIsFound, WrittenIsWhole
<1>10. CASE "syscall.log" \in plugin.removes
  <2>1. step = 8 /\ step' = 8 /\ phase' = "sysret" /\ plugin.removes = {"syscall.log"}
    BY <1>2, <1>10 DEF PluginFacts
  <2>2. sections' = sections
    BY <1>2, <2>1 DEF PluginFacts
  <2>3. SysretIsKept'
    <3>1. files'["sysret.log.gz"] = files["sysret.log.gz"]
      BY <1>3, <2>1 DEF Files
    <3> QED  BY <2>1, <3>1 DEF PostInv, SysretIsKept, There
  <2> QED  BY <1>1, <1>3, <1>4, <1>7, <2>1, <2>2, <2>3, GoesWithin
<1>11. CASE "syscall.log" \notin plugin.removes
  <2>1. Goes
    BY <1>11, GoesNext DEF PostInv
  <2> QED  BY <1>1, <1>4, <1>5, <1>6, <1>7, <1>8, <1>9, <2>1, GoesOn DEF PostInv
<1> QED  BY <1>10, <1>11

(* A log is replaced by its product when this is whole.                     *)
LEMMA SysretKeepsPost ==
  ASSUME PostInv, StartSysret \/ WriteSysret \/ RemoveSysret PROVE PostInv'
<1> USE DEF context
<1>1. /\ Plugins' = Plugins /\ step = 8
      /\ UNCHANGED <<config, drakmon, run, before, hasTree, sections, report, faults, clean>>
      /\ phase \in {"sysret", "sysret_write", "sysret_remove"}
  BY SamePlugins DEF StartSysret, WriteSysret, RemoveSysret, PostInv, SysretIsKept
<1>2. {"drakmon.log", "syscall.log.gz", "sysret.log.gz", "sysret.log", "dumps.zip", "dumps"} \cup Logs
         \subseteq Files
  BY DEF Files, Logs
<1>3. /\ files \in [Files -> {"absent", "partial", "whole"}] /\ drakmon \subseteq Logs
      /\ "drakmon.log" \notin Logs /\ "sysret.log.gz" \notin Logs
      /\ \/ files["drakmon.log"] = "whole"
         \/ \A log \in drakmon : LogKept(log)
      /\ files["dumps.zip"] # "absent" => files["dumps"] = "whole" \/ files["dumps.zip"] = "whole"
  BY PostAssumption DEF PostInv, NothingIsLost, LogKept, Logs
<1>4. CASE NextPlugin /\ UNCHANGED files
  <2>1. Goes
    BY <1>1, <1>4, GoesNext
  <2>2. SourcesAreWhole' /\ NothingIsLost'
    BY <1>1, <1>4 DEF PostInv, SourcesAreWhole, NothingIsLost
  <2>3. \A x \in Parts : x.step # 8
    BY DEF Parts
  <2> QED  BY <1>1, <1>3, <1>4, <2>1, <2>2, <2>3, GoesOn DEF PostInv
<1>5. CASE /\ phase = "sysret" /\ files["sysret.log"] # "absent"
           /\ Become("partial", {"sysret.log.gz"}) /\ phase' = "sysret_write" /\ step' = step
  <2>1. /\ files' \in [Files -> {"absent", "partial", "whole"}]
        /\ \A f \in Files : files'[f] = IF f = "sysret.log.gz" THEN "partial" ELSE files[f]
    BY <1>3, <1>5 DEF Become
  <2>2. files["sysret.log.gz"] = "absent"
    BY <1>1, <1>5 DEF PostInv, SysretIsKept, There
  <2>3. NothingIsLost'
    <3>1. (\A log \in drakmon : LogKept(log)) => (\A log \in drakmon : LogKept(log)')
      BY <1>2, <1>3, <2>1, <2>2 DEF LogKept
    <3> QED  BY <1>1, <1>2, <1>3, <2>1, <3>1 DEF NothingIsLost, LogKept
  <2>4. SysretIsKept'
    BY <1>1, <1>5 DEF SysretIsKept
  <2> QED  BY <1>1, <1>5, <2>1, <2>3, <2>4, GoesWithin
<1>6. CASE WriteSysret
  <2>1. /\ files' \in [Files -> {"absent", "partial", "whole"}]
        /\ \A f \in Files : files'[f] = IF f = "sysret.log.gz" THEN "whole" ELSE files[f]
    BY <1>3, <1>6 DEF WriteSysret, Become
  <2>2. NothingIsLost'
    <3>1. (\A log \in drakmon : LogKept(log)) => (\A log \in drakmon : LogKept(log)')
      BY <1>2, <1>3, <2>1 DEF LogKept
    <3> QED  BY <1>1, <1>2, <1>3, <2>1, <3>1 DEF NothingIsLost, LogKept
  <2>3. phase' = "sysret_remove" /\ step' = 8
    BY <1>1, <1>6 DEF WriteSysret
  <2>4. SysretIsKept'
    BY <1>2, <2>1, <2>3 DEF SysretIsKept
  <2> QED  BY <1>1, <2>1, <2>2, <2>3, <2>4, GoesWithin
<1>7. CASE RemoveSysret
  <2>1. /\ files' \in [Files -> {"absent", "partial", "whole"}]
        /\ \A f \in Files : files'[f] = IF f = "sysret.log" THEN "absent" ELSE files[f]
    BY <1>3, <1>7 DEF RemoveSysret, Become
  <2>2. files["sysret.log.gz"] = "whole"
    BY <1>7 DEF RemoveSysret, PostInv, SysretIsKept
  <2>3. SourcesAreWhole'
    BY <1>2, <2>1 DEF PostInv, SourcesAreWhole
  <2>4. NothingIsLost'
    <3>1. (\A log \in drakmon : LogKept(log)) => (\A log \in drakmon : LogKept(log)')
      BY <1>2, <1>3, <2>1, <2>2 DEF LogKept
    <3> QED  BY <1>1, <1>2, <1>3, <2>1, <3>1 DEF NothingIsLost, LogKept
  <2>5. Goes
    BY <1>1, <1>7, GoesNext DEF RemoveSysret
  <2>6. \A x \in Parts : x.step # 8
    BY DEF Parts
  <2> QED  BY <1>1, <2>1, <2>3, <2>4, <2>5, <2>6, GoesOn DEF PostInv
<1> QED
  BY <1>4, <1>5, <1>6, <1>7 DEF StartSysret, WriteSysret, RemoveSysret

LEMMA AppendKeepsPost ==
  ASSUME PostInv, AppendMetadata PROVE PostInv'
<1> USE DEF context
<1>1. /\ Plugins' = Plugins /\ step = 14 /\ Goes
      /\ UNCHANGED <<config, drakmon, run, before, hasTree, sections, report, faults, clean>>
  BY SamePlugins DEF AppendMetadata, PostInv, SysretIsKept, Goes
<1>2. /\ files' \in [Files -> {"absent", "partial", "whole"}]
      /\ \A f \in Files : files'[f] = files[f] \/ f = "metadata.json"
  BY DEF AppendMetadata, Become, PostInv
<1>3. /\ {"drakmon.log", "syscall.log.gz", "sysret.log.gz", "dumps.zip", "dumps"} \subseteq Files
      /\ Logs \subseteq Files /\ "metadata.json" \notin Logs /\ drakmon \subseteq Logs
  BY PostAssumption DEF Files, Logs, PostInv
<1>4. SourcesAreWhole' /\ NothingIsLost'
  BY <1>1, <1>2, <1>3 DEF PostInv, SourcesAreWhole, NothingIsLost
<1>5. \A x \in Parts : x.step # 14
  BY DEF Parts
<1> QED  BY <1>1, <1>2, <1>4, <1>5, GoesOn DEF PostInv


LEMMA StartKeepsPost ==
  ASSUME PostInv, Start PROVE PostInv'
<1> USE DEF Start, context
<1> DEFINE W == plugin.writes \cup plugin.empties
<1>1. /\ phase = "check" /\ phase' = "write" /\ step' = step /\ hasTree' = hasTree
      /\ config' = config /\ drakmon' = drakmon /\ run' = run /\ before' = before
      /\ sections' = sections /\ faults' = faults /\ clean' = clean
      /\ report' \subseteq report /\ (step # 13 => report' = report)
      /\ plugin.needsTree => hasTree
  BY PluginsAre DEF PostInv, PluginFacts
<1>2. PluginFacts /\ PartFacts
  BY PluginsAre DEF PostInv
<1>3. \A f \in Files : files'[f] = IF f \in W THEN "partial" ELSE files[f]
  BY DEF Become
<1>4. /\ step = 6 <=> "dumps.zip" \in W
      /\ step = 8 /\ config.gzipSyscalls <=> "syscall.log.gz" \in W
      /\ "drakmon.log" \notin W /\ "dumps" \notin W /\ "sysret.log.gz" \notin W
      /\ \A log \in Logs : log \in W <=> step = 1 /\ log \in drakmon
  BY <1>2 DEF PluginFacts, Logs
<1>5. /\ step = 1 => There("drakmon.log")
      /\ step = 6 => There("dumps") /\ ~There("dumps.zip")
      /\ step = 8 => ~There("syscall.log.gz") /\ ~There("sysret.log.gz")
  BY <1>2 DEF PluginFacts, Required, There
<1>6. files' \in [Files -> {"absent", "partial", "whole"}]
  BY DEF Become, PostInv
<1> HIDE DEF W
<1>7. {"drakmon.log", "syscall.log.gz", "sysret.log.gz", "dumps.zip", "dumps"} \cup Logs
         \subseteq Files
  BY DEF Files
<1>8. \A f \in Files : files[f] \in {"absent", "partial", "whole"}
  BY DEF PostInv
<1>9. SourcesAreWhole'
  BY <1>3, <1>4, <1>7 DEF PostInv, SourcesAreWhole
<1>10. NothingIsLost'
  <2>1. \/ files'["drakmon.log"] = "whole"
        \/ \A log \in drakmon : LogKept(log)'
    <3>1. CASE files["drakmon.log"] = "whole"
      BY <1>3, <1>4, <1>7, <3>1 DEF LogKept
    <3>2. CASE files["drakmon.log"] # "whole"
      <4>1. ~There("drakmon.log")
        BY <1>7, <1>8, <3>2 DEF PostInv, SourcesAreWhole, There
      <4>2. drakmon \subseteq Logs
        BY PostAssumption DEF PostInv
      <4>3. \A log \in drakmon : log \in Files /\ files'[log] = files[log]
        BY <1>3, <1>4, <1>5, <1>7, <4>1, <4>2
      <4>4. \A log \in drakmon : LogKept(log)
        BY <3>2 DEF PostInv, NothingIsLost, LogKept
      <4>5. /\ files["syscall.log.gz"] = "whole" => files'["syscall.log.gz"] = "whole"
            /\ files'["sysret.log.gz"] = files["sysret.log.gz"]
        BY <1>3, <1>4, <1>5, <1>7 DEF There
      <4> QED  BY <4>3, <4>4, <4>5 DEF LogKept
    <3> QED  BY <3>1, <3>2
  <2>2. files'["dumps.zip"] # "absent" => files'["dumps"] = "whole" \/ files'["dumps.zip"] = "whole"
    <3>1. CASE step = 6
      BY <1>3, <1>4, <1>5, <1>7, <1>8, <3>1 DEF PostInv, SourcesAreWhole, There
    <3>2. CASE step # 6
      BY <1>3, <1>4, <1>7, <3>2 DEF PostInv, NothingIsLost
    <3> QED  BY <3>1, <3>2
  <2> QED  BY <1>1, <2>1, <2>2 DEF NothingIsLost, LogKept
<1>11. WrittenIsWhole'
  BY <1>1 DEF WrittenIsWhole
<1>12. \A f \in Files : There(f) => There(f)'
  BY <1>3 DEF There
<1>13. /\ step > 3 => There("procmon.log") = There("procmon.log")'
       /\ There("procmon.log") => There("procmon.log")'
       /\ There("process_tree.json") => There("process_tree.json")'
  <2>1. "procmon.log" \in Logs /\ {"procmon.log", "process_tree.json"} \subseteq Files
    BY DEF Files, Logs
  <2>2. step > 3 => "procmon.log" \notin W
    BY <1>4, <2>1
  <2> QED  BY <1>3, <1>12, <2>1, <2>2 DEF There
<1>14. TreeIsFound'
  BY <1>1, <1>13 DEF PostInv, TreeIsFound
<1>15. PartsAreFound'
  <2> SUFFICES ASSUME NEW x \in Parts
               PROVE  /\ x.name \in before \cup report' \cup sections \/ step = x.step
                           => There(x.from)' /\ There("procmon.log")'
                              /\ (x.step > 3 => There("process_tree.json")')
                      /\ clean /\ step > x.step /\ x.name \in before => x.name \in sections
    BY <1>1 DEF PartsAreFound
  <2>1. x.from \in Files /\ x.step \in 3..12 /\ (x.step = 3 => x.from = "procmon.log")
    BY DEF Parts, Files, Logs
  <2>2. CASE x.name \in before \cup report \cup sections
    <3>1. There(x.from) /\ There("procmon.log") /\ (x.step > 3 => There("process_tree.json"))
      BY <2>2 DEF PostInv, PartsAreFound
    <3> QED  BY <1>1, <1>12, <1>13, <2>1, <3>1 DEF PostInv, PartsAreFound
  <2>3. CASE step = x.step
    <3>1. /\ plugin.needsTree <=> step # 3
          /\ plugin.requires = IF step = 3 THEN {"procmon.log"} ELSE {"process_tree.json", x.from}
      BY <1>2, <2>3 DEF PartFacts
    <3>2. There(x.from) /\ (x.step > 3 => hasTree)
      BY <1>1, <2>1, <2>3, <3>1 DEF Required, There
    <3>3. There("procmon.log") /\ (x.step > 3 => There("process_tree.json"))
      BY <2>1, <2>3, <3>2 DEF PostInv, TreeIsFound
    <3> QED  BY <1>1, <1>12, <1>13, <2>1, <2>3, <3>2, <3>3 DEF PostInv, PartsAreFound
  <2> QED  BY <1>1, <2>2, <2>3 DEF PostInv, PartsAreFound
<1>16. RerunKeepsSections'
  <2>1. step = 14 => report' = report
    BY <1>1
  <2> QED  BY <1>1, <2>1, SamePlugins, PluginsLength DEF PostInv, RerunKeepsSections
<1>17. SysretIsKept' /\ ReportStands'
  <2>1. files'["sysret.log.gz"] = files["sysret.log.gz"]
    BY <1>3, <1>4, <1>7
  <2> QED  BY <1>1, <1>5, <2>1 DEF PostInv, SysretIsKept, ReportStands, There
<1> QED
  BY <1>1, <1>6, <1>9, <1>10, <1>11, <1>14, <1>15, <1>16, <1>17 DEF PostInv

LEMMA WriteKeepsPost ==
  ASSUME PostInv, Write PROVE PostInv'
<1> USE DEF Write, context
<1>1. /\ phase = "write" /\ phase' = "remove" /\ step' = step
      /\ config' = config /\ drakmon' = drakmon /\ run' = run /\ before' = before
      /\ sections' = sections /\ faults' = faults /\ clean' = clean
      /\ report' = (IF step = 13 THEN sections ELSE report)
      /\ hasTree' = (hasTree \/ step = 3)
  BY PluginsAre DEF PostInv, PluginFacts
<1>2. PluginFacts /\ PartFacts
  BY PluginsAre DEF PostInv
<1>3. \A f \in Files : files'[f] = IF f \in plugin.writes THEN "whole"
                                   ELSE IF f \in plugin.removes \cap Directories THEN "partial"
                                   ELSE files[f]
  OBVIOUS
<1>4. files' \in [Files -> {"absent", "partial", "whole"}]
  BY DEF PostInv
<1>5. {"drakmon.log", "syscall.log.gz", "sysret.log.gz", "dumps.zip", "dumps",
       "process_tree.json"} \cup Logs
        \subseteq Files
  BY DEF Files
<1>6. \A f \in Files : f \in plugin.removes \cap Directories =>
        f = "dumps" /\ step = 6
  BY <1>2 DEF PluginFacts, Directories
<1>7. \A f \in Logs \cup {"drakmon.log", "syscall.log.gz", "sysret.log.gz", "dumps.zip",
                    "process_tree.json"} :
        f # "dumps"
  BY DEF Logs
<1>8. \A f \in Logs \cup {"drakmon.log", "syscall.log.gz", "sysret.log.gz", "dumps.zip",
                    "process_tree.json"} :
        files'[f] = IF f \in plugin.writes THEN "whole" ELSE files[f]
  BY <1>3, <1>5, <1>6, <1>7
<1>9. drakmon \subseteq Logs
  BY PostAssumption DEF PostInv
<1>10. files'["drakmon.log"] = files["drakmon.log"]
  BY <1>2, <1>8 DEF PluginFacts
<1>11. IF step = 6 THEN files'["dumps.zip"] = "whole"
       ELSE files'["dumps"] = files["dumps"] /\ files'["dumps.zip"] = files["dumps.zip"]
  <2>1. step # 6 => "dumps" \notin plugin.removes
    BY <1>2 DEF PluginFacts
  <2> QED  BY <1>2, <1>3, <1>5, <1>8, <2>1 DEF PluginFacts
<1>12. SourcesAreWhole'
  BY <1>10, <1>11 DEF PostInv, SourcesAreWhole
<1>13. NothingIsLost'
  <2>1. \A log \in drakmon : files[log] = "whole" => files'[log] = "whole"
    BY <1>8, <1>9
  <2>2. /\ files["syscall.log.gz"] = "whole" => files'["syscall.log.gz"] = "whole"
        /\ files["sysret.log.gz"] = "whole" => files'["sysret.log.gz"] = "whole"
    BY <1>8
  <2> QED  BY <1>1, <1>10, <1>11, <2>1, <2>2 DEF PostInv, NothingIsLost
<1>14. WrittenIsWhole'
  <2>1. step = 1 => \A log \in drakmon : files'[log] = "whole"
    BY <1>2, <1>8, <1>9 DEF PluginFacts
  <2>2. step = 8 /\ config.gzipSyscalls => files'["syscall.log.gz"] = "whole"
    BY <1>2, <1>8 DEF PluginFacts
  <2> QED  BY <1>1, <1>11, <2>1, <2>2 DEF WrittenIsWhole
<1>15. \A x \in Parts : /\ x.from \in Logs \/ x.from = "ttps.json"
                        /\ x.step \in 3..12 /\ (x.step = 3 => x.from = "procmon.log")
  BY DEF Parts, Logs
<1>16. \A f \in Logs \cup {"ttps.json", "process_tree.json"} : There(f) => There(f)'
  <2>1. "ttps.json" \in Files
    BY DEF Files
  <2> QED  BY <1>3, <1>5, <1>6, <1>8, <2>1 DEF There
<1>17. /\ step > 3 => There("procmon.log") = There("procmon.log")'
       /\ There("procmon.log") => There("procmon.log")'
       /\ There("process_tree.json") => There("process_tree.json")'
       /\ step = 3 => There("process_tree.json")' /\ There("procmon.log")
  <2>1. "procmon.log" \in Logs
    BY DEF Logs
  <2>2. step = 3 => There("process_tree.json")'
    BY <1>2, <1>8 DEF PluginFacts, There
  <2>3. step = 3 => There("procmon.log")
    <3>1. [step |-> 3, name |-> "processes", from |-> "procmon.log"] \in Parts
      BY DEF Parts
    <3> QED  BY <1>1, <3>1 DEF PostInv, PartsAreFound
  <2>4. step > 3 => There("procmon.log") = There("procmon.log")'
    BY <1>2, <1>8, <2>1 DEF PluginFacts, There
  <2> QED  BY <1>16, <2>1, <2>2, <2>3, <2>4
<1>18. TreeIsFound'
  <2>1. step' = 3 /\ phase' = "remove" => hasTree'
    BY <1>1
  <2>2. hasTree' => There("procmon.log")' /\ There("process_tree.json")'
    BY <1>1, <1>17 DEF PostInv, TreeIsFound
  <2>3. clean' /\ step' > 3 /\ There("procmon.log")' => hasTree'
    BY <1>1, <1>17 DEF PostInv, TreeIsFound
  <2> QED  BY <2>1, <2>2, <2>3 DEF TreeIsFound
<1>19. PartsAreFound'
  <2> SUFFICES ASSUME NEW x \in Parts
               PROVE  /\ x.name \in before \cup report \cup sections \/ step = x.step
                           => There(x.from)' /\ There("procmon.log")'
                              /\ (x.step > 3 => There("process_tree.json")')
                      /\ clean /\ step > x.step /\ x.name \in before => x.name \in sections
    BY <1>1 DEF PartsAreFound
  <2> QED  BY <1>1, <1>15, <1>16, <1>17 DEF PostInv, PartsAreFound
<1>20. RerunKeepsSections'
  <2>1. step = 14 => report' = report
    BY <1>1
  <2> QED  BY <1>1, <2>1, SamePlugins, PluginsLength DEF PostInv, RerunKeepsSections
<1>21. hasTree' \in BOOLEAN /\ report' \subseteq Sections
  BY <1>1 DEF PostInv
<1>22. SysretIsKept' /\ ReportStands'
  <2>1. files'["sysret.log.gz"] = files["sysret.log.gz"]
    BY <1>2, <1>8 DEF PluginFacts
  <2> QED  BY <1>1, <2>1 DEF PostInv, SysretIsKept, ReportStands, There
<1> QED
  BY <1>1, <1>4, <1>12, <1>13, <1>14, <1>18, <1>19, <1>20, <1>21, <1>22 DEF PostInv

LEMMA PostStep ==
  ASSUME PostInv, NextPost PROVE PostInv'
  BY StartRunKeepsPost, SkipKeepsPost, StartKeepsPost, WriteKeepsPost, CompleteKeepsPost,
     SysretKeepsPost, AppendKeepsPost, FaultKeepsPost DEF NextPost

LEMMA PostInvTypes == PostInv => PostTypeOK
<1> SUFFICES ASSUME PostInv PROVE PostTypeOK
  OBVIOUS
<1>1. /\ Plugins[3].section = {"processes"} /\ Plugins[6].section = {"memdumps"}
      /\ Plugins[9].section = {"http_requests"} /\ Plugins[10].section = {"modified_files"}
      /\ Plugins[11].section = {"connections"} /\ Plugins[12].section = {"ttps"}
  <2>1. /\ Plugins[3] = BuildProcessTree /\ Plugins[6] = ProcessDumps
        /\ Plugins[9] = InfoFrom("apimon.log", "http_requests")
        /\ Plugins[10] = InfoFrom("filetracer.log", "modified_files")
        /\ Plugins[11] = InfoFrom("socketmon.log", "connections")
        /\ Plugins[12] = InfoFrom("ttps.json", "ttps")
    BY DEF Plugins
  <2> QED  BY <2>1 DEF Idle, BuildProcessTree, ProcessDumps, InfoFrom
<1>2. \A s \in Sections : \E i \in DOMAIN Plugins : s \in Plugins[i].section
  BY <1>1, PluginsLength DEF Sections
<1>3. Sections \subseteq UNION {Plugins[i].section : i \in DOMAIN Plugins}
  BY <1>2
<1> QED  BY <1>3, PluginsLength DEF PostInv, PostTypeOK

----------------------------------------------------------------------------
(* The dumps                                                                *)

Passed(n) == {k \in 1..n : Passes(memdumps[k])}

(* The first loop has counted the copies of each region as they are.        *)
CopiesAreCounted ==
  /\ filtered_dumps = {[index |-> i, occurrence |-> CopiesUpTo(i)] : i \in Passed(entries)}
  /\ \A region \in Regions :
       occurrence_index[region] = Cardinality(Copies(region, entries))

(* The second loop begins when the first has ended, and what it has taken   *)
(* comes before what it has not.                                            *)
FirstArePacked ==
  /\ dumps_to_pack # {} => entries = Len(memdumps)
  /\ \A c \in dumps_to_pack, d \in filtered_dumps \ dumps_to_pack : ~Precedes(d, c)

DumpsInv ==
  /\ DumpsTypeOK /\ CopiesAreCounted /\ FirstArePacked /\ ArchiveIsTight
  /\ IsFiniteSet(BytesOf(PackedFiles))

LEMMA NoBytes == BytesOf({}) = {} /\ IsFiniteSet({}) /\ Cardinality({}) = 0 /\ BytesIn({}) = 0
  BY FS_EmptySet DEF BytesOf, BytesIn

LEMMA DumpsBegin == InitDumps => DumpsInv
<1> SUFFICES ASSUME InitDumps PROVE DumpsInv
  OBVIOUS
<1>1. /\ memdumps = <<>> /\ entries = 0 /\ occurrence_index = [region \in Regions |-> 0]
      /\ filtered_dumps = {} /\ current_size = 0 /\ dumps_to_pack = {}
  BY DEF InitDumps
<1>2. DumpsTypeOK
  BY <1>1, DumpsAssumption DEF DumpsTypeOK
<1>3. CopiesAreCounted
  <2>1. Passed(0) = {}
    BY DEF Passed
  <2>2. \A region \in Regions : Copies(region, 0) = {}
    BY DEF Copies
  <2> QED  BY <1>1, <2>1, <2>2, NoBytes DEF CopiesAreCounted
<1>4. FirstArePacked
  BY <1>1 DEF FirstArePacked
<1>5. PackedFiles = {}
  BY <1>1 DEF PackedFiles
<1>6. ArchiveIsTight /\ IsFiniteSet(BytesOf(PackedFiles))
  <2>1. current_size = BytesIn(PackedFiles) /\ current_size <= MaxTotalDumpsSize
    BY <1>1, <1>5, NoBytes, DumpsAssumption
  <2> QED  BY <1>5, <2>1, NoBytes DEF ArchiveIsTight
<1> QED  BY <1>2, <1>3, <1>4, <1>6 DEF DumpsInv

(* What the log holds does not change while it is read.                     *)
LEMMA CopiesStay ==
  ASSUME UNCHANGED memdumps
  PROVE  \A k : CopiesUpTo(k)' = CopiesUpTo(k)
<1>1. \A k : Copies(memdumps[k].region, k)' = Copies(memdumps[k].region, k)
  BY DEF Copies, Passes
<1> QED  BY <1>1 DEF CopiesUpTo

LEMMA CountedStay ==
  ASSUME CopiesAreCounted, UNCHANGED <<memdumps, entries, occurrence_index, filtered_dumps>>
  PROVE  CopiesAreCounted'
<1>1. /\ Passed(entries)' = Passed(entries)
      /\ \A region : Copies(region, entries)' = Copies(region, entries)
  BY DEF Passed, Copies, Passes
<1>2. \A k : CopiesUpTo(k)' = CopiesUpTo(k)
  BY CopiesStay
<1>3. filtered_dumps' = {[index |-> k, occurrence |-> CopiesUpTo(k)'] : k \in Passed(entries)'}
  BY <1>1, <1>2 DEF CopiesAreCounted
<1>4. \A region \in Regions : occurrence_index'[region] = Cardinality(Copies(region, entries))'
  BY <1>1 DEF CopiesAreCounted
<1> QED  BY <1>3, <1>4 DEF CopiesAreCounted

(* While the log is written, the plugin has done nothing.                   *)
LEMMA DumpKeeps ==
  ASSUME DumpsInv, NEW region \in Regions, NEW f \in DumpFiles, NEW exists \in BOOLEAN,
         Dump(region, f, exists)
  PROVE  DumpsInv'
<1> DEFINE D == [region : Regions, file : DumpFiles, exists : BOOLEAN]
           d == [region |-> region, file |-> f, exists |-> exists]
<1>1. /\ memdumps \in Seq(D) /\ Len(memdumps) <= MaxDumps
      /\ filtered_dumps \subseteq [index : 1..entries, occurrence : 1..entries]
      /\ dumps_to_pack \subseteq filtered_dumps
      /\ occurrence_index \in [Regions -> 0..entries]
  BY DEF DumpsInv, DumpsTypeOK
<1>2. /\ entries = 0 /\ Len(memdumps) < MaxDumps /\ memdumps' = Append(memdumps, d)
      /\ UNCHANGED <<entries, occurrence_index, filtered_dumps, current_size, dumps_to_pack>>
  BY DEF Dump, packing
<1>3. filtered_dumps = {} /\ dumps_to_pack = {}
  BY <1>1, <1>2
<1>4. d \in D
  OBVIOUS
<1>5. current_size = 0
  <2>1. PackedFiles = {}
    BY <1>3 DEF PackedFiles
  <2>2. current_size = BytesIn(PackedFiles)
    BY DEF DumpsInv, ArchiveIsTight
  <2> QED  BY <2>1, <2>2, NoBytes
<1>6. memdumps' \in Seq(D) /\ Len(memdumps') = Len(memdumps) + 1 /\ Len(memdumps) \in Nat
  <2> HIDE DEF D, d
  <2> QED  BY <1>1, <1>2, <1>4, SeqAppend
<1>7. DumpsTypeOK'
  BY <1>1, <1>2, <1>3, <1>5, <1>6, DumpsAssumption DEF DumpsTypeOK
<1>8. CopiesAreCounted'
  <2>1. Passed(0)' = {}
    BY DEF Passed
  <2>2. \A r \in Regions : Copies(r, 0)' = {}
    BY DEF Copies
  <2>3. \A r \in Regions : occurrence_index[r] = 0
    BY <1>1, <1>2
  <2> QED  BY <1>2, <1>3, <2>1, <2>2, <2>3, NoBytes DEF CopiesAreCounted
<1>9. FirstArePacked'
  BY <1>2, <1>3 DEF FirstArePacked
<1>10. PackedFiles' = {}
  BY <1>2, <1>3 DEF PackedFiles
<1>11. ArchiveIsTight' /\ IsFiniteSet(BytesOf(PackedFiles))'
  <2>1. BytesOf(PackedFiles)' = {} /\ BytesIn(PackedFiles)' = 0
    BY <1>10, NoBytes DEF BytesOf, BytesIn
  <2>2. current_size' = BytesIn(PackedFiles)' /\ current_size' <= MaxTotalDumpsSize
    BY <1>2, <1>3, <1>5, <2>1, DumpsAssumption
  <2> QED  BY <2>1, <2>2, NoBytes DEF ArchiveIsTight
<1> QED  BY <1>7, <1>8, <1>9, <1>11 DEF DumpsInv

(* One more dump of a region is one more copy.                              *)
LEMMA CopiesGrow ==
  ASSUME NEW n \in Nat, NEW region
  PROVE  /\ Cardinality(Copies(region, n)) \in Nat
         /\ Cardinality(Copies(region, n + 1)) =
              IF Passes(memdumps[n + 1]) /\ memdumps[n + 1].region = region
              THEN Cardinality(Copies(region, n)) + 1 ELSE Cardinality(Copies(region, n))
<1>1. IsFiniteSet(Copies(region, n)) /\ Cardinality(Copies(region, n)) \in Nat
  <2>1. IsFiniteSet(1..n)
    BY FS_Interval
  <2>2. Copies(region, n) \in SUBSET (1..n)
    BY DEF Copies
  <2> QED  BY <2>1, <2>2, FS_Subset, FS_CardinalityType
<1>2. CASE Passes(memdumps[n + 1]) /\ memdumps[n + 1].region = region
  <2>1. Copies(region, n + 1) = Copies(region, n) \cup {n + 1} /\ n + 1 \notin Copies(region, n)
    BY <1>2 DEF Copies
  <2>2. Cardinality(Copies(region, n + 1)) = Cardinality(Copies(region, n)) + 1
    BY <1>1, <2>1, FS_AddElement
  <2> QED  BY <1>1, <1>2, <2>2
<1>3. CASE ~(Passes(memdumps[n + 1]) /\ memdumps[n + 1].region = region)
  <2>1. Copies(region, n + 1) = Copies(region, n)
    BY <1>3 DEF Copies
  <2> QED  BY <1>1, <1>3, <2>1
<1> QED  BY <1>2, <1>3

(* While the archive does not change, it is as tight as it was.             *)
LEMMA TightStays ==
  ASSUME ArchiveIsTight, IsFiniteSet(BytesOf(PackedFiles)),
         UNCHANGED <<memdumps, current_size, dumps_to_pack>>
  PROVE  ArchiveIsTight' /\ IsFiniteSet(BytesOf(PackedFiles))'
<1>1. PackedFiles' = PackedFiles /\ \A dump : FileOf(dump)' = FileOf(dump)
  BY DEF PackedFiles, FileOf
<1>2. BytesOf(PackedFiles)' = BytesOf(PackedFiles) /\ BytesIn(PackedFiles)' = BytesIn(PackedFiles)
  BY <1>1 DEF BytesIn, BytesOf
<1>3. current_size' = BytesIn(PackedFiles)'
  BY <1>2 DEF ArchiveIsTight
<1>4. ASSUME NEW last \in dumps_to_pack
      PROVE  BytesIn(PackedFiles \ {FileOf(last)})' = BytesIn(PackedFiles \ {FileOf(last)})
  <2>1. PackedFiles' \ {FileOf(last)'} = PackedFiles \ {FileOf(last)}
    BY <1>1
  <2> QED  BY <2>1 DEF BytesIn, BytesOf
<1>5. CASE current_size <= MaxTotalDumpsSize
  BY <1>2, <1>3, <1>5 DEF ArchiveIsTight
<1>6. CASE \E last \in dumps_to_pack :
             /\ \A dump \in dumps_to_pack : ~Precedes(last, dump)
             /\ BytesIn(PackedFiles \ {FileOf(last)}) <= MaxTotalDumpsSize
  <2>1. PICK last \in dumps_to_pack :
             /\ \A dump \in dumps_to_pack : ~Precedes(last, dump)
             /\ BytesIn(PackedFiles \ {FileOf(last)}) <= MaxTotalDumpsSize
    BY <1>6
  <2>2. BytesIn(PackedFiles \ {FileOf(last)})' <= MaxTotalDumpsSize
    BY <1>4, <2>1
  <2>3. \A dump \in dumps_to_pack' : ~Precedes(last, dump)
    BY <2>1
  <2>4. last \in dumps_to_pack'
    OBVIOUS
  <2> QED  BY <1>2, <1>3, <2>2, <2>3, <2>4 DEF ArchiveIsTight
<1> QED  BY <1>5, <1>6 DEF ArchiveIsTight

LEMMA FilterKeeps ==
  ASSUME DumpsInv, FilterDump PROVE DumpsInv'
<1> DEFINE i == entries + 1
           r == memdumps[i].region
           o == occurrence_index[r] + 1
           x == [index |-> i, occurrence |-> o]
<1>1. /\ memdumps \in Seq([region : Regions, file : DumpFiles, exists : BOOLEAN])
      /\ Len(memdumps) <= MaxDumps /\ entries \in 0..Len(memdumps)
      /\ occurrence_index \in [Regions -> 0..entries]
      /\ filtered_dumps \subseteq [index : 1..entries, occurrence : 1..entries]
      /\ current_size \in Nat /\ dumps_to_pack \subseteq filtered_dumps
  BY DEF DumpsInv, DumpsTypeOK
<1>2. /\ i <= Len(memdumps) /\ entries' = i
      /\ IF Passes(memdumps[i])
         THEN /\ occurrence_index' = [occurrence_index EXCEPT ![r] = o]
              /\ filtered_dumps' = filtered_dumps \cup {x}
         ELSE UNCHANGED <<occurrence_index, filtered_dumps>>
      /\ UNCHANGED <<memdumps, current_size, dumps_to_pack>>
  BY DEF FilterDump
<1>3. entries \in Nat /\ Len(memdumps) \in Nat /\ i \in 1..Len(memdumps) /\ r \in Regions
  <2>1. Len(memdumps) \in Nat /\ entries \in Nat
    BY <1>1
  <2>2. i \in 1..Len(memdumps)
    BY <1>2, <2>1
  <2>3. memdumps[i] \in [region : Regions, file : DumpFiles, exists : BOOLEAN]
    <3> DEFINE D == [region : Regions, file : DumpFiles, exists : BOOLEAN]
    <3>1. memdumps \in Seq(D)
      BY <1>1
    <3> HIDE DEF D, i
    <3>2. memdumps[i] \in D
      BY <2>2, <3>1
    <3> QED  BY <3>2 DEF D
  <2> QED  BY <2>1, <2>2, <2>3
<1>4. dumps_to_pack = {}
  <2>1. entries # Len(memdumps)
    BY <1>1, <1>2, <1>3
  <2> QED  BY <2>1 DEF DumpsInv, FirstArePacked
<1>5. occurrence_index[r] \in 0..entries
  BY <1>1, <1>3
<1>6. DumpsTypeOK'
  <2>1. occurrence_index' \in [Regions -> 0..i]
    <3>1. o \in 0..i /\ occurrence_index \in [Regions -> 0..i]
      BY <1>1, <1>3, <1>5
    <3> HIDE DEF o, i
    <3> QED  BY <1>2, <1>3, <3>1
  <2>2. filtered_dumps' \subseteq [index : 1..i, occurrence : 1..i]
    <3>1. x \in [index : 1..i, occurrence : 1..i]
      BY <1>3, <1>5
    <3>2. [index : 1..entries, occurrence : 1..entries] \subseteq [index : 1..i, occurrence : 1..i]
      BY <1>3
    <3> HIDE DEF x
    <3> QED  BY <1>1, <1>2, <3>1, <3>2
  <2> QED  BY <1>1, <1>2, <1>3, <1>4, <2>1, <2>2 DEF DumpsTypeOK
<1>7. CopiesAreCounted'
  <2>1. ASSUME NEW region \in Regions
        PROVE  occurrence_index'[region] = Cardinality(Copies(region, i))
    <3>1. occurrence_index[region] = Cardinality(Copies(region, entries))
      BY DEF DumpsInv, CopiesAreCounted
    <3>2. Cardinality(Copies(region, i)) =
            IF Passes(memdumps[i]) /\ r = region
            THEN Cardinality(Copies(region, entries)) + 1 ELSE Cardinality(Copies(region, entries))
      BY <1>3, CopiesGrow
    <3> QED  BY <1>1, <1>2, <1>3, <3>1, <3>2
  <2>2. filtered_dumps' = {[index |-> k, occurrence |-> CopiesUpTo(k)] : k \in Passed(i)}
    <3>1. filtered_dumps = {[index |-> k, occurrence |-> CopiesUpTo(k)] : k \in Passed(entries)}
      BY DEF DumpsInv, CopiesAreCounted
    <3>2. CASE Passes(memdumps[i])
      <4>1. CopiesUpTo(i) = o
        <5>1. CopiesUpTo(i) = occurrence_index'[r]
          BY <1>3, <2>1 DEF CopiesUpTo
        <5> QED  BY <1>1, <1>2, <1>3, <3>2, <5>1
      <4>2. Passed(i) = Passed(entries) \cup {i}
        BY <1>3, <3>2 DEF Passed
      <4>3. filtered_dumps' = filtered_dumps \cup {x}
        BY <1>2, <3>2
      <4>4. x = [index |-> i, occurrence |-> CopiesUpTo(i)]
        BY <4>1
      <4> HIDE DEF i, x, o
      <4> QED  BY <3>1, <4>2, <4>3, <4>4
    <3>3. CASE ~Passes(memdumps[i])
      <4>1. Passed(i) = Passed(entries)
        BY <1>3, <3>3 DEF Passed
      <4> QED  BY <1>2, <3>1, <3>3, <4>1
    <3> QED  BY <3>2, <3>3
  <2>3. Passed(entries)' = Passed(i) /\ \A region : Copies(region, entries)' = Copies(region, i)
    BY <1>2 DEF Passed, Copies, Passes
  <2>4. \A k : CopiesUpTo(k)' = CopiesUpTo(k)
    BY <1>2, CopiesStay
  <2>5. filtered_dumps' = {[index |-> k, occurrence |-> CopiesUpTo(k)'] : k \in Passed(entries)'}
    BY <2>2, <2>3, <2>4
  <2>6. \A region \in Regions : occurrence_index'[region] = Cardinality(Copies(region, entries))'
    BY <2>1, <2>3
  <2> QED  BY <2>5, <2>6 DEF CopiesAreCounted
<1>8. FirstArePacked'
  BY <1>2, <1>4 DEF FirstArePacked
<1>9. ArchiveIsTight' /\ IsFiniteSet(BytesOf(PackedFiles))'
  BY <1>2, TightStays DEF DumpsInv
<1> QED  BY <1>6, <1>7, <1>8, <1>9 DEF DumpsInv

(* One more file has the bytes of one more file.                            *)
LEMMA BytesGrow ==
  ASSUME NEW fs, IsFiniteSet(BytesOf(fs)), NEW f, f[2] \in Nat, f \notin fs
  PROVE  /\ IsFiniteSet(BytesOf(fs \cup {f}))
         /\ Cardinality(BytesOf(fs \cup {f})) = Cardinality(BytesOf(fs)) + f[2]
<1> DEFINE B == BytesOf(fs)
           F == {f} \X (1..f[2])
<1>1. BytesOf(fs \cup {f}) = B \cup F
  BY DEF BytesOf
<1>2. B \cap F = {}
  BY DEF BytesOf
<1>3. IsFiniteSet(F) /\ Cardinality(F) = f[2]
  <2>1. IsFiniteSet({f}) /\ Cardinality({f}) = 1
    BY FS_Singleton
  <2>2. IsFiniteSet(1..f[2]) /\ Cardinality(1..f[2]) = f[2]
    <3>1. 1 \in Int /\ f[2] \in Int /\ (IF 1 > f[2] THEN 0 ELSE f[2] - 1 + 1) = f[2]
      OBVIOUS
    <3> QED  BY <3>1, FS_Interval
  <2>3. IsFiniteSet(F) /\ Cardinality(F) = Cardinality({f}) * Cardinality(1..f[2])
    BY <2>1, <2>2, FS_Product
  <2> QED  BY <2>1, <2>2, <2>3
<1> HIDE DEF B, F
<1>4. /\ IsFiniteSet(B \cup F)
      /\ Cardinality(B \cup F) = Cardinality(B) + Cardinality(F) - Cardinality({})
  BY <1>2, <1>3, FS_Union DEF B
<1>5. Cardinality(B) \in Nat
  BY FS_CardinalityType DEF B
<1>6. Cardinality(B \cup F) = Cardinality(B) + f[2]
  BY <1>3, <1>4, <1>5, NoBytes
<1> QED  BY <1>1, <1>4, <1>6 DEF B

LEMMA PackKeeps ==
  ASSUME DumpsInv, NEW dump \in filtered_dumps, PackDump(dump) PROVE DumpsInv'
<1> DEFINE rest == filtered_dumps \ dumps_to_pack
           f == FileOf(dump)
           F == PackedFiles
<1>1. /\ entries = Len(memdumps) /\ current_size <= MaxTotalDumpsSize
      /\ dump \in rest /\ \A c \in rest : ~Precedes(c, dump)
      /\ current_size' = current_size + Counted(dump)
      /\ dumps_to_pack' = dumps_to_pack \cup {dump}
      /\ UNCHANGED <<memdumps, entries, occurrence_index, filtered_dumps>>
  BY DEF PackDump
<1>2. DumpsTypeOK /\ CopiesAreCounted /\ FirstArePacked /\ ArchiveIsTight
      /\ IsFiniteSet(BytesOf(F))
  BY DEF DumpsInv
<1>3. /\ dump.index \in 1..Len(memdumps) /\ Passes(memdumps[dump.index])
      /\ memdumps[dump.index] \in [region : Regions, file : DumpFiles, exists : BOOLEAN]
  <2>1. PICK k \in Passed(entries) : dump = [index |-> k, occurrence |-> CopiesUpTo(k)]
    BY <1>2 DEF CopiesAreCounted
  <2>2. dump.index = k /\ k \in 1..Len(memdumps) /\ Passes(memdumps[k])
    BY <1>1, <2>1 DEF Passed
  <2>3. memdumps[k] \in [region : Regions, file : DumpFiles, exists : BOOLEAN]
    <3> DEFINE D == [region : Regions, file : DumpFiles, exists : BOOLEAN]
    <3>1. memdumps \in Seq(D)
      BY <1>2 DEF DumpsTypeOK
    <3> HIDE DEF D
    <3>2. memdumps[k] \in D
      BY <2>2, <3>1
    <3> QED  BY <3>2 DEF D
  <2> QED  BY <2>2, <2>3
<1>4. f[2] \in Nat
  <2>1. memdumps[dump.index].file \in DumpFiles
    BY <1>3
  <2> QED  BY <2>1, DumpsAssumption DEF FileOf
<1>5. PackedFiles' = F \cup {f}
  BY <1>1 DEF PackedFiles, FileOf
<1>6. Counted(dump) = IF f \in F THEN 0 ELSE f[2]
  BY DEF Counted, PackedFiles
<1> HIDE DEF f, F, rest
<1>7. current_size = Cardinality(BytesOf(F)) /\ current_size \in Nat
  BY <1>2 DEF ArchiveIsTight, DumpsTypeOK, F, BytesIn
<1>8. /\ IsFiniteSet(BytesOf(F \cup {f}))
      /\ Cardinality(BytesOf(F \cup {f})) = current_size + Counted(dump)
      /\ Counted(dump) \in Nat
  <2>1. CASE f \in F
    <3>1. F \cup {f} = F
      BY <2>1
    <3>2. Counted(dump) = 0
      BY <1>6, <2>1
    <3>3. IsFiniteSet(BytesOf(F \cup {f})) /\ Cardinality(BytesOf(F \cup {f})) = current_size
      BY <1>2, <1>7, <3>1
    <3> QED  BY <1>7, <3>2, <3>3, DumpsAssumption
  <2>2. CASE f \notin F
    BY <1>2, <1>4, <1>6, <1>7, <2>2, BytesGrow
  <2> QED  BY <2>1, <2>2
<1>9. current_size' = BytesIn(F \cup {f}) /\ current_size' \in Nat
  BY <1>1, <1>7, <1>8 DEF BytesIn
<1>10. ArchiveIsTight' /\ IsFiniteSet(BytesOf(PackedFiles))'
  <2>1. BytesOf(PackedFiles)' = BytesOf(F \cup {f}) /\ BytesIn(PackedFiles)' = BytesIn(F \cup {f})
    BY <1>5 DEF BytesOf, BytesIn
  <2>2. \/ current_size' <= MaxTotalDumpsSize
        \/ BytesIn((F \cup {f}) \ {f}) <= MaxTotalDumpsSize
    <3>1. CASE f \in F
      BY <1>1, <1>6, <1>7, <3>1
    <3>2. CASE f \notin F
      <4>1. (F \cup {f}) \ {f} = F
        BY <3>2
      <4> QED  BY <1>1, <1>7, <4>1 DEF BytesIn
    <3> QED  BY <3>1, <3>2
  <2>3. \A c \in dumps_to_pack \cup {dump} : ~Precedes(dump, c)
    <3>1. \A c \in dumps_to_pack : ~Precedes(dump, c)
      BY <1>1, <1>2 DEF FirstArePacked, rest
    <3>2. ~Precedes(dump, dump)
      BY <1>1 DEF rest
    <3> QED  BY <3>1, <3>2
  <2>4. FileOf(dump)' = f
    BY <1>1 DEF FileOf, f
  <2>5. \/ current_size' <= MaxTotalDumpsSize
        \/ \E last \in dumps_to_pack' :
             /\ \A c \in dumps_to_pack' : ~Precedes(last, c)
             /\ BytesIn(PackedFiles' \ {FileOf(last)'}) <= MaxTotalDumpsSize
    BY <1>1, <1>5, <2>2, <2>3, <2>4
  <2> QED  BY <1>8, <1>9, <2>1, <2>5 DEF ArchiveIsTight, BytesIn, BytesOf, Precedes
<1>11. DumpsTypeOK'
  BY <1>1, <1>2, <1>9 DEF DumpsTypeOK
<1>12. CopiesAreCounted'
  BY <1>1, <1>2, CountedStay
<1>13. FirstArePacked'
  <2>1. ASSUME NEW c \in dumps_to_pack \cup {dump},
               NEW d \in filtered_dumps \ (dumps_to_pack \cup {dump})
        PROVE  ~Precedes(d, c)
    <3>1. d \in rest
      BY DEF rest
    <3>2. c \in dumps_to_pack => ~Precedes(d, c)
      BY <1>2, <3>1 DEF FirstArePacked, rest
    <3> QED  BY <1>1, <3>1, <3>2
  <2> QED  BY <1>1, <2>1 DEF FirstArePacked, Precedes
<1> QED  BY <1>10, <1>11, <1>12, <1>13 DEF DumpsInv

LEMMA DumpsStep ==
  ASSUME DumpsInv, NextDumps PROVE DumpsInv'
  BY DumpKeeps, FilterKeeps, PackKeeps DEF NextDumps

LEMMA DumpsStay ==
  ASSUME DumpsInv, UNCHANGED dumpVars PROVE DumpsInv'
<1> USE DEF dumpVars, packing
<1>1. DumpsTypeOK'
  BY DEF DumpsInv, DumpsTypeOK
<1>2. CopiesAreCounted'
  BY CountedStay DEF DumpsInv
<1>3. FirstArePacked'
  BY DEF DumpsInv, FirstArePacked
<1>4. ArchiveIsTight' /\ IsFiniteSet(BytesOf(PackedFiles))'
  BY TightStays DEF DumpsInv
<1> QED  BY <1>1, <1>2, <1>3, <1>4 DEF DumpsInv

(* What is packed was taken in the order of the copies.                     *)
LEMMA EarlyCopies == DumpsInv => EarlyCopiesAreKept
<1> SUFFICES ASSUME DumpsInv, NEW i \in DOMAIN memdumps, NEW k \in DOMAIN memdumps,
                    Packed(i), Passes(memdumps[k]), CopiesUpTo(k) < CopiesUpTo(i)
             PROVE  Packed(k)
  BY DEF EarlyCopiesAreKept
<1> DEFINE e == [index |-> k, occurrence |-> CopiesUpTo(k)]
<1>1. PICK c \in dumps_to_pack : c.index = i
  BY DEF Packed
<1>2. DumpsTypeOK /\ CopiesAreCounted /\ FirstArePacked
  BY DEF DumpsInv
<1>3. c.occurrence = CopiesUpTo(i)
  <2>1. PICK n \in Passed(entries) : c = [index |-> n, occurrence |-> CopiesUpTo(n)]
    BY <1>2 DEF DumpsTypeOK, CopiesAreCounted
  <2> QED  BY <1>1, <2>1
<1>4. e \in filtered_dumps
  <2>1. k \in 1..entries
    BY <1>1, <1>2 DEF FirstArePacked, DumpsTypeOK
  <2> QED  BY <1>2, <2>1 DEF CopiesAreCounted, Passed
<1>5. Precedes(e, c)
  BY <1>3 DEF Precedes
<1>6. e \in dumps_to_pack
  BY <1>1, <1>2, <1>4, <1>5 DEF FirstArePacked
<1> QED  BY <1>6 DEF Packed

----------------------------------------------------------------------------
(* The stream                                                               *)

StreamInv == IInv /\ length \in Lengths /\ got \in Seq(Nat)

LEMMA StreamBegins == InitStream => StreamInv
  BY InitAligned DEF InitStream, InitFile, StreamInv

LEMMA StreamStep ==
  ASSUME StreamInv, NextStream PROVE StreamInv'
<1>1. IInv' /\ [NextFile]_file
  BY StepIsOneOfTheFile DEF StreamInv
<1>2. length' = length
  BY <1>1 DEF file, NextFile, Read, Deliver, EndOfFile, Seek
<1>3. got' \in Seq(Nat)
  <2>1. ASSUME NEW n \in 1..MaxRead, Deliver(n) PROVE got' \in Seq(Nat)
    <3>1. Bytes(current, n) \in Seq(Nat)
      BY BytesLen, StreamAssumption DEF StreamInv, IInv
    <3> QED  BY <2>1, <3>1 DEF Deliver, StreamInv
  <2>2. <<>> \in Seq(Nat)
    OBVIOUS
  <2> QED  BY <1>1, <2>1, <2>2 DEF StreamInv, NextFile, Read, EndOfFile, Seek, file
<1> QED  BY <1>1, <1>2, <1>3 DEF StreamInv

LEMMA StreamInvTypes == StreamInv => StreamTypeOK
<1> SUFFICES ASSUME StreamInv PROVE StreamTypeOK
  OBVIOUS
<1>1. PICK n \in Nat : Aligned(n)
  BY DEF StreamInv, IInv
<1>2. current - tell \in Nat
  BY <1>1 DEF StreamInv, IInv, Aligned
<1>3. buffer \in Seq(Nat) /\ Len(buffer) = n
  BY <1>1, <1>2, BytesLen DEF Aligned
<1> QED  BY <1>1, <1>2, <1>3 DEF StreamInv, IInv, Aligned, StreamTypeOK

----------------------------------------------------------------------------
(* All parts                                                                *)

ResultInv == LogInv /\ StreamInv /\ DumpsInv /\ HandlesInv /\ PostInv

LEMMA ResultBegins == Init => ResultInv
  BY LogBegins, StreamBegins, DumpsBegin, HandlesBegin, PostBegins DEF Init, ResultInv

LEMMA LogStays ==
  ASSUME LogInv, UNCHANGED logVars PROVE LogInv'
<1> USE DEF logVars, treeVars, guestVars, tree
<1>1. TreeTypeOK'
  BY DEF LogInv, TreeInv, TreeTypeOK
<1>2. TreeIsBounded' /\ TreeIsConsistent'
  BY DEF LogInv, TreeInv, TreeIsBounded, TreeIsConsistent
<1>3. LogTypeOK'
  BY DEF LogInv, LogTypeOK, indexVars
<1>4. LifeInv'
  BY DEF LogInv, LifeInv, OwnersAreLast, TreeFollowsGuest, LivesAreKnown, LivesAreApart,
         LinesAreCovered, Covers
<1>5. /\ IndexIsLast' /\ FoundIsRight' /\ LinesAreAttributed' /\ BlocksEnd'
      /\ BlocksHoldTheLines'
  BY DEF LogInv, indexVars, IndexIsLast, FoundIsRight, LinesAreAttributed, BlocksEnd,
         BlocksHoldTheLines, HasLine, HasByteOf, LineStart
<1> QED  BY <1>1, <1>2, <1>3, <1>4, <1>5 DEF LogInv, TreeInv

LEMMA StreamStays ==
  ASSUME StreamInv, UNCHANGED streamVars PROVE StreamInv'
  BY DEF streamVars, file, stream, StreamInv, IInv, Aligned

LEMMA HandlesStay ==
  ASSUME HandlesInv, UNCHANGED handleVars PROVE HandlesInv'
  BY DEF handleVars, HandlesInv, HandlesTypeOK, ObjectsAreBuilt, OpenIsSeen, ParentIsSeen,
         RequestsAreSeen, UsesAreResolved

LEMMA PostStays ==
  ASSUME PostInv, UNCHANGED postVars PROVE PostInv'
<1> USE DEF postVars, context
<1>1. Len(Plugins') = Len(Plugins)
  BY SamePlugins
<1>2. SourcesAreWhole' /\ WrittenIsWhole' /\ NothingIsLost' /\ TreeIsFound' /\ PartsAreFound'
  BY DEF PostInv, SourcesAreWhole, WrittenIsWhole, NothingIsLost, TreeIsFound, PartsAreFound, There
<1>3. RerunKeepsSections'
  BY <1>1 DEF PostInv, RerunKeepsSections
<1>4. SysretIsKept' /\ ReportStands'
  BY DEF PostInv, SysretIsKept, ReportStands, There
<1> QED  BY <1>2, <1>3, <1>4 DEF PostInv

LEMMA ResultStep ==
  ASSUME ResultInv, [Next]_vars PROVE ResultInv'
<1>1. LogInv'
  BY LogStep, LogStays DEF ResultInv, Next, vars
<1>2. StreamInv'
  BY StreamStep, StreamStays DEF ResultInv, Next, vars
<1>3. DumpsInv'
  BY DumpsStep, DumpsStay DEF ResultInv, Next, vars
<1>4. HandlesInv'
  BY HandlesStep, HandlesStay DEF ResultInv, Next, vars
<1>5. PostInv'
  BY PostStep, PostStays DEF ResultInv, Next, vars
<1> QED  BY <1>1, <1>2, <1>3, <1>4, <1>5 DEF ResultInv

LEMMA ResultHolds == Spec => []ResultInv
  BY ResultBegins, ResultStep, PTL DEF Spec

(* Whatever was logged, lost, read, run again or killed, the data of the    *)
(* result files keep their types: process.py, web/storage.py,               *)
(* process_dumps.py, get_http_info.py, postprocess.py.                      *)
THEOREM Types == Spec => []ResultTypeOK
<1>1. ResultInv => ResultTypeOK
  BY HandlesInvResolves, StreamInvTypes, PostInvTypes
     DEF ResultInv, ResultTypeOK, LogInv, TreeInv, DumpsInv, HandlesInv
<1> QED  BY <1>1, ResultHolds, PTL

(* For any number of processes, PIDs that are given again and lines that    *)
(* are lost, the tree that ProcessTree builds (parsing/process_tree.py) has *)
(* the processes once each, no one its own ancestor, the lives of a PID     *)
(* one after the other, and every child with its parent.                    *)
THEOREM TreeConsistent == Spec => []TreeIsConsistent
<1>1. ResultInv => TreeIsConsistent
  BY DEF ResultInv, LogInv, TreeInv
<1> QED  BY <1>1, ResultHolds, PTL

(* For any number of processes that are given the PIDs of others, and       *)
(* whatever lines are lost, index_log_file (postprocessing/indexer.py) puts *)
(* every line down to the process it is about, if the line that reports the *)
(* creation of that process was read.                                       *)
THEOREM LinesAttributed == Spec => []LinesAreAttributed
<1>1. ResultInv => LinesAreAttributed
  BY DEF ResultInv, LogInv
<1> QED  BY <1>1, ResultHolds, PTL

(* However long the log and however the lines of the processes alternate,   *)
(* the blocks that index_log_file writes for a process follow one another,  *)
(* hold each of its lines and have no byte of a line of another.            *)
THEOREM BlocksHold == Spec => []BlocksHoldTheLines
<1>1. ResultInv => BlocksHoldTheLines
  BY DEF ResultInv, LogInv
<1> QED  BY <1>1, ResultHolds, PTL

(* Whatever the log, the index, the filter, the offset and the number of    *)
(* bytes asked for, process_logs and scattered_read_file (web/api.py) return*)
(* the bytes of the lines of the process that cutting the filtered log at   *)
(* the offsets would, though the index gives them as blocks.                *)
THEOREM SlicesExact == Spec => []SlicesAreExact
<1>1. ResultInv => SlicesAreExact
  BY ReadsAreExact DEF ResultInv
<1> QED  BY <1>1, ResultHolds, PTL

(* For any chunk that has room for a line, however the chunks fall across   *)
(* the lines, LogViewer.jsx shows every line of the filtered log of the     *)
(* process, whole, once and in order, when it has been scrolled to the end. *)
THEOREM ViewerShows == Spec => []ViewerShowsTheLog
<1>1. ResultInv => ViewerShowsTheLog
  BY ViewerIsExact DEF ResultInv
<1> QED  BY <1>1, ResultHolds, PTL

(* Whatever is dumped and in whatever order, the archive of process_dumps   *)
(* (plugins/process_dumps.py) has no later copy of a region where it lacks  *)
(* an earlier copy of any region.                                           *)
THEOREM EarlyCopiesKept == Spec => []EarlyCopiesAreKept
<1>1. ResultInv => EarlyCopiesAreKept
  BY EarlyCopies DEF ResultInv
<1> QED  BY <1>1, ResultHolds, PTL

(* For any dumps, sharing files or not, what process_dumps counts is what   *)
(* the files it packs have; where that exceeds the maximum, it does so by   *)
(* one file, without which the others are within.                           *)
THEOREM ArchiveTight == Spec => []ArchiveIsTight
<1>1. ResultInv => ArchiveIsTight
  BY DEF ResultInv, DumpsInv
<1> QED  BY <1>1, ResultHolds, PTL

(* However Windows gives handles again, get_http_info and                   *)
(* get_modified_files_info put a line down to the object it was about, if   *)
(* they saw it opened.                                                      *)
THEOREM HandlesResolved == Spec => []HandlesAreResolved
<1>1. ResultInv => HandlesAreResolved
  BY HandlesInvResolves DEF ResultInv
<1> QED  BY <1>1, ResultHolds, PTL

(* Wherever a plugin raises or the process is killed, and however often     *)
(* "drakrun postprocess" is run, what split_drakmon_log, gzip_syscalls and  *)
(* process_dumps replace is whole until what replaces it is.                *)
THEOREM NothingLost == Spec => []NothingIsLost
<1>1. ResultInv => NothingIsLost
  BY DEF ResultInv, PostInv
<1> QED  BY <1>1, ResultHolds, PTL

(* A run of the plugins over what earlier ones left, in which none fails,   *)
(* writes a report that has what the last one had, but for the dumps.       *)
THEOREM RerunKeeps == Spec => []RerunKeepsSections
<1>1. ResultInv => RerunKeepsSections
  BY DEF ResultInv, PostInv
<1> QED  BY <1>1, ResultHolds, PTL
================================================================================
