------------------------------- MODULE LogIndex -------------------------------
(***************************************************************************)
(* The log file of another plugin, the index that tells which parts of     *)
(* it belong to a process (analyzer/postprocessing/indexer.py), the API    *)
(* that reads the log through the index (web/api.py) and the viewer that   *)
(* loads it in chunks (web/frontend/src/LogViewer.jsx).  All plugins of    *)
(* drakvuf number their events with one counter.                           *)
(***************************************************************************)
EXTENDS ProcessTree, FiniteSetsExt

CONSTANTS
  Methods,
  MaxLines,    (* lines of the log             *)
  LineWidth,   (* bytes of a line              *)
  ChunkSize    (* bytes the viewer asks for    *)

ASSUME LogAssumption ==
  /\ LineWidth \in Nat \ {0} /\ ChunkSize \in Nat
  /\ ChunkSize >= LineWidth

VARIABLES
  lines,      (* the log; `of' is a ghost, the process it is about        *)
  found,      (* index_log_file: processes, by PID; 0: none yet           *)
  index,      (* the blocks of each process                               *)
  attributed  (* ghost: the process found for each line, 0 if none        *)

indexVars == <<found, index, attributed>>

InitLog ==
  /\ InitTree
  /\ lines = <<>>
  /\ found = [pid \in Pids |-> 0]
  /\ index = [p \in 1..MaxProcesses |-> <<>>]
  /\ attributed = <<>>

LogLine(pid, method) ==
  /\ Len(lines) < MaxLines
  /\ owner[pid] # 0
  /\ Event
  /\ lines' = Append(lines, [pid |-> pid, evtid |-> uid', method |-> method, of |-> owner[pid]])
  /\ UNCHANGED <<guest, owner, lost, tree, indexVars>>

----------------------------------------------------------------------------
(* index_log_file                                                           *)

(* The process found for the PID before is taken again until it has ended.  *)
Ended(p, evtid) == processes[p].to # 0 /\ processes[p].to < evtid

(* Mutant of Lookup: it is taken again whenever it was found.               *)
LookupOnce(pid, evtid) ==
  IF found[pid] = 0 THEN GetProcessForEvtid(pid, evtid) ELSE found[pid]

Lookup(pid, evtid) ==
  IF found[pid] = 0 \/ Ended(found[pid], evtid) THEN GetProcessForEvtid(pid, evtid)
  ELSE found[pid]

LineStart(i) == LineWidth * (i - 1)

(* A line that starts where the last block of bytes ends, with the same     *)
(* method, makes it longer.                                                 *)
Extend(blocks, i) ==
  IF /\ blocks # <<>>
     /\ Last(blocks).end = LineStart(i)
     /\ Last(blocks).method = lines[i].method
  THEN [blocks EXCEPT ![Len(blocks)].end = LineStart(i + 1)]
  ELSE Append(blocks, [start |-> LineStart(i), end |-> LineStart(i + 1),
                       method |-> lines[i].method])

(* One turn of the loop; a line for which no process is found is skipped.   *)
IndexLine ==
  LET i == Len(attributed) + 1
      p == Lookup(lines[i].pid, lines[i].evtid)
  IN
  /\ i <= Len(lines)
  /\ attributed' = Append(attributed, p)
  /\ IF p = 0 THEN UNCHANGED <<found, index>>
     ELSE /\ found' = [found EXCEPT ![lines[i].pid] = p]
          /\ index' = [index EXCEPT ![p] = Extend(@, i)]
  /\ UNCHANGED <<treeVars, lines>>

(* The log is complete when it is indexed.                                  *)
NextLog ==
  /\ ~failed
  /\ \/ attributed = <<>> /\ NextTree /\ UNCHANGED <<lines, indexVars>>
     \/ attributed = <<>> /\ \E pid \in Pids, method \in Methods : LogLine(pid, method)
     \/ IndexLine

----------------------------------------------------------------------------
(* process_logs: no filter lets every method pass.                          *)
Passing(filter, method) == filter = {} \/ method \in filter

Span(start, n) == [i \in 1..n |-> start + i - 1]

(* Mutant of BlockSkip: every block is entered at the offset asked for.     *)
BlockSkipAll(skip, scanned) == skip

(* Where a block of n bytes is entered when `scanned' bytes precede it.     *)
BlockSkip(skip, scanned) == IF skip > scanned THEN skip - scanned ELSE 0

(* One turn of scattered_read_file, with what the former ones have read.    *)
ReadBlock(read, b, skip, length) ==
  LET n     == b.end - b.start
      drop  == BlockSkip(skip, read.scanned)
      chunk == Min({length - Len(read.out), n - drop})
  IN [scanned |-> read.scanned + n,
      out     |-> IF skip < read.scanned + n
                  THEN read.out \o Span(b.start + drop, chunk) ELSE read.out]

ReadBlocks(blocks, filter, skip, length) ==
  LET read[k \in 0..Len(blocks)] ==
        IF k = 0 THEN [scanned |-> 0, out |-> <<>>]
        ELSE IF Passing(filter, blocks[k].method)
             THEN ReadBlock(read[k - 1], blocks[k], skip, length)
             ELSE read[k - 1]
  IN read

(* `length' bytes of the blocks that pass, from the offset skip.            *)
ScatteredRead(blocks, filter, skip, length) ==
  ReadBlocks(blocks, filter, skip, length)[Len(blocks)].out

(* Range: bytes=first-last.  Werkzeug parses it into a stop that lies beyond*)
(* the range, and process_logs adds one to the length once more.            *)
RangeLength(first, last) == (last + 1) - first + 1

(* _logLoader: the part of a response that ends with a line is shown, and   *)
(* the next request starts behind it.                                       *)
EndsLine(byte) == \E i \in DOMAIN lines : byte + 1 = LineStart(i + 1)

WholeLines(data) == Max({0} \cup {i \in DOMAIN data : EndsLine(data[i])})

(* Mutant of NextStart: the next request starts behind the response.        *)
AfterData(start, data) == start + Len(data)

NextStart(start, data) == start + WholeLines(data)

Load(blocks, filter, view) ==
  LET data == ScatteredRead(blocks, filter, view.start,
                            RangeLength(view.start, view.start + ChunkSize - 1))
  IN [shown |-> view.shown \o SubSeq(data, 1, WholeLines(data)),
      start |-> NextStart(view.start, data)]

Views(blocks, filter) ==
  LET view[k \in 0..Len(lines)] ==
        IF k = 0 THEN [shown |-> <<>>, start |-> 0] ELSE Load(blocks, filter, view[k - 1])
  IN view

(* What is shown once the viewer has been scrolled down to the end.         *)
Viewed(blocks, filter) == Views(blocks, filter)[Len(lines)].shown

----------------------------------------------------------------------------
(* Properties                                                               *)

LogTypeOK ==
  /\ lines \in Seq([pid : Pids, evtid : 1..MaxEvents, method : Methods, of : 1..Len(guest)])
  /\ found \in [Pids -> 0..Len(processes)]
  /\ index \in [1..MaxProcesses -> Seq([start : Nat, end : Nat, method : Methods])]
  /\ attributed \in Seq(0..Len(processes))

(* A line is put down to the process that was behind its PID at the time,   *)
(* through any reuse of PIDs and whatever other lines were lost, if only the*)
(* line that reports the creation of that process was read.                 *)
LinesAreAttributed ==
  \A i \in DOMAIN attributed :
    guest[lines[i].of].logged =>
      attributed[i] # 0 /\ processes[attributed[i]].born = lines[i].of

(* The lines put down to process p with a method the filter names, and where*)
(* their bytes are in the log.                                              *)
LinesOf(p, filter) ==
  {i \in DOMAIN lines : attributed[i] = p /\ Passing(filter, lines[i].method)}

FilteredLog(p, filter) == UNION {LineStart(i)..(LineStart(i + 1) - 1) : i \in LinesOf(p, filter)}

Before(log, byte) == Cardinality({b \in log : b < byte})

(* The i-th byte of a slice is the one that skip + i - 1 of the log precede.*)
IsSlice(data, log, skip, length) ==
  /\ Len(data) = IF skip < Cardinality(log) THEN Min({length, Cardinality(log) - skip}) ELSE 0
  /\ \A i \in DOMAIN data : data[i] \in log /\ Before(log, data[i]) = skip + i - 1

Indexed == Len(attributed) = Len(lines)

(* What the API returns of a process's log, by blocks, skips and lengths, is*)
(* what cutting the filtered log at the offsets would return.               *)
SlicesAreExact ==
  Indexed =>
    \A p \in DOMAIN processes, filter \in SUBSET Methods :
      LET log == FilteredLog(p, filter) IN
      \A skip \in 0..Cardinality(log) + 1, length \in 0..Cardinality(log) + 1 :
        IsSlice(ScatteredRead(index[p], filter, skip, length), log, skip, length)

(* However the chunks fall across the lines, the viewer shows every line of *)
(* the filtered log, whole, once and in order.                              *)
ViewerShowsTheLog ==
  Indexed =>
    \A p \in DOMAIN processes, filter \in SUBSET Methods :
      LET log == FilteredLog(p, filter) IN
      IsSlice(Viewed(index[p], filter), log, 0, Cardinality(log))
============================================================================
