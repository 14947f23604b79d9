----------------------------- MODULE ProcessDumps -----------------------------
(***************************************************************************)
(* Which memory dumps are kept                                             *)
(* (analyzer/postprocessing/plugins/process_dumps.py).  drakvuf lists the  *)
(* dumps in memdump.log, in the order of their index; dumps with the same  *)
(* contents share a file.  A file is a pair of a name and a size.  The     *)
(* processes of the dumps are in the tree: without one the plugin fails,   *)
(* a case that Postprocessing has.                                         *)
(***************************************************************************)
EXTENDS Integers, Sequences, FiniteSets

CONSTANTS
  Regions,              (* pairs of a process and an address               *)
  SystemRegions,        (* those of the System process, whose PID is 4     *)
  DumpFiles,
  MinSingleDumpSize, MaxSingleDumpSize, MaxTotalDumpsSize,
  MaxDumps

ASSUME DumpsAssumption ==
  /\ MaxDumps \in Nat /\ MaxSingleDumpSize \in Nat /\ MaxTotalDumpsSize \in Nat
  /\ \A file \in DumpFiles : file[2] \in Nat

VARIABLES
  memdumps,          (* memdump.log; `exists': dump and metadata are there *)
  entries,           (* the entries the first loop has seen                *)
  occurrence_index,  (* how many dumps of each region passed it            *)
  filtered_dumps,    (* those that passed                                  *)
  current_size,      (* what the second loop has counted                   *)
  dumps_to_pack      (* and put into the archive                           *)

packing  == <<entries, occurrence_index, filtered_dumps, current_size, dumps_to_pack>>
dumpVars == <<memdumps, packing>>

FileOf(dump) == memdumps[dump.index].file

InitDumps ==
  /\ memdumps = <<>>
  /\ entries = 0
  /\ occurrence_index = [region \in Regions |-> 0]
  /\ filtered_dumps = {}
  /\ current_size = 0
  /\ dumps_to_pack = {}

(* The log is complete when the plugin runs.                                *)
Dump(region, file, exists) ==
  /\ entries = 0 /\ Len(memdumps) < MaxDumps
  /\ memdumps' = Append(memdumps, [region |-> region, file |-> file, exists |-> exists])
  /\ UNCHANGED packing

----------------------------------------------------------------------------
(* The first loop: dumps that are missing, of the System process, too small *)
(* or too large are left out; of the others it is counted how many the      *)
(* region had.                                                              *)
Passes(dump) ==
  /\ dump.exists
  /\ dump.region \notin SystemRegions
  /\ MinSingleDumpSize <= dump.file[2] /\ dump.file[2] <= MaxSingleDumpSize

FilterDump ==
  LET i == entries + 1
      region == memdumps[i].region
      occurrence == occurrence_index[region] + 1
  IN
  /\ i <= Len(memdumps)
  /\ entries' = i
  /\ IF Passes(memdumps[i])
     THEN /\ occurrence_index' = [occurrence_index EXCEPT ![region] = occurrence]
          /\ filtered_dumps' = filtered_dumps \cup {[index |-> i, occurrence |-> occurrence]}
     ELSE UNCHANGED <<occurrence_index, filtered_dumps>>
  /\ UNCHANGED <<memdumps, current_size, dumps_to_pack>>

----------------------------------------------------------------------------
(* The second loop                                                          *)

(* Mutant of Precedes: in the order of the log.                             *)
PrecedesInLog(c, d) == c.index < d.index

(* sorted: the first dump of every region, then every second one, and so on.*)
Precedes(c, d) ==
  \/ c.occurrence < d.occurrence
  \/ c.occurrence = d.occurrence /\ c.index < d.index

(* Mutant of Counted: the size of a file is counted with every dump.        *)
CountedAlways(dump) == FileOf(dump)[2]

(* The size of a file is counted once.                                      *)
Counted(dump) ==
  IF \E c \in dumps_to_pack : FileOf(c) = FileOf(dump) THEN 0 ELSE FileOf(dump)[2]

(* It stops at the first dump that finds the size exceeded.                 *)
PackDump(dump) ==
  LET rest == filtered_dumps \ dumps_to_pack IN
  /\ entries = Len(memdumps)
  /\ current_size <= MaxTotalDumpsSize
  /\ dump \in rest /\ \A c \in rest : ~Precedes(c, dump)
  /\ current_size' = current_size + Counted(dump)
  /\ dumps_to_pack' = dumps_to_pack \cup {dump}
  /\ UNCHANGED <<memdumps, entries, occurrence_index, filtered_dumps>>

NextDumps ==
  \/ \E region \in Regions, file \in DumpFiles, exists \in BOOLEAN : Dump(region, file, exists)
  \/ FilterDump
  \/ \E dump \in filtered_dumps : PackDump(dump)

----------------------------------------------------------------------------
(* Properties                                                               *)

DumpsTypeOK ==
  /\ memdumps \in Seq([region : Regions, file : DumpFiles, exists : BOOLEAN])
  /\ Len(memdumps) <= MaxDumps
  /\ entries \in 0..Len(memdumps)
  /\ occurrence_index \in [Regions -> 0..entries]
  /\ filtered_dumps \subseteq [index : 1..entries, occurrence : 1..entries]
  /\ current_size \in Nat
  /\ dumps_to_pack \subseteq filtered_dumps

(* The how manyth dump of its region that can be packed the i-th is.        *)
Copies(region, n) == {k \in 1..n : Passes(memdumps[k]) /\ memdumps[k].region = region}

CopiesUpTo(i) == Cardinality(Copies(memdumps[i].region, i))

Packed(i) == \E dump \in dumps_to_pack : dump.index = i

(* However often a region is dumped, it takes no space from the earlier     *)
(* copies of others: "Regions with the most copies have been removed."      *)
EarlyCopiesAreKept ==
  \A i, k \in DOMAIN memdumps :
    Packed(i) /\ Passes(memdumps[k]) /\ CopiesUpTo(k) < CopiesUpTo(i) => Packed(k)

PackedFiles == {FileOf(dump) : dump \in dumps_to_pack}

BytesOf(files) == UNION {{file} \X (1..file[2]) : file \in files}

BytesIn(files) == Cardinality(BytesOf(files))

(* What was counted is the size of the files in the archive, each once.     *)
(* MaxTotalDumpsSize is no maximum of it, though it is called one           *)
(* ("Maximum total size of collected, uncompressed dumps",                  *)
(* lib/config.py:73): the size is compared before a dump is added to it.    *)
(* But where it is exceeded, the dump that comes last in the order of the   *)
(* copies did it alone: without its file the others are within.             *)
ArchiveIsTight ==
  /\ current_size = BytesIn(PackedFiles)
  /\ \/ current_size <= MaxTotalDumpsSize
     \/ \E last \in dumps_to_pack :
          /\ \A dump \in dumps_to_pack : ~Precedes(last, dump)
          /\ BytesIn(PackedFiles \ {FileOf(last)}) <= MaxTotalDumpsSize
============================================================================
