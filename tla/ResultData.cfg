\* Each part within its own bounds; the lines of a log are two bytes wide and
\* the viewer's chunks as small, so that every chunk is cut within a line.
CONSTANTS
  Pids = {p1, p2, p3}
  MaxRunning = 2
  MaxProcesses = 3
  MaxEvents = 4
  MaxLost = 1
  Methods = {m1, m2}
  MaxLines = 3
  LineWidth = 2
  ChunkSize = 2
  Lengths = {0, 3, 5}
  ReadaheadSize = 2
  MaxSeek = 6
  MaxRead = 3
  Regions = {r1, r2, sys}
  SystemRegions = {sys}
  DumpFiles <- MCDumpFiles
  MinSingleDumpSize = 1
  MaxSingleDumpSize = 4
  MaxTotalDumpsSize = 3
  MaxDumps = 3
  Programs = {a, b}
  Handles = {h1, h2}
  MaxObjects = 4
  MaxUses = 1
  LogSets <- MCLogSets
  Configs <- MCConfigs
  MaxRuns = 2
  MaxFaults = 2
SPECIFICATION Spec
SYMMETRY ResultSymmetry
INVARIANTS
  ResultTypeOK
  TreeIsConsistent
  LinesAreAttributed
  SlicesAreExact
  ViewerShowsTheLog
  EarlyCopiesAreKept
  ArchiveIsTight
  HandlesAreResolved
  NothingIsLost
  RerunKeepsSections
PROPERTY ImplementsPlainFile
CHECK_DEADLOCK FALSE
