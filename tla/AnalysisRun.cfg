\* Two Ctrl-C at the command line, the job timeout in a worker.
CONSTANT MaxStrikes = 2
SPECIFICATION FairSpec
INVARIANTS TypeOK ToolsAreStopped VerdictIsRight
PROPERTY RunEnds
CHECK_DEADLOCK FALSE
