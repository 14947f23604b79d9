CONSTANTS
  Jobs = {j1, j2}
  Workers = {w1, w2}
  NoJob = NoJob
  Configs <- AllConfigs
  Faulty = TRUE
SPECIFICATION FairSpec
INVARIANTS TypeOK FinishedIsServed AnswerIsTrue ResultsAreKept
PROPERTIES ImplementsPromise QueuedJobEnds
CHECK_DEADLOCK FALSE
