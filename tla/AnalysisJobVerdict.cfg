CONSTANTS
  Jobs = {j1}
  Workers = {w1}
  NoJob = NoJob
  Configs <- AllConfigs
  Faulty = TRUE
SPECIFICATION Spec
INVARIANT EndedJobHasVerdict
CHECK_DEADLOCK FALSE
