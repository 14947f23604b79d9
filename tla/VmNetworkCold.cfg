\* Two workers started on a host without chains; nothing fails by itself.
CONSTANTS
  Vms = {v1, v2}
  Modes = {"natdns"}
  NoInfo = NoInfo
  Warm = FALSE
  Faulty = FALSE
SPECIFICATION FairSpec
PROPERTY AnalysisGivesBack
