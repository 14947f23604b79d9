\* Two workers, the chains set up, every failure and kill allowed.
CONSTANTS
  Vms = {v1, v2}
  Modes = {"isolated", "natdns"}
  NoInfo = NoInfo
  Warm = TRUE
  Faulty = TRUE
SYMMETRY VmSymmetry
SPECIFICATION Spec
INVARIANTS
  TypeOK
  RunningVmIsConfigured
  RunningVmIsFiltered
  NoRuleOutlivesBridge
  DownMeansForgotten
PROPERTY NothingAddedBehindDrop
