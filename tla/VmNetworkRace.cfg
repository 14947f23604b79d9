\* Two workers started on a host without chains: both set them up.
CONSTANTS
  Vms = {v1, v2}
  Modes = {"isolated"}
  NoInfo = NoInfo
  Warm = FALSE
  Faulty = FALSE
SYMMETRY VmSymmetry
SPECIFICATION Spec
INVARIANT RunningVmIsFiltered
