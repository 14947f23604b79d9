SPECIFICATION Spec
CONSTANTS
  Vm1 = Vm1
  Vms = {Vm1, Vm2}
  Backends = {"zfs", "qcow2", "lvm"}
  MaxVersion = 5
  Used = Used
  Garbage = Garbage
  Absent = Absent
  Failing <- SafeFailing
INVARIANTS TypeOK RunningGuestIsSound ImageIsWhole
PROPERTY ImplementsBaseImage
