---------------------------- MODULE MCVmNetwork ----------------------------
(* Instances of VmNetwork for TLC.                                          *)
EXTENDS VmNetwork, TLC

VmSymmetry == Permutations(Vms)
============================================================================
