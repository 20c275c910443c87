---------------------------- MODULE MCDiskQueue ----------------------------
(* Instances of DiskQueue for TLC.                                         *)
EXTENDS DiskQueue, TLC

Symmetry == Permutations(Call)
=============================================================================
