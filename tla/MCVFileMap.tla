---------------------------- MODULE MCVFileMap ----------------------------
(* Instances of VFileMap for TLC: arrays of 2 that grow to 4 (or 8), host   *)
(* descriptors below 10 and virtual ones from 10.                           *)
EXTENDS VFileMap, TLC

CONSTANTS f1, f2

MCFiles == {f1, f2}
MCHostFds == {3, 5}
Symmetry == Permutations(MCFiles)
=============================================================================
