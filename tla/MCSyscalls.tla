---------------------------- MODULE MCSyscalls ----------------------------
(* Instances of Syscalls for TLC: five host descriptors (a device's pipe,   *)
(* a pipe and a file of the program's), two heap addresses, and room for    *)
(* three virtual files.                                                     *)
EXTENDS Syscalls, TLC

CONSTANTS o1, o2

MCObjs == {o1, o2}
(* The last call's report is written by every call and read by none.        *)
View == <<host, vmap, heap, rings, ub, failed>>
Symmetry == Permutations(MCObjs)
=============================================================================
