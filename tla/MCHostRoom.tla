------------------------------ MODULE MCHostRoom ------------------------------
(* HostRoom on a small room, for TLC.                                        *)
EXTENDS HostRoom, TLC
CONSTANTS p1, p2, t1
Symmetry == Permutations({p1, p2})
==============================================================================
