---------------------------- MODULE MCCpuUsages -----------------------------
(* Instances of CpuUsages for TLC.                                         *)
EXTENDS CpuUsages, TLC

CONSTANTS system, p1, p2

MCPids == {system, p1, p2}
MCProtected == {system}
MCSymmetry == Permutations({p1, p2})
MCOffsets == {0, -1}
=============================================================================
