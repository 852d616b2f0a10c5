------------------------ MODULE MCPerformanceCounter ------------------------
(* Instances of PerformanceCounter for TLC.                                *)
EXTENDS PerformanceCounter, TLC

CONSTANTS t1, t2

MCThreads == {t1, t2}
MCSymmetry == Permutations(MCThreads)
=============================================================================
