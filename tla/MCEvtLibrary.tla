----------------------------- MODULE MCEvtLibrary -----------------------------
(* Instances of EvtLibrary for TLC.                                        *)
EXTENDS EvtLibrary, TLC

CONSTANTS t1, t2

MCThreads == {t1, t2}
MCThreadSymmetry == Permutations(MCThreads)
=============================================================================
