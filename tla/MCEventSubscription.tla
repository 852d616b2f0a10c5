------------------------- MODULE MCEventSubscription -------------------------
(* Instances of EventSubscription for TLC.                                 *)
EXTENDS EventSubscription, TLC

CONSTANTS r1, r2

MCOneReader == {r1}
MCTwoReaders == {r1, r2}
MCReaderSymmetry == Permutations(MCTwoReaders)
=============================================================================
