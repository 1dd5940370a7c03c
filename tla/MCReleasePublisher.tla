------------------------- MODULE MCReleasePublisher -------------------------
(* The files of one SHA, over what an older SHA's run may have left, and   *)
(* fewer faults for a pair of runs than for one.                           *)
EXTENDS ReleasePublisher

CONSTANTS p1, p2, bundle, manifest, installer, oldBundle

MCMaxFaults == <<4, 2>>
BothFiles == [p \in Publishers |-> <<bundle, manifest, installer>>]
=============================================================================
