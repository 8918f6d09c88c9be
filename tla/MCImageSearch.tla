--------------------------- MODULE MCImageSearch ---------------------------
(* Instances of ImageSearch for TLC.                                       *)
EXTENDS ImageSearch, TLC

CONSTANTS r1, r2, r3

MCThree == {r1, r2, r3}
MCSymmetry == Permutations(MCThree)

=============================================================================
