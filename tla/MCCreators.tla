----------------------------- MODULE MCCreators -----------------------------
(* Instances of Creators for TLC.                                          *)
EXTENDS Creators, TLC

CONSTANTS j1, j2

MCJob == {j1, j2}
JobSymmetry == Permutations(MCJob)

=============================================================================
