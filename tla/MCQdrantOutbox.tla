--------------------------- MODULE MCQdrantOutbox ---------------------------
(* Instances of QdrantOutbox for TLC.                                      *)
EXTENDS QdrantOutbox, TLC

CONSTANTS a1, a2, v1, v2

MCArtwork == {a1, a2}
MCVersion == {v1, v2}
MCSymmetry == Permutations(MCArtwork) \union Permutations(MCVersion)

=============================================================================
