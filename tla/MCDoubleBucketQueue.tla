--------------------------- MODULE MCDoubleBucketQueue ---------------------------
(* Small instances of DoubleBucketQueue for TLC. *)
EXTENDS DoubleBucketQueue, TLC

CONSTANT MaxCost  \* bound on sort costs

MCCosts    == 0 .. MaxCost
MCMinCosts == {0, 3}
MCSymmetry == Permutations(Labels)
====
