----------------------------- MODULE MCTileRefCount -----------------------------
(* Small instances of TileRefCount for TLC. *)
EXTENDS TileRefCount, TLC

Symmetry == Permutations(Threads)
====
