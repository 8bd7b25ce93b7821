------------------------------ MODULE MCTileCache ------------------------------
(* Small instances of TileCache for TLC. *)
EXTENDS TileCache, TLC

\* The kinds of cache that the factory makes, over a tile directory, and those that count
\* right over an extract.
SoundConfigs ==
  {"flat", "simple", "lru_soft", "lru_hard"} \X {"files"} \cup {"flat", "simple"} \X {"extract"}

\* An LRU cache with hard control over an extract.
HardExtract == {<<"lru_hard", "extract">>}

Symmetry == Permutations(Threads)
====
