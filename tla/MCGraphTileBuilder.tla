--------------------------- MODULE MCGraphTileBuilder ---------------------------
(* Small instances of GraphTileBuilder for TLC. *)
EXTENDS GraphTileBuilder

\* Two twins and a third edge with an edge info behind theirs.
MCOwner == "e1" :> 1 @@ "e2" :> 1 @@ "e3" :> 2
MCEdges == {"e1", "e2", "e3"}
MCWidth == "a" :> 6 @@ "b" :> 7
MCValues == {"a", "b"}
====
