----------------------------- MODULE MCRoadNetwork -----------------------------
(* How the small road networks of the runs are written down. *)
EXTENDS Integers, Sequences

\* A network of links <<a, b>> between the nodes 1 .. Len(x): link i is the edges 2i - 1,
\* from a to b, and 2i.  The turns in dear cost 25.
Network(x, links, len, canopy, dear, closed, blocked, restrictions) ==
  LET E == 1 .. 2 * Len(links)
      Link(e) == (e + 1) \div 2
      From(e) == IF e % 2 = 1 THEN links[Link(e)][1] ELSE links[Link(e)][2]
      To(e) == IF e % 2 = 1 THEN links[Link(e)][2] ELSE links[Link(e)][1]
  IN  [head |-> [e \in E |-> To(e)], tail |-> [e \in E |-> From(e)],
       opp |-> [e \in E |-> IF e % 2 = 1 THEN e + 1 ELSE e - 1],
       len |-> [e \in E |-> len[Link(e)]],
       canopy |-> [e \in E |-> canopy[Link(e)]],
       penalty |-> [e \in E |-> [f \in E |-> IF <<e, f>> \in dear THEN 25 ELSE 0]],
       x |-> x,
       out |-> [m \in DOMAIN x |->
                  SelectSeq([i \in 1 .. 2 * Len(links) |-> i], LAMBDA e : From(e) = m)],
       access |-> E \ closed, blocked |-> blocked, restrictions |-> restrictions]
====
