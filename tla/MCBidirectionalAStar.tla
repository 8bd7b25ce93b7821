-------------------------- MODULE MCBidirectionalAStar --------------------------
(* Small road networks for TLC, longer than those of the other search. *)
EXTENDS BidirectionalAStar, MCRoadNetwork, TLC

\* Two ways from 2 to 4, by 3 or by 6, the latter perhaps longer and the turn off the former
\* perhaps dear, links closed, one-way or blocked; dead ends at 1 and 7.
Lens(l, dear, closed, blocked) ==
  Network(<<0, 2, 4, 6, 8, 4, 10>>,
          <<<<1, 2>>, <<2, 3>>, <<3, 4>>, <<4, 5>>, <<2, 6>>, <<6, 4>>, <<5, 7>>>>,
          <<1, 1, 1, 1, l, 1, 1>>, <<0, 0, 0, 0, 0, 0, 0>>, dear, closed, blocked, {})

Lenses ==
  {Lens(l, dear, {}, {}) : l \in {1, 2}, dear \in {{}, {<<5, 7>>}, {<<3, 5>>}}} \cup
  {Lens(2, {}, closed, blocked) : closed \in {{}, {3}, {3, 9}}, blocked \in {{}, {3}}}

\* Ways from 2 to 3 by link 2 or 6-7, then 3, and on by 4 to 5 and 6 or by 8 to 8.  After
\* links 2 and 3, link 8 may not be entered; after 7 and 3, perhaps 4 not.
Crossing(r) ==
  Network(<<0, 2, 4, 6, 8, 10, 4, 6>>,
          <<<<1, 2>>, <<2, 3>>, <<3, 4>>, <<4, 5>>, <<5, 6>>, <<2, 7>>, <<7, 3>>, <<4, 8>>>>,
          <<1, 1, 1, 1, 1, 1, 1, 1>>, <<0, 0, 0, 0, 0, 0, 0, 0>>, {}, {}, {}, r)

Crossings == {Crossing({<<3, 5, 15>>, <<13, 5, 7>>})}

\* From 7 to 4, the shaded way by 2, ahead, and back to 3 and on to 4 costs 192, the one by
\* 5 and 6 costs 200.
Switchback ==
  {Network(<<0, 4, 0, 20, 8, 12, -2, 22, 26>>,
           <<<<1, 2>>, <<2, 3>>, <<3, 4>>, <<1, 5>>, <<5, 6>>, <<6, 4>>, <<7, 1>>, <<4, 8>>, <<8, 9>>>>,
           <<2, 2, 11, 4, 2, 4, 1, 1, 2>>, <<5, 5, 4, 0, 5, 0, 0, 0, 1>>, {}, {}, {}, {})}

\* Ways of equal cost to either end of link 5, which is long.
LongEdge ==
  {Network(<<0, 12, 12, 24, 24, -3>>,
           <<<<1, 2>>, <<1, 3>>, <<2, 4>>, <<3, 5>>, <<4, 5>>, <<6, 1>>>>,
           <<4, 4, 4, 4, 4, 1>>, <<5, 5, 5, 5, 5, 0>>, {}, {}, {}, {})}

BidirGraphs == Lenses \cup Crossings \cup {Crossing({<<3, 5, 7>>})}
====
