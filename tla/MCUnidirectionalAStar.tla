------------------------- MODULE MCUnidirectionalAStar -------------------------
(* Small road networks for TLC. *)
EXTENDS UnidirectionalAStar, MCRoadNetwork, TLC

\* Two ways from 1 to 3 and on to 4 and 5.  A node may be blocked, links closed or one-way, a
\* turn dear.
Diamonds ==
  {Network(<<0, 3, 6, 9, 12>>, <<<<1, 2>>, <<2, 3>>, <<1, 3>>, <<3, 4>>, <<4, 5>>>>,
           <<1, 1, 2, 1, 1>>, <<0, 0, 0, 0, 0>>, dear, closed, blocked, {}) :
     dear \in {{}, {<<3, 7>>}}, closed \in {{}, {3, 6}, {2, 4, 5}}, blocked \in {{}, {2}}}

\* The same with canopy over the way by 2.
Shaded ==
  {Network(<<0, 3, 6, 9>>, <<<<1, 2>>, <<2, 3>>, <<1, 3>>, <<3, 4>>>>,
           <<2, 1, 2, 1>>, <<c, c, 0, 0>>, {}, {}, {}, {}) : c \in {4, 9}}

\* The way by 2 costs 54 and the other 60, but after link 1 it is estimated to cost 66.
Detour == {gr \in Shaded : gr.canopy[1] = 4}

\* Ways from 1 to 3 by links 1 or 5-2, and 3, or by 6.  After links 1 (or 2) and 3, link 4
\* may not be entered.
Restricting ==
  {Network(<<0, 3, 6, 9, 3>>,
           <<<<1, 2>>, <<5, 2>>, <<2, 3>>, <<3, 4>>, <<1, 5>>, <<1, 3>>>>,
           <<1, 1, 1, 1, 1, l>>, <<0, 0, 0, 0, 0, 0>>, {}, {4, 6, 8, 10}, {}, r) :
     l \in {2, 3}, r \in {{<<1, 5, 7>>}, {<<1, 5, 7>>, <<3, 5, 7>>}}}

\* A loop of one-way links, 2, 3 and 4, each with a branch that may not be entered after
\* it and the link before; entered by links 8 and 1.
Loop ==
  {Network(<<0, 3, 6, 9, 9, 9, 9, 0>>,
           <<<<1, 2>>, <<2, 3>>, <<3, 4>>, <<4, 2>>, <<3, 5>>, <<4, 6>>, <<2, 7>>, <<8, 1>>>>,
           <<1, 1, 1, 2, 1, 1, 2, 1>>, <<0, 0, 0, 0, 0, 0, 0, 0>>, {},
           {2, 4, 6, 8, 10, 12, 14, 16}, {},
           {<<7, 3, 9>>, <<1, 3, 9>>, <<3, 5, 11>>, <<5, 7, 13>>, <<15, 1, 13>>})}

SearchGraphs == Diamonds \cup Shaded \cup Restricting \cup Loop
====
