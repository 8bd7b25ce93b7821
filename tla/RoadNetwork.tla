------------------------------ MODULE RoadNetwork ------------------------------
(***************************************************************************)
(* What the route searches of thor search and what they promise: road      *)
(* networks as GraphReader shows them, locations correlated to them by     *)
(* loki, the cost of edges (src/src/sif/pedestriancost.cc) and, as the     *)
(* reference, the cheapest route.                                          *)
(*                                                                         *)
(* Edges are divided into Parts, locations are at nodes or where parts     *)
(* meet.  Nodes are on a line.  There is one level of the hierarchy:       *)
(* pedestrian costing never stops expanding one.  Restrictions have one    *)
(* via edge and hold at all times.  Costs are integers: ten per unit of    *)
(* length, less one for each step of canopy.                               *)
(***************************************************************************)
EXTENDS Integers, Sequences, FiniteSets, FiniteSetsExt

CONSTANTS
  Graphs,       \* the road networks that are searched
  Parts,        \* of an edge
  BucketSize,   \* UnitSize()
  CostFactor,   \* AStarCostFactor()
  Unreachable   \* the cost of what cannot be reached; dearer routes are not asked for

Distance(a, b) == IF a < b THEN b - a ELSE a - b

\* A road network: directed edges with their opposing ones, the length of a part of it, the
\* tenths that canopy takes off its cost, the penalty of a turn; the edges of every node
\* in their order and its place; what pedestrians may use; the restricted triples.
IsGraph(gr) ==
  LET E == DOMAIN gr.head
      N == DOMAIN gr.x IN
    /\ IsFiniteSet(E) /\ IsFiniteSet(N)
    /\ gr.head \in [E -> N] /\ gr.tail \in [E -> N]
    /\ gr.opp \in [E -> E]
    /\ 0 \notin E   \* kInvalidGraphId
    /\ \A e \in E : /\ gr.opp[e] # e /\ gr.opp[gr.opp[e]] = e
                    /\ gr.tail[gr.opp[e]] = gr.head[e]
                    /\ gr.head[gr.opp[e]] = gr.tail[e]
                    /\ gr.tail[e] # gr.head[e]   \* loops are split into edges
    /\ gr.len \in [E -> Nat \ {0}]
    /\ gr.canopy \in [E -> Nat]
    /\ gr.penalty \in [E -> [E -> Nat]]
    /\ gr.x \in [N -> Int]
    /\ \A m \in N : gr.x[m] % Parts = 0
    /\ \A e \in E : Distance(gr.x[gr.head[e]], gr.x[gr.tail[e]]) <= Parts * gr.len[e]
    /\ gr.out \in [N -> Seq(E)]
    /\ \A m \in N : {gr.out[m][i] : i \in 1 .. Len(gr.out[m])} = {e \in E : gr.tail[e] = m}
    /\ gr.access \subseteq E
    /\ gr.blocked \subseteq N
    /\ gr.restrictions \subseteq E \X E \X E
    /\ \A r \in gr.restrictions : r[1] # r[2]

ASSUME SearchAssumption ==
  /\ Parts \in Nat \ {0}
  /\ \A gr \in Graphs : IsGraph(gr)
  /\ BucketSize \in Nat \ {0}
  /\ CostFactor \in Nat
  /\ Unreachable \in Nat

----------------------------------------------------------------------------
\* Locations.  A location at a node is a candidate on every edge that enters or leaves it
\* (correlate_node), one on an edge is on the edge and its twin (correlate_edge).
AtNode(gr, m) ==
  {[edge |-> e, pos |-> 0] : e \in {f \in gr.access : gr.tail[f] = m}} \cup
  {[edge |-> e, pos |-> Parts] : e \in {f \in gr.access : gr.head[f] = m}}

OnEdge(gr, e, p) ==
  {[edge |-> e, pos |-> p]} \cup
  {[edge |-> f, pos |-> Parts - p] : f \in {gr.opp[e]} \cap gr.access}

Locations(gr) ==
  ({AtNode(gr, m) : m \in DOMAIN gr.x} \cup
   {OnEdge(gr, e, p) : e \in gr.access, p \in 1 .. Parts - 1}) \ {{}}

\* The place of a location: that of any of its candidates.
Place(gr, loc) ==
  LET c == CHOOSE c \in loc : TRUE IN
    ((Parts - c.pos) * gr.x[gr.tail[c.edge]] + c.pos * gr.x[gr.head[c.edge]]) \div Parts

----------------------------------------------------------------------------
\* Costing.

\* EdgeCost for a part of the edge: canopy takes at most nine tenths off.
PartCost(gr, e) ==
  gr.len[e] * (10 - (IF gr.canopy[e] < 9 THEN gr.canopy[e] ELSE 9))

\* astarheuristic_.Get(distance)
Get(distance) == CostFactor * distance

\* The heuristic never exceeds what is left to pay.
NeverOverestimates(gr) ==
  \A e \in DOMAIN gr.head : Get(Parts * gr.len[e]) <= Parts * PartCost(gr, e)

----------------------------------------------------------------------------
\* The reference: the cheapest route that turns back nowhere, from any candidate of a
\* location to any of another.  As labels of a bucket are popped in any order, a
\* search may take BucketSize - 1 too much per edge, so the reference adds it.
Slack == BucketSize - 1

Follows(gr, e, f) ==
  /\ gr.tail[f] = gr.head[e]
  /\ gr.head[e] \notin gr.blocked
  /\ f \in gr.access
  /\ f # gr.opp[e]

\* The ends of the cheapest routes so far, one for each edge; with one more edge.
OneMore(gr, ends) ==
  {[edge |-> f,
    cost |-> Min({r.cost : r \in {x \in ends : x.edge = f}} \cup
                 {r.cost + gr.penalty[r.edge][f] + Parts * PartCost(gr, f) + Slack :
                    r \in {x \in ends : Follows(gr, x.edge, f)}})] : f \in DOMAIN gr.head}

RouteEnds(gr, from) ==
  LET E == DOMAIN gr.head
      Start(e) == {PartCost(gr, e) * (Parts - c.pos) + Slack : c \in {o \in from : o.edge = e}}
      ends[i \in 0 .. Cardinality(E)] ==
        IF i = 0
        THEN {[edge |-> e, cost |-> Min({Unreachable} \cup Start(e))] : e \in E}
        ELSE OneMore(gr, ends[i - 1])
  IN  ends[Cardinality(E)]

Cheapest(gr, from, to) ==
  LET direct == {PartCost(gr, p[1].edge) * (p[2].pos - p[1].pos) + Slack :
                   p \in {q \in from \X to : q[1].edge = q[2].edge /\ q[1].pos <= q[2].pos}}
      along == {p[1].cost + gr.penalty[p[1].edge][p[2].edge]
                + PartCost(gr, p[2].edge) * p[2].pos + Slack :
                  p \in {q \in RouteEnds(gr, from) \X to : Follows(gr, q[1].edge, q[2].edge)}}
  IN  Min({Unreachable} \cup direct \cup along)
====
