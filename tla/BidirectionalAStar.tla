--------------------------- MODULE BidirectionalAStar ---------------------------
(***************************************************************************)
(* The search from both ends: BidirectionalAStar in                        *)
(* src/src/thor/bidirectional_astar.cc, which thor takes for every route   *)
(* whose ends are not next to each other.                                  *)
(*                                                                         *)
(* The forward tree grows from the origin along edges, the reverse tree    *)
(* from the destination along opposing edges.  An edge that one tree pops  *)
(* and whose opposing edge the other has settled is a connection; the best *)
(* one sets the cost at which both trees stop.                             *)
(*                                                                         *)
(* Abstractions.  As in UnidirectionalAStar the queues are what            *)
(* DoubleBucketQueue promises.  One path is asked for, so that only the    *)
(* best connection counts and iterations_threshold_ stays at its maximum.  *)
(* extended_search_ has its default, no edge is a shortcut or an internal  *)
(* edge of an intersection (internal_turn() is kNoTurn throughout), and    *)
(* pruning of edges that are no through edges is off.  The                 *)
(* heuristics of both directions agree on the distance between the ends    *)
(* (cost_diff_ is 0).  As in UnidirectionalAStar, the limit on the walking *)
(* distance forbids nothing.                                               *)
(***************************************************************************)
EXTENDS RoadNetwork, SequencesExt

CONSTANT ThresholdDelta   \* kThresholdDelta

ASSUME ThresholdAssumption == ThresholdDelta \in Nat

VARIABLES
  g, origin, destination,   \* the query
  labels,    \* edgelabels_forward_ and edgelabels_reverse_
  queue,     \* the indices in adjacencylist_forward_ and adjacencylist_reverse_
  cursor,    \* their current buckets
  status,    \* edgestatus_forward_ and edgestatus_reverse_
  cur,       \* forward_pred_idx and reverse_pred_idx
  expand,    \* the directions to pop in: expand_forward, expand_reverse
  best,      \* the front of best_connections_: the forward edge and the cost
  side,      \* the direction that is expanded
  k, could,  \* the next edge of the node; disable_uturn
  pc,
  path       \* what FormPath returns

query == <<g, origin, destination>>
expansion == <<side, k, could>>
vars == <<query, labels, queue, cursor, status, cur, expand, best, expansion, pc, path>>

Edges == DOMAIN g.head
Directions == {"forward", "reverse"}
Other(d) == IF d = "forward" THEN "reverse" ELSE "forward"

\* The directed edge that is travelled by a label of edge e, and the turn from e onto f.
Along(d, e) == IF d = "forward" THEN e ELSE g.opp[e]
Turn(d, e, f) == IF d = "forward" THEN g.penalty[e][f] ELSE g.penalty[g.opp[f]][g.opp[e]]

\* Distance from the end of a label of edge e to the end that its tree is looking for.
ToGo(d, e) ==
  Distance(g.x[g.head[e]], Place(g, IF d = "forward" THEN destination ELSE origin))

----------------------------------------------------------------------------
\* get_path_algorithm takes another search if an edge of the origin touches one of the
\* destination.
Ends(e) == {g.head[e], g.tail[e]}
AreConnected(from, to) ==
  \E c \in from, d \in to : Ends(c.edge) \cap Ends(d.edge) # {}

NoConnection == [edge |-> 0, cost |-> Unreachable]

Init ==
  /\ g \in Graphs
  /\ origin \in Locations(g)
  /\ destination \in Locations(g)
  /\ ~AreConnected(origin, destination)
  /\ labels = [d \in Directions |-> <<>>]
  /\ queue = [d \in Directions |-> {}]
  /\ cursor = [d \in Directions |->
                 Get(Distance(Place(g, origin), Place(g, destination))) \div BucketSize]
  /\ status = [d \in Directions |-> [e \in Edges |-> [set |-> "unreached", idx |-> 0]]]
  /\ cur = [d \in Directions |-> 0]
  /\ expand = Directions
  /\ best = NoConnection
  /\ side = "forward" /\ k = 1 /\ could = FALSE
  /\ pc = "origin"
  /\ path = <<>>

\* A label of edge e after label i of its tree, at a cost, with the cost of the turn.
EdgeLabel(d, e, i, cost, turn) ==
  [edge |-> e, pred |-> i, cost |-> cost, sort |-> cost + Get(ToGo(d, e)), turn |-> turn]

\* The candidates a tree starts from: inbound edges of the origin and outbound edges of the
\* destination are skipped if there are others.
Candidates(d) ==
  LET loc == IF d = "forward" THEN origin ELSE destination
      away == IF d = "forward" THEN Parts ELSE 0 IN
    {c \in loc : c.pos # away \/ \A o \in loc : o.pos = away}

\* The labels of the candidates, and their edges' status.
Seed(d) ==
  LET cands == SetToSeq(Candidates(d))
      Left(c) == IF d = "forward" THEN Parts - c.pos ELSE c.pos
      new == [i \in DOMAIN cands |->
                EdgeLabel(d, Along(d, cands[i].edge), 0,
                          PartCost(g, cands[i].edge) * Left(cands[i]), 0)] IN
    /\ labels' = [labels EXCEPT ![d] = new]
    /\ queue' = [queue EXCEPT ![d] = DOMAIN new]
    /\ status' = [status EXCEPT ![d] =
                    [e \in Edges |->
                       IF \E i \in DOMAIN new : new[i].edge = e
                       THEN [set |-> "temporary",
                             idx |-> CHOOSE i \in DOMAIN new : new[i].edge = e]
                       ELSE @[e]]]
    /\ UNCHANGED <<query, cursor, cur, expand, best, expansion, path>>

SetOrigin == pc = "origin" /\ Seed("forward") /\ pc' = "destination"
SetDestination == pc = "destination" /\ Seed("reverse") /\ pc' = "forward"

----------------------------------------------------------------------------
\* A queue gives labels of its lowest bucket that is not empty.
Bucket(d, i) ==
  LET b == labels[d][i].sort \div BucketSize IN IF b < cursor[d] THEN cursor[d] ELSE b

Lowest(d) == {i \in queue[d] : \A j \in queue[d] : Bucket(d, i) <= Bucket(d, j)}

\* The tree of direction d pops label i and settles its edge.
Pop(d, i) ==
  /\ pc = d
  /\ i \in Lowest(d)
  /\ queue' = [queue EXCEPT ![d] = @ \ {i}]
  /\ cursor' = [cursor EXCEPT ![d] = Bucket(d, i)]
  /\ cur' = [cur EXCEPT ![d] = i]
  /\ status' = [status EXCEPT ![d][labels[d][i].edge].set = "permanent"]

\* sortcost() > cost_threshold_, which is set with the first connection and follows the best.
TooDear(d, i) == best.edge # 0 /\ labels[d][i].sort > best.cost + ThresholdDelta

\* What the other tree knows about the edge of label i.
OppStatus(d, i) == status[Other(d)][g.opp[labels[d][i].edge]]
Opposite(d, i) == labels[Other(d)][OppStatus(d, i).idx]

\* Faulty variant: the opposing edge need not be settled.
MeetsReached(d, i) == OppStatus(d, i).set # "unreached"

\* The opposing edge is settled, or an end of the route.
Meets(d, i) ==
  \/ OppStatus(d, i).set = "permanent"
  \/ OppStatus(d, i).set = "temporary" /\ Opposite(d, i).pred = 0

\* The edges that are travelled from the start of the tree to label i.
Chain(d) ==
  LET c[i \in 0 .. Len(labels[d])] ==
        IF i = 0 THEN <<>>
        ELSE Append(c[labels[d][i].pred], Along(d, labels[d][i].edge))
  IN  c

\* The two halves of the route over an edge, given the labels of both trees.
Halves(i, j) == <<Chain("forward")[i], Reverse(Chain("reverse")[labels["reverse"][j].pred])>>

OnRestriction(e) ==
  \E r \in g.restrictions : {e, g.opp[e]} \cap {r[1], r[2], r[3]} # {}

\* IsBridgingEdgeRestricted: walk from the edge both ways as long as edges belong to some
\* restriction; no restriction may end on the far side and no edge may come twice.
BridgeRestricted(i, j) ==
  LET halves == Halves(i, j)
      h == Len(halves[1])
      whole == halves[1] \o halves[2]
      near == {x \in DOMAIN whole : \A y \in x .. h : OnRestriction(whole[y])}
      far == {x \in DOMAIN whole : x > h /\ \A y \in h .. x : OnRestriction(whole[y])}
  IN  \E x \in far :
        \/ \E y \in (near \cup far) : y < x /\ whole[y] = whole[x]
        \/ /\ x - 2 \in near \cup far
           /\ <<whole[x - 2], whole[x - 1], whole[x]>> \in g.restrictions

\* The cost of a connection: up to the edge on this side, the turn onto it, and the edge
\* with the rest on the other side; for an edge of an end it is the other way about.
ConnectionCost(d, i) ==
  LET l == labels[d][i]
      o == Opposite(d, i)
      Before(t, p) == IF p = 0 THEN 0 ELSE labels[t][p].cost IN
    IF l.pred # 0 THEN Before(d, l.pred) + o.cost + l.turn
    ELSE l.cost + Before(Other(d), o.pred) + o.turn

\* Faulty variant: the check is forgotten in the reverse direction.
ConnectsUnchecked(d, i) ==
  /\ Meets(d, i)
  /\ ~(/\ OnRestriction(labels[d][i].edge)
       /\ d = "forward"
       /\ BridgeRestricted(i, OppStatus(d, i).idx))

\* SetForwardConnection and SetReverseConnection accept.  Their refusal of u-turns on
\* internal edges is left out, as networks have none.
Connects(d, i) ==
  LET j == OppStatus(d, i).idx IN
    /\ Meets(d, i)
    /\ ~(/\ OnRestriction(labels[d][i].edge)
         /\ IF d = "forward" THEN BridgeRestricted(i, j) ELSE BridgeRestricted(j, i))

\* FormPath follows the labels that the edge of the best connection has now.
FormPath ==
  LET halves == Halves(status["forward"][best.edge].idx, status["reverse"][g.opp[best.edge]].idx)
  IN  halves[1] \o halves[2]

Done ==
  /\ pc' = "done"
  /\ path' = FormPath

\* Nothing cheaper can be found.
Stop(d, i) ==
  /\ Pop(d, i)
  /\ TooDear(d, i)
  /\ Done
  /\ UNCHANGED <<query, labels, expand, best, expansion>>

\* SetForwardConnection, SetReverseConnection, and the loop goes on with the next label of
\* the same direction.
Connect(d, i) ==
  /\ Pop(d, i)
  /\ ~TooDear(d, i)
  /\ Connects(d, i)
  /\ best' = IF best.edge = 0 \/ ConnectionCost(d, i) < best.cost
             THEN [edge |-> Along(d, labels[d][i].edge), cost |-> ConnectionCost(d, i)]
             ELSE best
  /\ pc' = IF "forward" \in expand THEN "forward" ELSE "reverse"
  /\ UNCHANGED <<query, labels, expand, expansion, path>>

\* A label to expand.
PopOther(d, i) ==
  /\ Pop(d, i)
  /\ ~TooDear(d, i)
  /\ ~Connects(d, i)
  /\ pc' = IF d = "forward" /\ "reverse" \in expand THEN "reverse" ELSE "choose"
  /\ UNCHANGED <<query, labels, expand, best, expansion, path>>

\* A tree is exhausted.
Exhausted(d) ==
  /\ pc = d
  /\ queue[d] = {}
  /\ IF best.edge # 0 THEN Done ELSE pc' = "failed" /\ UNCHANGED path
  /\ UNCHANGED <<query, labels, queue, cursor, status, cur, expand, best, expansion>>

----------------------------------------------------------------------------
\* Reach-based pruning: the cost to the last label of d but for its edge and the least the
\* other tree still pays to there exceed the threshold.
Pruned(d) ==
  LET l == labels[d][cur[d]]
      o == labels[Other(d)][cur[Other(d)]] IN
    /\ best.edge # 0
    /\ l.pred # 0
    /\ labels[d][l.pred].cost + l.turn + o.sort - Get(ToGo(Other(d), l.edge))
         > best.cost + ThresholdDelta

\* Faulty variant: the next iteration pops in both directions.
ChooseBoth ==
  LET Sort(d) == labels[d][cur[d]].sort
      d == IF Sort("forward") < Sort("reverse") THEN "forward" ELSE "reverse" IN
    /\ pc = "choose"
    /\ side' = d
    /\ expand' = Directions
    /\ k' = 1
    /\ could' = FALSE
    /\ pc' = IF Pruned(d) THEN "forward" ELSE "expand"
    /\ UNCHANGED <<query, labels, queue, cursor, status, cur, best, path>>

\* Expand the direction with the lower sort cost; the other keeps its label for later.
Choose ==
  LET Sort(d) == labels[d][cur[d]].sort
      d == IF Sort("forward") < Sort("reverse") THEN "forward" ELSE "reverse" IN
    /\ pc = "choose"
    /\ side' = d
    /\ expand' = {d}
    /\ k' = 1
    /\ could' = FALSE
    /\ pc' = IF Pruned(d) THEN d ELSE "expand"
    /\ UNCHANGED <<query, labels, queue, cursor, status, cur, best, path>>

----------------------------------------------------------------------------
\* Expansion at the end of the label `last` of direction side.
last == labels[side][cur[side]]
EndNode == g.head[last.edge]
Out == g.out[EndNode]
Back == g.opp[last.edge]

\* PedestrianCost::Allowed and AllowedReverse.
Allowed(e, deadend) ==
  /\ Along(side, e) \in g.access
  /\ deadend \/ e # Back

\* DynamicCost::Restricted: with the two edges before it e makes a restriction.
Restricted(e) ==
  LET from == IF last.pred = 0 THEN last.edge ELSE labels[side][last.pred].edge IN
    (IF side = "forward" THEN <<from, last.edge, e>>
     ELSE <<g.opp[e], g.opp[last.edge], g.opp[from]>>) \in g.restrictions

\* The label of edge e after the last one, with the cost of the edge that is travelled.
NextLabel(e) ==
  LET turn == Turn(side, last.edge, e) IN
    EdgeLabel(side, e, cur[side], last.cost + turn + Parts * PartCost(g, Along(side, e)), turn)

\* Faulty variant: a label is replaced whatever the new one costs.
UpdateAlways(e) ==
  LET i == status[side][e].idx
      new == NextLabel(e)
      old == labels[side][i] IN
    /\ labels' = [labels EXCEPT ![side][i] =
                    [new EXCEPT !.sort = old.sort - (old.cost - new.cost)]]
    /\ UNCHANGED <<queue, status>>

\* A temporarily labelled edge: its label is replaced if this way costs less.
Update(e) ==
  LET i == status[side][e].idx
      new == NextLabel(e)
      old == labels[side][i] IN
    /\ labels' = IF new.cost < old.cost
                 THEN [labels EXCEPT ![side][i] =
                         [new EXCEPT !.sort = old.sort - (old.cost - new.cost)]]
                 ELSE labels
    /\ UNCHANGED <<queue, status>>

\* Faulty variant: the index is taken after the label is appended.
AddThenCount(e) ==
  LET i == Len(labels[side]) + 1 IN
    /\ labels' = [labels EXCEPT ![side] = Append(@, NextLabel(e))]
    /\ queue' = [queue EXCEPT ![side] = @ \cup {i}]
    /\ status' = [status EXCEPT ![side][e] = [set |-> "temporary", idx |-> i + 1]]

\* A new label.
Add(e) ==
  LET i == Len(labels[side]) + 1 IN
    /\ labels' = [labels EXCEPT ![side] = Append(@, NextLabel(e))]
    /\ queue' = [queue EXCEPT ![side] = @ \cup {i}]
    /\ status' = [status EXCEPT ![side][e] = [set |-> "temporary", idx |-> i]]

\* reset_edge_status: the via edge, which was expanded, is no longer reached.
Reset ==
  /\ status' = [status EXCEPT ![side][last.edge].set = "unreached"]
  /\ UNCHANGED <<labels, queue>>

\* ExpandInner for edge e.
ExpandInner(e, deadend) ==
  LET set == status[side][e].set IN
    \/ /\ set = "permanent"
       /\ could' = TRUE
       /\ UNCHANGED <<labels, queue, status>>
    \/ /\ set # "permanent"
       /\ ~Allowed(e, deadend)
       /\ UNCHANGED <<labels, queue, status, could>>
    \/ /\ set # "permanent"
       /\ Allowed(e, deadend)
       /\ Restricted(e)
       /\ Reset
       /\ UNCHANGED could
    \/ /\ set # "permanent"
       /\ Allowed(e, deadend)
       /\ ~Restricted(e)
       /\ could' = TRUE
       /\ IF set = "temporary" THEN Update(e) ELSE Add(e)

Expanding ==
  /\ pc = "expand"
  /\ UNCHANGED <<query, cursor, cur, expand, best, side, path>>

\* No access at the node: only a u-turn is tried.
ExpandBlocked ==
  /\ Expanding
  /\ EndNode \in g.blocked
  /\ ExpandInner(Back, TRUE)
  /\ pc' = side
  /\ UNCHANGED k

ExpandEdge ==
  /\ Expanding
  /\ EndNode \notin g.blocked
  /\ k <= Len(Out)
  /\ Out[k] # Back
  /\ ExpandInner(Out[k], FALSE)
  /\ k' = k + 1
  /\ UNCHANGED pc

\* The edge back is left to the end.
SkipBack ==
  /\ Expanding
  /\ EndNode \notin g.blocked
  /\ k <= Len(Out)
  /\ Out[k] = Back
  /\ k' = k + 1
  /\ UNCHANGED <<labels, queue, status, could, pc>>

\* A dead end: nothing else could be expanded.
UTurn ==
  /\ Expanding
  /\ EndNode \notin g.blocked
  /\ k > Len(Out)
  /\ ~could
  /\ ExpandInner(Back, TRUE)
  /\ pc' = side
  /\ UNCHANGED k

EndExpand ==
  /\ Expanding
  /\ EndNode \notin g.blocked
  /\ k > Len(Out)
  /\ could
  /\ pc' = side
  /\ UNCHANGED <<labels, queue, status, k, could>>

Next ==
  \/ SetOrigin
  \/ SetDestination
  \/ \E d \in Directions :
       \/ Exhausted(d)
       \/ \E i \in queue[d] : Stop(d, i) \/ Connect(d, i) \/ PopOther(d, i)
  \/ Choose
  \/ ExpandBlocked
  \/ ExpandEdge
  \/ SkipBack
  \/ UTurn
  \/ EndExpand

Spec == Init /\ [][Next]_vars

----------------------------------------------------------------------------
Label == [edge : Edges, pred : Nat, cost : Nat, sort : Int, turn : Nat]

\* Types; an edge that was reached in a direction has a label there.  BestRoute says what
\* path is.
TypeOK ==
  /\ g \in Graphs
  /\ labels \in [Directions -> Seq(Label)]
  /\ queue \in [Directions -> SUBSET Nat]
  /\ cursor \in [Directions -> Int]
  /\ status \in [Directions ->
                  [Edges -> [set : {"unreached", "temporary", "permanent"}, idx : Nat]]]
  /\ cur \in [Directions -> Nat]
  /\ \A d \in Directions :
       /\ queue[d] \subseteq DOMAIN labels[d]
       /\ cur[d] \in 0 .. Len(labels[d])
       /\ \A e \in Edges :
            status[d][e].set # "unreached" => status[d][e].idx \in DOMAIN labels[d]
  /\ expand \in (SUBSET Directions) \ {{}}
  /\ best = NoConnection \/ best \in [edge : Edges, cost : Nat]
  /\ side \in Directions /\ could \in BOOLEAN
  /\ pc \in {"origin", "destination", "choose", "expand", "done", "failed"} \cup Directions
  /\ pc = "expand" => cur[side] # 0 /\ k \in 1 .. Len(Out) + 1

\* What recost_forward computes for a route: the first edge from a position, all of the
\* others but for what is left of the last, and the turns.
RouteCost(route, from, to) ==
  LET cost[i \in 1 .. Len(route)] ==
        IF i = 1 THEN PartCost(g, route[1]) * (Parts - from)
        ELSE cost[i - 1] + g.penalty[route[i - 1]][route[i]] + Parts * PartCost(g, route[i])
  IN  cost[Len(route)] - PartCost(g, route[Len(route)]) * (Parts - to)

\* A way from a candidate of the origin to one of the destination that costs c.
IsRoute(route, c) ==
  /\ route # <<>>
  /\ \A i \in 1 .. Len(route) - 1 : g.tail[route[i + 1]] = g.head[route[i]]
  /\ \E o \in origin, d \in destination :
       /\ o.edge = route[1] /\ d.edge = route[Len(route)]
       /\ RouteCost(route, o.pos, d.pos) = c

NoRestricted(route) ==
  \A i \in 1 .. Len(route) - 2 : <<route[i], route[i + 1], route[i + 2]>> \notin g.restrictions

\* A connection that becomes the best is a route from the origin to the destination, costs
\* what SetForwardConnection or SetReverseConnection computes from labels of both trees,
\* and takes no restricted turn, also where the trees meet.
ConnectionsHold ==
  [][best' # best => IsRoute(FormPath', best'.cost) /\ NoRestricted(FormPath')]_vars

\* The route that is returned is the best connection and as cheap as any if the heuristic
\* underestimates and nothing is restricted.  That it is as cheap holds on the networks of
\* the run, and wherever no edge costs more than half of the threshold: then neither the
\* trees' stopping at connections, nor pruning, nor the threshold lose a cheaper route.
\* With dearer edges the code may lose one (BidirPruned, BidirLongEdge).
BestRoute ==
  pc = "done" /\ g.restrictions = {} =>
    /\ IsRoute(path, best.cost)
    /\ NeverOverestimates(g) /\ Cheapest(g, origin, destination) < Unreachable =>
         best.cost <= Cheapest(g, origin, destination)

\* No route is reported only if there is none.
NoRouteMissed ==
  pc = "failed" /\ g.restrictions = {} => Cheapest(g, origin, destination) >= Unreachable

\* The route that is returned takes no restricted turn.
RestrictionsObeyed == pc = "done" => NoRestricted(path)

\* Each tree uses its queue as LabelQueue allows: labels of one tree are never lowered or
\* added while the other is expanded, only labels still queued are lowered, and labels come
\* in an order the queue may return them in.
Queue(d) ==
  INSTANCE LabelQueue WITH
    Labels <- Nat, kInvalidLabel <- 0, NoLabel <- -1,
    cost <- [i \in DOMAIN labels[d] |-> labels[d][i].sort],
    queued <- queue[d],
    popped <- IF cur[d] = 0 THEN -1 ELSE cur[d],
    reached <- cursor[d] * BucketSize

TreesUseLabelQueue ==
  /\ \A d \in Directions : Queue(d)!Init
  /\ [][\A d \in Directions : [Queue(d)!Next]_(Queue(d)!vars)]_vars
====
