-------------------------- MODULE UnidirectionalAStar --------------------------
(***************************************************************************)
(* The forward route search: UnidirectionalAStar<forward> in               *)
(* src/src/thor/unidirectional_astar.cc, with the costing of               *)
(* src/src/sif/pedestriancost.cc.                                          *)
(*                                                                         *)
(* A search over directed edges.  A label is a way to get to the end of an *)
(* edge (or to the destination on it); the edge status tells whether an    *)
(* edge has a label in the queue (temporary) or was expanded (permanent).  *)
(* A complex restriction A-B-C found while B is expanded resets B, so that *)
(* B can be reached another way.                                           *)
(*                                                                         *)
(* Abstractions.  The queue is what DoubleBucketQueue promises: pop takes  *)
(* a label of the lowest bucket.  RoadNetwork says what is searched.       *)
(***************************************************************************)
EXTENDS RoadNetwork

CONSTANTS
  MaxDistance,       \* max_distance_
  MaxNoConvergence   \* kMaxIterationsWithoutConvergence

ASSUME LimitsAssumption ==
  /\ MaxDistance \in Nat
  /\ MaxNoConvergence \in Nat

VARIABLES
  g,             \* the network
  origin,        \* candidates of the origin: [edge, pos], pos parts along the edge
  destination,   \* and those of the destination
  todo,          \* candidates that SetOrigin has not looked at
  labels,        \* edgelabels_
  queue,         \* indices of labels in adjacencylist_
  cursor,        \* the current bucket of adjacencylist_
  status,        \* edgestatus_
  best,          \* best_path.first, 0 if none
  mindist, nc,   \* closest so far; iterations since
  n,             \* iterations
  pc,
  cur, k,        \* label popped last; the next edge of its end node
  could,         \* disable_uturn
  result         \* the label FormPath starts from, 0 if none

query == <<g, origin, destination>>
vars == <<g, origin, destination, todo, labels, queue, cursor, status, best, mindist, nc,
          n, pc, cur, k, could, result>>

Edges == DOMAIN g.head

----------------------------------------------------------------------------
\* Costing.

\* Distance from the end of the edge to the destination.
ToDestination(e) == Distance(g.x[g.head[e]], Place(g, destination))

\* PedestrianCost::Allowed.  The comparison with max_distance_ is between it and the truth
\* value of (!allow_transit_connections_ && path_distance + length).
Allowed(e, deadend) ==
  /\ e \in g.access
  /\ deadend \/ e # g.opp[labels[cur].edge]
  /\ ~((IF labels[cur].path + Parts * g.len[e] # 0 THEN 1 ELSE 0) > MaxDistance)

\* DynamicCost::Restricted: the two edges before e and e are a restriction.
Restricted(e) ==
  LET from == IF labels[cur].pred = 0 THEN cur ELSE labels[cur].pred IN
    <<labels[from].edge, labels[cur].edge, e>> \in g.restrictions

----------------------------------------------------------------------------
\* destinations_, as SetDestination leaves it: candidates that leave the destination are
\* skipped if there are others.
SetDestination(dest) == {c \in dest : ~(c.pos = 0 /\ \E d \in dest : d.pos # 0)}

Init ==
  /\ g \in Graphs
  /\ origin \in Locations(g)
  /\ destination \in Locations(g)
  /\ todo = origin
  /\ labels = <<>>
  /\ queue = {}
  /\ mindist = Distance(Place(g, origin), Place(g, destination))
  /\ cursor = Get(mindist) \div BucketSize
  /\ status = [e \in Edges |-> [set |-> "unreached", idx |-> 0]]
  /\ best = 0 /\ nc = 0 /\ n = 0
  /\ pc = "origin"
  /\ cur = 0 /\ k = 0 /\ could = FALSE
  /\ result = 0

\* A label of edge e that has gone `done` parts of it, reached with cost c and path
\* length p from label i (0 if none) at its start.
EdgeLabel(e, i, c, p, done, ends) ==
  LET cost == c + PartCost(g, e) * done
      dist == IF "dest" \in ends THEN 0 ELSE ToDestination(e) IN
    [edge |-> e, pred |-> i, cost |-> cost, sort |-> cost + Get(dist), dist |-> dist,
     path |-> p + g.len[e] * done, ends |-> ends]

DestinationsOn(dest, e) == {d \in SetDestination(dest) : d.edge = e}

\* The place of a destination on edge e.
DestinationPos(dest, e) == (CHOOSE d \in DestinationsOn(dest, e) : TRUE).pos

SuperTrivial(c) == \E d \in DestinationsOn(destination, c.edge) : d.pos = c.pos

\* The labels SetOrigin makes for a candidate: one to the end of the edge and, if the
\* destination is further along the same edge, one to there.
OriginLabels(c) ==
  LET there == {d \in DestinationsOn(destination, c.edge) : d.pos >= c.pos} IN
    <<EdgeLabel(c.edge, 0, 0, 0, Parts - c.pos, {"origin"})>> \o
    (IF there = {} THEN <<>>
     ELSE LET d == CHOOSE d \in there : TRUE IN
            <<EdgeLabel(c.edge, 0, 0, 0, d.pos - c.pos, {"origin", "dest"})>>)

\* An iteration of the loop of SetOrigin, over the candidates in some fixed order.  Labels
\* of the origin get no edge status.
SetOrigin ==
  LET c == CHOOSE c \in todo : TRUE IN
    /\ pc = "origin"
    /\ todo # {}
    /\ todo' = todo \ {c}
    /\ IF c.pos = Parts /\ (\E d \in origin : d.pos # Parts) /\ ~SuperTrivial(c)
       THEN UNCHANGED <<labels, queue>>
       ELSE /\ labels' = labels \o OriginLabels(c)
            /\ queue' = queue \cup (Len(labels) + 1 .. Len(labels'))
    /\ UNCHANGED <<query, cursor, status, best, mindist, nc, n, pc, cur, k, could, result>>

Begin ==
  /\ pc = "origin"
  /\ todo = {}
  /\ pc' = "pop"
  /\ UNCHANGED <<query, todo, labels, queue, cursor, status, best, mindist, nc, n, cur, k,
                 could, result>>

----------------------------------------------------------------------------
\* The queue: labels of the lowest bucket that is not empty.
Bucket(i) ==
  LET b == labels[i].sort \div BucketSize IN IF b < cursor THEN cursor ELSE b

Lowest == {i \in queue : \A j \in queue : Bucket(i) <= Bucket(j)}

\* adjacencylist_.pop() returns label i.
Pop(i) ==
  /\ pc = "pop"
  /\ i \in Lowest
  /\ queue' = queue \ {i}
  /\ cursor' = Bucket(i)
  /\ n' = n + 1

\* No label is left.
Fail ==
  /\ pc = "pop"
  /\ queue = {}
  /\ pc' = "failed"
  /\ n' = n + 1
  /\ UNCHANGED <<query, todo, labels, queue, cursor, status, best, mindist, nc, cur, k,
                 could, result>>

\* A label of the destination completes the path.
Arrive(i) ==
  /\ Pop(i)
  /\ "dest" \in labels[i].ends
  /\ result' = i
  /\ pc' = "arrived"
  /\ cur' = i
  /\ UNCHANGED <<query, todo, labels, status, best, mindist, nc, k, could>>

\* Faulty variant: the edge of an origin is settled too.
SettledOrigin(i) == [status EXCEPT ![labels[i].edge].set = "permanent"]

\* edgestatus_.Update(pred.edgeid(), kPermanent), not for an origin edge.
Settled(i) ==
  IF "origin" \in labels[i].ends THEN status
  ELSE [status EXCEPT ![labels[i].edge].set = "permanent"]

StartExpand(i) ==
  /\ pc' = "expand"
  /\ cur' = i
  /\ k' = 1
  /\ could' = FALSE

\* A label that is closer to the destination than any before.
PopCloser(i) ==
  /\ Pop(i)
  /\ "dest" \notin labels[i].ends
  /\ status' = Settled(i)
  /\ labels[i].dist < mindist
  /\ mindist' = labels[i].dist
  /\ nc' = 0
  /\ StartExpand(i)
  /\ UNCHANGED <<query, todo, labels, best, result>>

\* Faulty variant: the iterations are not counted.
PopOtherUncounted(i) ==
  /\ Pop(i)
  /\ "dest" \notin labels[i].ends
  /\ status' = Settled(i)
  /\ labels[i].dist >= mindist
  /\ nc <= MaxNoConvergence
  /\ StartExpand(i)
  /\ UNCHANGED <<query, todo, labels, best, mindist, nc, result>>

\* One that is not.
PopOther(i) ==
  /\ Pop(i)
  /\ "dest" \notin labels[i].ends
  /\ status' = Settled(i)
  /\ labels[i].dist >= mindist
  /\ nc <= MaxNoConvergence
  /\ nc' = nc + 1
  /\ StartExpand(i)
  /\ UNCHANGED <<query, todo, labels, best, mindist, result>>

\* Too many of them: settle for the best connection so far, if any.
GiveUp(i) ==
  /\ Pop(i)
  /\ "dest" \notin labels[i].ends
  /\ status' = Settled(i)
  /\ labels[i].dist >= mindist
  /\ nc > MaxNoConvergence
  /\ nc' = nc + 1
  /\ result' = best
  /\ pc' = IF best # 0 THEN "settled" ELSE "failed"
  /\ cur' = i
  /\ UNCHANGED <<query, todo, labels, best, mindist, k, could>>

----------------------------------------------------------------------------
\* A new label of edge e, after the label that is expanded.
NextLabel(e, done, ends) ==
  EdgeLabel(e, cur, labels[cur].cost + g.penalty[labels[cur].edge][e], labels[cur].path,
            done, ends)

\* Faulty variants: a label is replaced by a dearer one too; the first label is kept; the
\* predecessor is.
UpdatedAlways(e) ==
  LET i == status[e].idx
      new == NextLabel(e, Parts, {}).cost IN
    [labels EXCEPT ![i].pred = cur, ![i].cost = new, ![i].sort = @ - (labels[i].cost - new)]
UpdatedNever(e) == labels
UpdatedKeepsPred(e) ==
  LET i == status[e].idx
      new == NextLabel(e, Parts, {}).cost IN
    IF new < labels[i].cost
    THEN [labels EXCEPT ![i].cost = new, ![i].sort = @ - (labels[i].cost - new)]
    ELSE labels

\* update_label: replace the label of a temporarily labelled edge if this way costs less.
\* The path length stays.
Updated(e) ==
  LET i == status[e].idx
      new == NextLabel(e, Parts, {}).cost IN
    IF new < labels[i].cost
    THEN [labels EXCEPT ![i].pred = cur, ![i].cost = new,
                        ![i].sort = @ - (labels[i].cost - new)]
    ELSE labels

\* Add or update the label to the end of e, then add a label for a destination on it.
Relax(e) ==
  LET temporary == status[e].set = "temporary"
      toend == IF temporary THEN Updated(e) ELSE Append(labels, NextLabel(e, Parts, {}))
      dests == DestinationsOn(destination, e) IN
    /\ labels' =
         IF dests = {} THEN toend
         ELSE Append(toend, NextLabel(e, DestinationPos(destination, e), {"dest"}))
    /\ queue' = queue \cup (Len(labels) + 1 .. Len(labels'))
    /\ status' = IF temporary THEN status
                 ELSE [status EXCEPT ![e] = [set |-> "temporary", idx |-> Len(labels) + 1]]
    /\ best' = IF dests # {} /\ (best = 0 \/ labels'[Len(labels')].cost < labels[best].cost)
               THEN Len(labels') ELSE best

\* Faulty variant: B is made temporary again and keeps its label.
ResetKeepsLabel(e) ==
  status' = [status EXCEPT ![labels[cur].edge].set = "temporary"]

\* reset_edge_status: the via edge, whose label is expanded, is no longer reached.
Reset(e) ==
  status' = [status EXCEPT ![labels[cur].edge].set = "unreached"]

\* Faulty variant: the restriction is not looked at if the edge has a label already.
ExpandInnerUnrestricted(e, deadend) ==
  \/ /\ status[e].set = "permanent"
     /\ could' = TRUE
     /\ UNCHANGED <<labels, queue, status, best>>
  \/ /\ status[e].set # "permanent"
     /\ ~Allowed(e, deadend)
     /\ UNCHANGED <<labels, queue, status, best, could>>
  \/ /\ status[e].set = "unreached"
     /\ Allowed(e, deadend)
     /\ Restricted(e)
     /\ Reset(e)
     /\ UNCHANGED <<labels, queue, best, could>>
  \/ /\ status[e].set # "permanent"
     /\ Allowed(e, deadend)
     /\ status[e].set = "temporary" \/ ~Restricted(e)
     /\ could' = TRUE
     /\ Relax(e)

\* ExpandInner for edge e.
ExpandInner(e, deadend) ==
  \/ /\ status[e].set = "permanent"
     /\ could' = TRUE
     /\ UNCHANGED <<labels, queue, status, best>>
  \/ /\ status[e].set # "permanent"
     /\ ~Allowed(e, deadend)
     /\ UNCHANGED <<labels, queue, status, best, could>>
  \/ /\ status[e].set # "permanent"
     /\ Allowed(e, deadend)
     /\ Restricted(e)
     /\ Reset(e)
     /\ UNCHANGED <<labels, queue, best, could>>
  \/ /\ status[e].set # "permanent"
     /\ Allowed(e, deadend)
     /\ ~Restricted(e)
     /\ could' = TRUE
     /\ Relax(e)

\* Expand at the end of the label: the node, its edges, the edge back.
EndNode == g.head[labels[cur].edge]
Out == g.out[EndNode]
Back == g.opp[labels[cur].edge]

\* The rest of the state stays while a node is expanded.
Expanding ==
  /\ pc = "expand"
  /\ UNCHANGED <<query, todo, cursor, mindist, nc, n, cur, result>>

\* No access at the node: only a u-turn is tried.
ExpandBlocked ==
  /\ Expanding
  /\ EndNode \in g.blocked
  /\ ExpandInner(Back, TRUE)
  /\ pc' = "pop"
  /\ UNCHANGED k

ExpandEdge ==
  /\ Expanding
  /\ EndNode \notin g.blocked
  /\ k <= Len(Out)
  /\ Out[k] # Back
  /\ ExpandInner(Out[k], FALSE)
  /\ k' = k + 1
  /\ UNCHANGED pc

\* The edge back is left to the end.
SkipBack ==
  /\ Expanding
  /\ EndNode \notin g.blocked
  /\ k <= Len(Out)
  /\ Out[k] = Back
  /\ k' = k + 1
  /\ UNCHANGED <<labels, queue, status, best, pc, could>>

\* A dead end: nothing else could be expanded.
UTurn ==
  /\ Expanding
  /\ EndNode \notin g.blocked
  /\ k > Len(Out)
  /\ ~could
  /\ ExpandInner(Back, TRUE)
  /\ pc' = "pop"
  /\ UNCHANGED k

EndExpand ==
  /\ Expanding
  /\ EndNode \notin g.blocked
  /\ k > Len(Out)
  /\ could
  /\ pc' = "pop"
  /\ UNCHANGED <<labels, queue, status, best, k, could>>

Next ==
  \/ SetOrigin
  \/ Begin
  \/ Fail
  \/ \E i \in queue : Arrive(i) \/ PopCloser(i) \/ PopOther(i) \/ GiveUp(i)
  \/ ExpandBlocked
  \/ ExpandEdge
  \/ SkipBack
  \/ UTurn
  \/ EndExpand

Spec == Init /\ [][Next]_vars

----------------------------------------------------------------------------
Label ==
  [edge : Edges, pred : Nat, cost : Nat, sort : Int, dist : Nat, path : Nat,
   ends : SUBSET {"origin", "dest"}]

\* Types; an edge that was reached has a label.
TypeOK ==
  /\ g \in Graphs
  /\ todo \subseteq origin
  /\ labels \in Seq(Label)
  /\ queue \subseteq DOMAIN labels
  /\ status \in [Edges -> [set : {"unreached", "temporary", "permanent"}, idx : Nat]]
  /\ \A e \in Edges : status[e].set # "unreached" => status[e].idx \in DOMAIN labels
  /\ best \in 0 .. Len(labels) /\ result \in 0 .. Len(labels)
  /\ nc \in Nat /\ n \in Nat /\ mindist \in Nat /\ cursor \in Int
  /\ pc \in {"origin", "pop", "expand", "arrived", "settled", "failed"}
  /\ pc = "expand" => cur \in DOMAIN labels /\ k \in 1 .. Len(Out) + 1
  /\ could \in BOOLEAN

\* The label FormPath starts from costs no more than the cheapest route, if there is one.
Optimal ==
  LET least == Cheapest(g, origin, destination) IN
    least < Unreachable => labels[result].cost <= least

\* The label FormPath starts from when a destination was popped is that of a cheapest route,
\* whatever candidates the locations have, if the heuristic underestimates and nothing is
\* restricted: labels, updates and the order of the queue together.
BestRoute ==
  pc = "arrived" /\ NeverOverestimates(g) /\ g.restrictions = {} => Optimal

\* The same for every network: the heuristic must underestimate, canopy or not.
BestRouteInShade ==
  pc = "arrived" /\ g.restrictions = {} => Optimal

\* The search returns no path only if there is no route, or it has given up: marking edges
\* permanent, skipping candidates and leaving u-turns to dead ends lose none.
NoRouteMissed ==
  pc = "failed" /\ nc <= MaxNoConvergence /\ g.restrictions = {} =>
    Cheapest(g, origin, destination) >= Unreachable

\* No chain of labels takes the three edges of a restriction, through all the updates of
\* predecessors and resets of via edges.
RestrictionsObeyed ==
  \A i \in DOMAIN labels :
    LET p == labels[i].pred IN
      p # 0 /\ labels[p].pred # 0 =>
        <<labels[labels[p].pred].edge, labels[p].edge, labels[i].edge>> \notin g.restrictions

PartsOf(dest, l) == IF "dest" \in l.ends THEN DestinationPos(dest, l.edge) ELSE Parts

\* A label starts where its predecessor ends and costs what that costs, the turn and the
\* edge: the predecessor has left the queue and was not updated since.  FormPath reports
\* these costs per edge.
LabelsAddUp ==
  \A i \in DOMAIN labels :
    LET l == labels[i]
        p == labels[i].pred IN
      /\ l.sort = l.cost + Get(l.dist)
      /\ p # 0 => /\ p \in DOMAIN labels \ queue
                  /\ g.tail[l.edge] = g.head[labels[p].edge]
                  /\ l.cost = labels[p].cost + g.penalty[labels[p].edge][l.edge]
                              + PartCost(g, l.edge) * PartsOf(destination, l)

\* The label of a temporarily labelled edge is in the queue, as decrease() requires, and is
\* to the end of that edge.
TemporaryIsQueued ==
  \A e \in Edges :
    status[e].set = "temporary" =>
      /\ status[e].idx \in queue
      /\ labels[status[e].idx].edge = e
      /\ labels[status[e].idx].ends = {}

\* Labels, edge status and queue stay consistent through updates of queued labels and
\* resets of via edges, whose labels stay behind in the queue.
LabelsConsistent == LabelsAddUp /\ TemporaryIsQueued

\* What the search does to its labels and its queue is what LabelQueue allows the caller of
\* a queue, and the labels come in an order the queue may return them in: only labels
\* still queued are lowered, through updates of predecessors and resets of via edges.
Queue ==
  INSTANCE LabelQueue WITH
    Labels <- Nat, kInvalidLabel <- 0, NoLabel <- -1,
    cost <- [i \in DOMAIN labels |-> labels[i].sort],
    queued <- queue,
    popped <- IF pc = "failed" /\ nc <= MaxNoConvergence THEN 0
              ELSE IF cur = 0 THEN -1 ELSE cur,
    reached <- cursor * BucketSize

UsesLabelQueue == Queue!Spec

\* The number of iterations is bounded whatever the restrictions reset.
SearchEnds == n <= (Cardinality(DOMAIN g.x) + 1) * (MaxNoConvergence + 2)
====
