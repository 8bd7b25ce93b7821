----------------------- MODULE BidirectionalAStarProofs ------------------------
(***************************************************************************)
(* What the search from both ends keeps for every road network and every   *)
(* pair of locations: each tree uses its queue as LabelQueue allows, every *)
(* connection taken is a route, no route is missed, and the route returned *)
(* is a cheapest one if no edge costs more than half of the threshold.     *)
(*                                                                         *)
(* The queues: a temporarily labelled edge of a tree has its label in the  *)
(* queue of that tree, whatever the other tree does meanwhile and whatever *)
(* restrictions reset, so only queued labels are ever lowered (IInv).      *)
(*                                                                         *)
(* The route: a step is described for one tree alone (TreeStep), so that   *)
(* what a tree keeps of its labels is proved once (TInv, FTree).  Then each *)
(* settled edge has a fate: it waits, it was expanded, it is a connection, *)
(* or it was pruned (Fates).  Along any route that turns back nowhere, the *)
(* two trees open a beginning and an end of it; where either one stopped,  *)
(* the other goes on or the route is beaten (Prospects, Safe).  The cost   *)
(* of the reference is that of such a route (ReferenceIsProper).  And the  *)
(* labels behind a label are a walk on the network (LabelsAreWalks), two   *)
(* of which meet in a connection (LabelsMeet).                             *)
(***************************************************************************)
EXTENDS BidirectionalAStar, FiniteSetTheorems, SequenceTheorems, WellFoundedInduction, TLAPS

\* A location is a set of candidates on edges of the network.
IsLocation(gr, loc) ==
  /\ loc # {}
  /\ loc \subseteq [edge : DOMAIN gr.head, pos : 0 .. Parts]

----------------------------------------------------------------------------
\* Products of natural numbers are natural numbers: costs are not negative.
LEMMA Product == \A a, b \in Nat : a * b \in Nat
  BY SMT

\* EdgeCost: the cost of a part of an edge is a natural number, whatever the canopy.
LEMMA PartCostType ==
  ASSUME NEW gr \in Graphs, NEW e \in DOMAIN gr.head
  PROVE  PartCost(gr, e) \in Nat
<1>1. gr.len[e] \in Nat /\ gr.canopy[e] \in Nat
  BY SearchAssumption DEF IsGraph
<1>2. 10 - (IF gr.canopy[e] < 9 THEN gr.canopy[e] ELSE 9) \in Nat
  BY <1>1
<1>. QED
  BY <1>1, <1>2, Product DEF PartCost

\* Locations, as correlate_node and correlate_edge make them, are on the network.
LEMMA LocationsAreLocations ==
  ASSUME NEW gr \in Graphs, NEW loc \in Locations(gr)
  PROVE  IsLocation(gr, loc)
<1>1. /\ gr.access \subseteq DOMAIN gr.head
      /\ \A e \in DOMAIN gr.head : gr.opp[e] \in DOMAIN gr.head
      /\ Parts \in Nat \ {0}
  BY SearchAssumption DEF IsGraph
<1>2. CASE \E m \in DOMAIN gr.x : loc = AtNode(gr, m)
  BY <1>1, <1>2 DEF Locations, AtNode, IsLocation
<1>3. CASE \E e \in gr.access, p \in 1 .. Parts - 1 : loc = OnEdge(gr, e, p)
  <2>1. PICK e \in gr.access, p \in 1 .. Parts - 1 : loc = OnEdge(gr, e, p)
    BY <1>3
  <2>2. p \in 0 .. Parts /\ Parts - p \in 0 .. Parts
    BY <1>1
  <2>. QED
    BY <1>1, <2>1, <2>2 DEF Locations, OnEdge, IsLocation
<1>. QED
  BY <1>2, <1>3 DEF Locations

\* Locations have a place on the line of the nodes.
LEMMA PlaceType ==
  ASSUME NEW gr \in Graphs, NEW loc, IsLocation(gr, loc)
  PROVE  Place(gr, loc) \in Int
<1>. DEFINE c == CHOOSE c \in loc : TRUE
<1>1. c.edge \in DOMAIN gr.head /\ c.pos \in 0 .. Parts
  BY DEF IsLocation
<1>2. gr.x[gr.tail[c.edge]] \in Int /\ gr.x[gr.head[c.edge]] \in Int
  BY <1>1, SearchAssumption DEF IsGraph
<1>3. Parts \in Nat \ {0}
  BY SearchAssumption
<1>4. \A a, b, p \in Int : ((Parts - p) * a + p * b) \div Parts \in Int
  BY <1>3
<1>. HIDE DEF c
<1>5. ((Parts - c.pos) * gr.x[gr.tail[c.edge]] + c.pos * gr.x[gr.head[c.edge]]) \div Parts \in Int
  BY <1>1, <1>2, <1>3, <1>4
<1>. QED
  BY <1>5 DEF Place, c

\* A location has finitely many candidates, as a network has finitely many edges.
LEMMA LocationsAreFinite ==
  ASSUME NEW gr \in Graphs, NEW loc, IsLocation(gr, loc)
  PROVE  IsFiniteSet(loc)
<1>. DEFINE E == DOMAIN gr.head
            P == 0 .. Parts
            f == [p \in E \X P |-> [edge |-> p[1], pos |-> p[2]]]
<1>1. IsFiniteSet(E) /\ IsFiniteSet(P)
  BY SearchAssumption, FS_Interval DEF IsGraph
<1>2. IsFiniteSet(E \X P)
  BY <1>1, FS_Product
<1>3. \A c \in [edge : E, pos : P] : \E p \in E \X P : f[p] = c
  <2>. SUFFICES ASSUME NEW c \in [edge : E, pos : P] PROVE \E p \in E \X P : f[p] = c
    OBVIOUS
  <2>1. <<c.edge, c.pos>> \in E \X P /\ f[<<c.edge, c.pos>>] = c
    OBVIOUS
  <2>. QED
    BY <2>1
<1>4. f \in Surjection(E \X P, [edge : E, pos : P])
  BY <1>3 DEF Surjection
<1>5. IsFiniteSet([edge : E, pos : P])
  BY <1>2, <1>4, FS_Surjection
<1>. QED
  BY <1>5, FS_Subset DEF IsLocation

----------------------------------------------------------------------------
\* What one tree keeps.
TemporaryIsQueued(d) ==
  \A e \in Edges :
    status[d][e].set = "temporary" =>
      status[d][e].idx \in queue[d] /\ labels[d][status[d][e].idx].edge = e

\* An edge that was labelled has an index, even when it was reset.
LabelledEdges(d) ==
  \A i \in DOMAIN labels[d] : status[d][labels[d][i].edge].idx \in DOMAIN labels[d]

\* What labels, queue and status of a tree are made of.
TreeTypes(d) ==
  /\ labels[d] \in Seq(Label)
  /\ queue[d] \subseteq DOMAIN labels[d]
  /\ cursor[d] \in Int
  /\ status[d] \in [Edges -> [set : {"unreached", "temporary", "permanent"}, idx : Nat]]
  /\ cur[d] \in 0 .. Len(labels[d])
  /\ \A e \in Edges : status[d][e].set # "unreached" => status[d][e].idx \in DOMAIN labels[d]

\* Predecessors are labels of the same tree.
PredsAreLabels(d) ==
  \A i \in DOMAIN labels[d] : labels[d][i].pred \in 0 .. Len(labels[d])

\* What a tree always keeps of its labels, its queue and the status of its edges.
TreeInv(d) ==
  /\ TreeTypes(d)
  /\ PredsAreLabels(d)
  /\ TemporaryIsQueued(d)
  /\ LabelledEdges(d)
  /\ cur[d] \notin queue[d]

\* The variables that hold something for each direction.
Trees ==
  /\ labels \in [Directions -> Seq(Label)]
  /\ queue \in [Directions -> SUBSET Nat]
  /\ cursor \in [Directions -> Int]
  /\ status \in [Directions ->
                  [Edges -> [set : {"unreached", "temporary", "permanent"}, idx : Nat]]]
  /\ cur \in [Directions -> Nat]
  /\ \A d \in Directions : TreeInv(d)

\* Which trees have a label to expand: both once one was chosen.
Stages ==
  /\ pc = "origin" => \A d \in Directions : labels[d] = <<>> /\ cur[d] = 0
  /\ pc = "destination" => labels["reverse"] = <<>> /\ cur["reverse"] = 0
  /\ pc = "reverse" => cur["forward"] # 0
  /\ pc \in {"choose", "expand"} \/ expand # Directions => \A d \in Directions : cur[d] # 0

\* The inductive invariant.
IInv ==
  /\ TypeOK
  /\ IsLocation(g, origin) /\ IsLocation(g, destination)
  /\ Trees
  /\ Stages

----------------------------------------------------------------------------
\* The distance from an edge to the end that a tree is looking for.
LEMMA ToGoType ==
  ASSUME g \in Graphs, IsLocation(g, origin), IsLocation(g, destination),
         NEW d \in Directions, NEW e \in Edges
  PROVE  ToGo(d, e) \in Nat
<1>1. Place(g, origin) \in Int /\ Place(g, destination) \in Int
  BY PlaceType
<1>2. g.x[g.head[e]] \in Int
  BY SearchAssumption DEF IsGraph, Edges
<1>. QED
  BY <1>1, <1>2 DEF ToGo, Distance

\* A label made from natural numbers is a label.
LEMMA EdgeLabelType ==
  ASSUME g \in Graphs, IsLocation(g, origin), IsLocation(g, destination),
         NEW d \in Directions, NEW e \in Edges, NEW i \in Nat, NEW cost \in Nat, NEW turn \in Nat
  PROVE  /\ EdgeLabel(d, e, i, cost, turn) \in Label
         /\ EdgeLabel(d, e, i, cost, turn).edge = e
         /\ EdgeLabel(d, e, i, cost, turn).pred = i
<1>1. Get(ToGo(d, e)) \in Nat
  BY ToGoType, Product, SearchAssumption DEF Get
<1>2. cost + Get(ToGo(d, e)) \in Int
  BY <1>1
<1>. QED
  BY <1>2 DEF EdgeLabel, Label

\* A tree that nothing happens to keeps what it has.
LEMMA TreeStays ==
  ASSUME NEW d \in Directions, TreeInv(d), g' = g,
         labels'[d] = labels[d], queue'[d] = queue[d], cursor'[d] = cursor[d],
         status'[d] = status[d], cur'[d] = cur[d]
  PROVE  TreeInv(d)'
  BY DEF TreeInv, TreeTypes, PredsAreLabels, TemporaryIsQueued, LabelledEdges, Label, Edges

\* The search starts in the invariant.
LEMMA InitIInv == Init => IInv
<1>. SUFFICES ASSUME Init PROVE IInv
  OBVIOUS
<1>1. IsLocation(g, origin) /\ IsLocation(g, destination)
  BY LocationsAreLocations DEF Init
<1>2. Place(g, origin) \in Int /\ Place(g, destination) \in Int
  BY <1>1, PlaceType DEF Init
<1>3. Get(Distance(Place(g, origin), Place(g, destination))) \div BucketSize \in Int
  <2>1. Distance(Place(g, origin), Place(g, destination)) \in Nat
    BY <1>2 DEF Distance
  <2>2. Get(Distance(Place(g, origin), Place(g, destination))) \in Nat
    BY <2>1, Product, SearchAssumption DEF Get
  <2>. QED
    BY <2>2, SearchAssumption
<1>4. /\ labels = [d \in Directions |-> <<>>] /\ queue = [d \in Directions |-> {}]
      /\ cur = [d \in Directions |-> 0] /\ cursor \in [Directions -> Int]
      /\ status = [d \in Directions |-> [e \in Edges |-> [set |-> "unreached", idx |-> 0]]]
  BY <1>3 DEF Init
<1>5. \A d \in Directions :
        /\ labels[d] = <<>> /\ queue[d] = {} /\ cur[d] = 0 /\ cursor[d] \in Int
        /\ status[d] \in [Edges -> [set : {"unreached", "temporary", "permanent"}, idx : Nat]]
        /\ \A e \in Edges : status[d][e].set = "unreached"
  BY <1>4
<1>6. /\ labels \in [Directions -> Seq(Label)] /\ queue \in [Directions -> SUBSET Nat]
      /\ cur \in [Directions -> Nat]
      /\ status \in [Directions ->
                      [Edges -> [set : {"unreached", "temporary", "permanent"}, idx : Nat]]]
  BY <1>4
<1>7. ASSUME NEW d \in Directions PROVE TreeInv(d)
  <2>1. labels[d] = <<>> /\ queue[d] = {} /\ cur[d] = 0 /\ cursor[d] \in Int
    BY <1>5
  <2>2. labels[d] \in Seq(Label) /\ DOMAIN labels[d] = {} /\ Len(labels[d]) = 0
    BY <2>1
  <2>3. /\ status[d] \in [Edges -> [set : {"unreached", "temporary", "permanent"}, idx : Nat]]
        /\ \A e \in Edges : status[d][e].set = "unreached"
    BY <1>5
  <2>4. TreeTypes(d)
    BY <2>1, <2>2, <2>3 DEF TreeTypes
  <2>. QED
    BY <2>1, <2>2, <2>3, <2>4 DEF TreeInv, PredsAreLabels, TemporaryIsQueued, LabelledEdges
<1>8. TypeOK
  <2>1. /\ g \in Graphs /\ expand = Directions /\ best = NoConnection
        /\ side = "forward" /\ could = FALSE /\ pc = "origin"
    BY DEF Init
  <2>2. expand \in (SUBSET Directions) \ {{}}
    BY <2>1 DEF Directions
  <2>3. could \in BOOLEAN
    BY <2>1
  <2>4. side \in Directions
    BY <2>1 DEF Directions
  <2>5. \A d \in Directions :
          /\ queue[d] \subseteq DOMAIN labels[d] /\ cur[d] \in 0 .. Len(labels[d])
          /\ \A e \in Edges :
               status[d][e].set # "unreached" => status[d][e].idx \in DOMAIN labels[d]
    BY <1>7 DEF TreeInv, TreeTypes
  <2>. QED
    BY <1>4, <1>6, <2>1, <2>2, <2>3, <2>4, <2>5 DEF TypeOK
<1>9. Stages
  BY <1>5 DEF Stages, Init
<1>. QED
  BY <1>1, <1>4, <1>6, <1>7, <1>8, <1>9 DEF IInv, Trees

----------------------------------------------------------------------------
\* When a tree pops a label, edges that are temporarily labelled keep theirs in the queue.
LEMMA PopKeeps ==
  ASSUME IInv, NEW d \in Directions, NEW i \in queue[d], Pop(d, i), UNCHANGED <<query, labels>>
  PROVE  /\ Trees'
         /\ cur'[d] # 0 /\ \A t \in Directions : t # d => cur'[t] = cur[t]
<1>. DEFINE e == labels[d][i].edge
            Status == [Edges -> [set : {"unreached", "temporary", "permanent"}, idx : Nat]]
<1>1. /\ Trees /\ TreeInv(d) /\ g' = g
      /\ BucketSize \in Nat \ {0}
  BY SearchAssumption DEF IInv, Trees, query
<1>2. i \in DOMAIN labels[d] /\ i \in Nat /\ i # 0 /\ labels[d] \in Seq(Label)
  BY <1>1 DEF TreeInv, TreeTypes
<1>3. labels[d][i] \in Label
  BY <1>2
<1>4. e \in Edges /\ labels[d][i].sort \in Int
  BY <1>3 DEF Label
<1>5. Bucket(d, i) \in Int
  BY <1>1, <1>4 DEF Bucket, TreeInv, TreeTypes
<1>6. /\ queue' = [queue EXCEPT ![d] = queue[d] \ {i}]
      /\ cursor' = [cursor EXCEPT ![d] = Bucket(d, i)]
      /\ cur' = [cur EXCEPT ![d] = i]
      /\ status' = [status EXCEPT ![d] = [status[d] EXCEPT ![e] = [status[d][e] EXCEPT !.set = "permanent"]]]
  BY DEF Pop
<1>. HIDE DEF e
<1>7. /\ queue'[d] = queue[d] \ {i} /\ cursor'[d] = Bucket(d, i) /\ cur'[d] = i
      /\ status'[d] = [status[d] EXCEPT ![e] = [status[d][e] EXCEPT !.set = "permanent"]]
      /\ labels' = labels
  BY <1>1, <1>6 DEF Trees
<1>8. \A t \in Directions : t # d =>
        /\ queue'[t] = queue[t] /\ cursor'[t] = cursor[t] /\ cur'[t] = cur[t]
        /\ status'[t] = status[t]
  BY <1>1, <1>6 DEF Trees
<1>17. status[d] \in Status
  BY <1>1 DEF TreeInv, TreeTypes
<1>9. /\ status[d] \in Status
      /\ status'[d] \in Status
      /\ \A f \in Edges : f # e => status'[d][f] = status[d][f]
      /\ status'[d][e].set = "permanent" /\ status'[d][e].idx = status[d][e].idx
  BY <1>4, <1>7, <1>17
<1>10. status[d][e].idx \in DOMAIN labels[d]
  BY <1>1, <1>2 DEF e, TreeInv, LabelledEdges
<1>11. TreeTypes(d)'
  <2>1. labels'[d] \in Seq(Label)'
    BY <1>1, <1>2, <1>7 DEF Label, Edges
  <2>2. queue'[d] \subseteq DOMAIN labels'[d] /\ cursor'[d] \in Int /\ cur'[d] \in 0 .. Len(labels'[d])
    BY <1>1, <1>2, <1>5, <1>7 DEF TreeInv, TreeTypes
  <2>3. \A f \in Edges : status'[d][f].set # "unreached" => status'[d][f].idx \in DOMAIN labels'[d]
    BY <1>1, <1>7, <1>9, <1>10 DEF TreeInv, TreeTypes
  <2>. QED
    BY <1>1, <1>9, <2>1, <2>2, <2>3 DEF TreeTypes, Edges
<1>12. TemporaryIsQueued(d)'
  <2>. SUFFICES ASSUME NEW f \in Edges, status'[d][f].set = "temporary"
                PROVE  status'[d][f].idx \in queue'[d] /\ labels'[d][status'[d][f].idx].edge = f
    BY <1>1 DEF TemporaryIsQueued, Edges
  <2>1. f # e /\ status'[d][f] = status[d][f]
    BY <1>9
  <2>2. status[d][f].idx \in queue[d] /\ labels[d][status[d][f].idx].edge = f
    BY <1>1, <2>1 DEF TreeInv, TemporaryIsQueued
  <2>. QED
    BY <1>7, <2>1, <2>2 DEF e
<1>13. LabelledEdges(d)'
  <2>. SUFFICES ASSUME NEW j \in DOMAIN labels[d]
                PROVE  status'[d][labels[d][j].edge].idx \in DOMAIN labels[d]
    BY <1>7 DEF LabelledEdges
  <2>1. labels[d][j].edge \in Edges
    <3>1. labels[d][j] \in Label
      BY <1>2
    <3>. QED
      BY <3>1 DEF Label
  <2>2. status[d][labels[d][j].edge].idx \in DOMAIN labels[d]
    BY <1>1 DEF TreeInv, LabelledEdges
  <2>. QED
    BY <1>9, <2>1, <2>2
<1>14. ASSUME NEW t \in Directions PROVE TreeInv(t)'
  <2>1. CASE t = d
    BY <1>1, <1>7, <1>11, <1>12, <1>13, <2>1 DEF TreeInv, PredsAreLabels
  <2>2. CASE t # d
    BY <1>1, <1>7, <1>8, <2>2, TreeStays DEF Trees
  <2>. QED
    BY <2>1, <2>2
<1>15. /\ labels' \in [Directions -> Seq(Label)]' /\ queue' \in [Directions -> SUBSET Nat]
       /\ cursor' \in [Directions -> Int] /\ cur' \in [Directions -> Nat]
  BY <1>1, <1>2, <1>5, <1>6, <1>7 DEF Trees, Label, Edges
<1>16. status' \in [Directions -> Status]
  BY <1>1, <1>6, <1>7, <1>9 DEF Trees
<1>. QED
  BY <1>1, <1>2, <1>7, <1>8, <1>14, <1>15, <1>16 DEF Trees, Edges

----------------------------------------------------------------------------
\* The elements of a finite set in some order.
LEMMA SetToSeqType ==
  ASSUME NEW S, IsFiniteSet(S)
  PROVE  SetToSeq(S) \in Seq(S)
<1>1. Cardinality(S) \in Nat /\ ExistsBijection(1 .. Cardinality(S), S)
  BY FS_CardinalityType
<1>2. \E f \in [1 .. Cardinality(S) -> S] : IsInjective(f)
  BY <1>1 DEF ExistsBijection, Bijection, Injection, IsInjective
<1>3. SetToSeq(S) \in [1 .. Cardinality(S) -> S]
  BY <1>2 DEF SetToSeq
<1>. QED
  BY <1>1, <1>3

\* A tree that starts has labels of its candidates, all of them queued, and only edges with
\* such a label are temporarily labelled.
LEMMA SeedKeeps ==
  ASSUME IInv, NEW d \in Directions, Seed(d), labels[d] = <<>>, cur[d] = 0
  PROVE  /\ Trees' /\ cur' = cur /\ cursor' = cursor
         /\ queue'[d] = DOMAIN labels'[d] /\ queue[d] = {}
         /\ \A t \in Directions : t # d => labels'[t] = labels[t] /\ queue'[t] = queue[t]
<1>. DEFINE cands == SetToSeq(Candidates(d))
            Candidate == [edge : Edges, pos : 0 .. Parts]
            Left(c) == IF d = "forward" THEN Parts - c.pos ELSE c.pos
            L(i) == EdgeLabel(d, Along(d, cands[i].edge), 0,
                              PartCost(g, cands[i].edge) * Left(cands[i]), 0)
            new == [i \in DOMAIN cands |-> L(i)]
            Status == [Edges -> [set : {"unreached", "temporary", "permanent"}, idx : Nat]]
            st == [e \in Edges |->
                     IF \E i \in DOMAIN new : new[i].edge = e
                     THEN [set |-> "temporary", idx |-> CHOOSE i \in DOMAIN new : new[i].edge = e]
                     ELSE status[d][e]]
<1>1. /\ g \in Graphs /\ IsLocation(g, origin) /\ IsLocation(g, destination)
      /\ Trees /\ TreeInv(d) /\ g' = g /\ cur' = cur /\ cursor' = cursor
      /\ queue[d] = {} /\ DOMAIN labels[d] = {}
  BY DEF IInv, TypeOK, Trees, Seed, query, TreeInv, TreeTypes
<1>2. cands \in Seq(Candidate)
  <2>1. IsFiniteSet(origin) /\ IsFiniteSet(destination)
    BY <1>1, LocationsAreFinite
  <2>2. Candidates(d) \subseteq origin \/ Candidates(d) \subseteq destination
    BY DEF Candidates
  <2>3. IsFiniteSet(Candidates(d))
    <3>1. CASE Candidates(d) \subseteq origin
      BY <2>1, <3>1, FS_Subset
    <3>2. CASE Candidates(d) \subseteq destination
      BY <2>1, <3>2, FS_Subset
    <3>. QED
      BY <2>2, <3>1, <3>2
  <2>4. Candidates(d) \subseteq Candidate
    BY <1>1, <2>2 DEF IsLocation, Edges
  <2>5. cands \in Seq(Candidates(d))
    BY <2>3, SetToSeqType
  <2>. HIDE DEF cands, Candidate
  <2>. QED
    BY <2>4, <2>5
<1>. HIDE DEF cands, Candidate
<1>3. ASSUME NEW i \in DOMAIN cands PROVE L(i) \in Label /\ L(i).pred = 0
  <2>0. cands[i] \in Candidate
    BY <1>2
  <2>1. cands[i] \in [edge : Edges, pos : 0 .. Parts]
    BY <2>0 DEF Candidate
  <2>2. cands[i].edge \in Edges /\ Along(d, cands[i].edge) \in Edges
    BY <1>1, <2>1, SearchAssumption DEF Along, IsGraph, Edges
  <2>3. Left(cands[i]) \in Nat
    BY <2>1, SearchAssumption
  <2>4. PartCost(g, cands[i].edge) * Left(cands[i]) \in Nat
    BY <1>1, <2>2, <2>3, PartCostType, Product DEF Edges
  <2>. HIDE DEF Left
  <2>. QED
    BY <1>1, <2>2, <2>4, EdgeLabelType
<1>. HIDE DEF L
<1>4. /\ new \in Seq(Label) /\ DOMAIN new = DOMAIN cands
      /\ \A i \in DOMAIN new : new[i].pred = 0
  BY <1>2, <1>3
<1>5. /\ labels' = [labels EXCEPT ![d] = new]
      /\ queue' = [queue EXCEPT ![d] = DOMAIN new]
      /\ status' = [status EXCEPT ![d] = st]
  BY <1>1 DEF Seed, L, cands
<1>. HIDE DEF new
<1>6. \A i \in DOMAIN new : i \in Nat
  BY <1>4
<1>7. st \in Status
  <2>. SUFFICES ASSUME NEW e \in Edges
                PROVE  st[e] \in [set : {"unreached", "temporary", "permanent"}, idx : Nat]
    OBVIOUS
  <2>1. status[d][e] \in [set : {"unreached", "temporary", "permanent"}, idx : Nat]
    BY <1>1 DEF TreeInv, TreeTypes
  <2>. QED
    BY <1>6, <2>1
<1>8. \A e \in Edges :
        IF \E i \in DOMAIN new : new[i].edge = e
        THEN st[e].set = "temporary" /\ st[e].idx \in DOMAIN new /\ new[st[e].idx].edge = e
        ELSE st[e] = status[d][e] /\ st[e].set = "unreached"
  <2>1. \A e \in Edges : status[d][e].set = "unreached"
    BY <1>1 DEF TreeInv, TreeTypes
  <2>. QED
    BY <2>1
<1>. HIDE DEF st
<1>9. /\ labels'[d] = new /\ queue'[d] = DOMAIN new /\ status'[d] = st
      /\ \A t \in Directions : t # d =>
           labels'[t] = labels[t] /\ queue'[t] = queue[t] /\ status'[t] = status[t]
  BY <1>1, <1>5 DEF Trees
<1>10. TreeInv(d)'
  <2>1. TreeTypes(d)'
    <3>1. labels'[d] \in Seq(Label)'
      BY <1>1, <1>4, <1>9 DEF Label, Edges
    <3>2. cursor'[d] \in Int /\ cur'[d] \in 0 .. Len(labels'[d])
      BY <1>1, <1>4, <1>9 DEF TreeInv, TreeTypes
    <3>. QED
      BY <1>1, <1>7, <1>8, <1>9, <3>1, <3>2 DEF TreeTypes, Edges
  <2>2. TemporaryIsQueued(d)'
    BY <1>1, <1>8, <1>9 DEF TemporaryIsQueued, Edges
  <2>3. LabelledEdges(d)'
    <3>. SUFFICES ASSUME NEW i \in DOMAIN new PROVE st[new[i].edge].idx \in DOMAIN new
      BY <1>9 DEF LabelledEdges
    <3>1. new[i] \in Label
      BY <1>4
    <3>2. new[i].edge \in Edges
      BY <3>1 DEF Label
    <3>. QED
      BY <1>8, <3>2
  <2>4. cur'[d] \notin queue'[d]
    BY <1>1, <1>4, <1>9
  <2>5. PredsAreLabels(d)'
    <3>1. Len(new) \in Nat
      BY <1>4
    <3>. QED
      BY <1>4, <1>9, <3>1 DEF PredsAreLabels
  <2>. QED
    BY <2>1, <2>2, <2>3, <2>4, <2>5 DEF TreeInv
<1>11. ASSUME NEW t \in Directions PROVE TreeInv(t)'
  <2>1. CASE t = d
    BY <1>10, <2>1
  <2>2. CASE t # d
    BY <1>1, <1>9, <2>2, TreeStays DEF Trees
  <2>. QED
    BY <2>1, <2>2
<1>12. /\ labels' \in [Directions -> Seq(Label)]' /\ queue' \in [Directions -> SUBSET Nat]
       /\ cursor' \in [Directions -> Int] /\ cur' \in [Directions -> Nat]
  BY <1>1, <1>4, <1>5, <1>6 DEF Trees, Label, Edges
<1>13. status' \in [Directions -> Status]
  BY <1>1, <1>5, <1>7 DEF Trees
<1>. QED
  BY <1>1, <1>9, <1>11, <1>12, <1>13 DEF Trees, Edges

----------------------------------------------------------------------------
\* The label that is expanded.
LEMMA LastType ==
  ASSUME IInv, pc = "expand"
  PROVE  /\ g \in Graphs /\ side \in Directions /\ TreeInv(side)
         /\ cur[side] \in DOMAIN labels[side] /\ last \in Label
<1>1. g \in Graphs /\ side \in Directions /\ TreeInv(side) /\ cur[side] # 0
  BY DEF IInv, TypeOK, Trees
<1>2. cur[side] \in DOMAIN labels[side] /\ labels[side] \in Seq(Label)
  BY <1>1 DEF TreeInv, TreeTypes
<1>. QED
  BY <1>1, <1>2 DEF last

\* The edges at the end of that label.
LEMMA ExpandedEdges ==
  ASSUME IInv, pc = "expand"
  PROVE  /\ Back \in Edges /\ Len(Out) \in Nat
         /\ k <= Len(Out) => Out[k] \in Edges
<1>1. last.edge \in Edges /\ IsGraph(g)
  BY LastType, SearchAssumption DEF Label
<1>2. Back \in Edges /\ EndNode \in DOMAIN g.x
  BY <1>1 DEF Back, EndNode, Edges, IsGraph
<1>3. Out \in Seq(Edges)
  BY <1>1, <1>2 DEF Out, Edges, IsGraph
<1>4. k \in 1 .. Len(Out) + 1
  BY DEF IInv, TypeOK
<1>. QED
  BY <1>2, <1>3, <1>4

\* What a new label of an edge is.
LEMMA NextLabelType ==
  ASSUME IInv, pc = "expand", NEW e \in Edges
  PROVE  /\ NextLabel(e) \in Label /\ NextLabel(e).edge = e
         /\ NextLabel(e).pred = cur[side]
<1>. DEFINE turn == Turn(side, last.edge, e)
            cost == last.cost + turn + Parts * PartCost(g, Along(side, e))
<1>1. /\ g \in Graphs /\ IsGraph(g) /\ side \in Directions /\ last \in Label
      /\ cur[side] \in Nat
      /\ IsLocation(g, origin) /\ IsLocation(g, destination)
  BY LastType, SearchAssumption DEF IInv, Trees
<1>2. last.edge \in Edges /\ last.cost \in Nat
  BY <1>1 DEF Label
<1>3. g.opp \in [Edges -> Edges] /\ g.penalty \in [Edges -> [Edges -> Nat]]
  BY <1>1 DEF IsGraph, Edges
<1>4. turn \in Nat /\ Along(side, e) \in Edges
  BY <1>2, <1>3 DEF Turn, Along
<1>5. Parts * PartCost(g, Along(side, e)) \in Nat
  BY <1>1, <1>4, PartCostType, Product, SearchAssumption DEF Edges
<1>. HIDE DEF turn
<1>6. cost \in Nat
  BY <1>2, <1>4, <1>5
<1>. HIDE DEF cost
<1>7. /\ EdgeLabel(side, e, cur[side], cost, turn) \in Label
      /\ EdgeLabel(side, e, cur[side], cost, turn).edge = e
      /\ EdgeLabel(side, e, cur[side], cost, turn).pred = cur[side]
  BY <1>1, <1>4, <1>6, EdgeLabelType
<1>. QED
  BY <1>7 DEF NextLabel, turn, cost

\* How a tree may grow: labels are appended and queued, labels keep their edges, and labels
\* still queued get cheaper.
Grows(d) ==
  /\ Len(labels'[d]) >= Len(labels[d])
  /\ queue'[d] = queue[d] \cup (Len(labels[d]) + 1 .. Len(labels'[d]))
  /\ \A j \in DOMAIN labels[d] : labels'[d][j].edge = labels[d][j].edge
  /\ \A j \in DOMAIN labels[d] :
       \/ labels'[d][j].sort = labels[d][j].sort
       \/ j \in queue[d] /\ labels'[d][j].sort < labels[d][j].sort

\* A better way to an edge lowers the label it has in the queue.
LEMMA UpdateKeeps ==
  ASSUME IInv, pc = "expand", NEW e \in Edges, status[side][e].set = "temporary", Update(e),
         UNCHANGED <<g, cursor, cur, side>>
  PROVE  /\ Trees' /\ Grows(side)
         /\ \A t \in Directions : t # side => labels'[t] = labels[t] /\ queue'[t] = queue[t]
<1>. DEFINE i == status[side][e].idx
            new == NextLabel(e)
            old == labels[side][i]
            upd == [new EXCEPT !.sort = old.sort - (old.cost - new.cost)]
<1>1. /\ side \in Directions /\ Trees /\ TreeInv(side) /\ queue' = queue /\ status' = status
      /\ labels[side] \in Seq(Label) /\ side' = side /\ g' = g /\ cursor' = cursor /\ cur' = cur
  BY LastType DEF IInv, Update, TreeInv, TreeTypes
<1>2. i \in queue[side] /\ old.edge = e /\ i \in DOMAIN labels[side] /\ old \in Label
  BY <1>1 DEF TreeInv, TreeTypes, TemporaryIsQueued
<1>3. new \in Label /\ new.edge = e /\ new.pred = cur[side]
  BY NextLabelType
<1>4. /\ new.cost \in Nat /\ old.cost \in Nat /\ old.sort \in Int
  BY <1>2, <1>3 DEF Label
<1>5. labels' = IF new.cost < old.cost THEN [labels EXCEPT ![side] = [labels[side] EXCEPT ![i] = upd]]
                ELSE labels
  BY <1>1 DEF Update, Trees
<1>. HIDE DEF new, i, old
<1>6. /\ upd \in Label /\ upd.edge = e /\ upd.pred = cur[side]
      /\ upd.sort = old.sort - (old.cost - new.cost)
  BY <1>3, <1>4 DEF Label
<1>. HIDE DEF upd
<1>7. CASE ~(new.cost < old.cost)
  <2>1. labels' = labels
    BY <1>5, <1>7
  <2>2. Grows(side)
    <3>1. Len(labels[side]) \in Nat
      BY <1>1
    <3>. QED
      BY <1>1, <2>1, <3>1 DEF Grows
  <2>3. \A t \in Directions : TreeInv(t)'
    BY <1>1, <2>1, TreeStays DEF Trees
  <2>. QED
    BY <1>1, <2>1, <2>2, <2>3 DEF Trees, Label, Edges
<1>8. CASE new.cost < old.cost
  <2>1. /\ labels'[side] = [labels[side] EXCEPT ![i] = upd]
        /\ \A t \in Directions : t # side => labels'[t] = labels[t]
        /\ labels' \in [Directions -> Seq(Label)]
    BY <1>1, <1>2, <1>5, <1>6, <1>8 DEF Trees
  <2>2. /\ labels'[side] \in Seq(Label) /\ Len(labels'[side]) = Len(labels[side])
        /\ Len(labels[side]) \in Nat /\ DOMAIN labels'[side] = DOMAIN labels[side]
        /\ labels'[side][i] = upd
        /\ \A j \in DOMAIN labels[side] : j # i => labels'[side][j] = labels[side][j]
    BY <1>1, <1>2, <1>6, <2>1
  <2>3. upd.sort < old.sort
    BY <1>4, <1>6, <1>8
  <2>5. \A j \in DOMAIN labels[side] : labels'[side][j].edge = labels[side][j].edge
    BY <1>2, <1>6, <2>2 DEF old
  <2>4. Grows(side)
    BY <1>1, <1>2, <2>2, <2>3, <2>5 DEF Grows, old
  <2>6. TreeInv(side)'
    <3>1. TreeTypes(side)'
      BY <1>1, <2>2 DEF TreeInv, TreeTypes, Label, Edges
    <3>2. TemporaryIsQueued(side)'
      BY <1>1, <2>5 DEF TreeInv, TreeTypes, TemporaryIsQueued, Edges
    <3>3. LabelledEdges(side)'
      BY <1>1, <2>2, <2>5 DEF TreeInv, LabelledEdges
    <3>4. PredsAreLabels(side)'
      BY <1>1, <1>6, <2>2 DEF TreeInv, TreeTypes, PredsAreLabels
    <3>. QED
      BY <1>1, <3>1, <3>2, <3>3, <3>4 DEF TreeInv
  <2>7. \A t \in Directions : TreeInv(t)'
    BY <1>1, <2>1, <2>6, TreeStays DEF Trees
  <2>. QED
    BY <1>1, <2>1, <2>4, <2>7 DEF Trees, Label, Edges
<1>. QED
  BY <1>7, <1>8

\* A new label is queued, and its edge knows it.
LEMMA AddKeeps ==
  ASSUME IInv, pc = "expand", NEW e \in Edges, Add(e), UNCHANGED <<g, cursor, cur, side>>
  PROVE  /\ Trees' /\ Grows(side)
         /\ \A t \in Directions : t # side => labels'[t] = labels[t] /\ queue'[t] = queue[t]
<1>. DEFINE i == Len(labels[side]) + 1
            new == NextLabel(e)
            Status == [Edges -> [set : {"unreached", "temporary", "permanent"}, idx : Nat]]
            mark == [set |-> "temporary", idx |-> i]
<1>1. /\ side \in Directions /\ Trees /\ TreeInv(side) /\ labels[side] \in Seq(Label)
      /\ side' = side /\ g' = g /\ cursor' = cursor /\ cur' = cur
      /\ queue[side] \subseteq DOMAIN labels[side] /\ status[side] \in Status
  BY LastType DEF IInv, TreeInv, TreeTypes
<1>2. new \in Label /\ new.edge = e /\ new.pred = cur[side]
  BY NextLabelType
<1>. HIDE DEF new
<1>3. /\ labels' = [labels EXCEPT ![side] = Append(labels[side], new)]
      /\ queue' = [queue EXCEPT ![side] = queue[side] \cup {i}]
      /\ status' = [status EXCEPT ![side] = [status[side] EXCEPT ![e] = mark]]
  BY <1>1 DEF Add, Trees, new
<1>4. /\ i \in Nat /\ Len(labels[side]) \in Nat /\ DOMAIN labels[side] = 1 .. Len(labels[side])
      /\ i \notin DOMAIN labels[side]
  BY <1>1
<1>5. /\ labels'[side] = Append(labels[side], new)
      /\ queue'[side] = queue[side] \cup {i}
      /\ status'[side] = [status[side] EXCEPT ![e] = mark]
      /\ \A t \in Directions : t # side =>
           labels'[t] = labels[t] /\ queue'[t] = queue[t] /\ status'[t] = status[t]
  BY <1>1, <1>3 DEF Trees
<1>6. /\ labels'[side] \in Seq(Label) /\ Len(labels'[side]) = i
      /\ DOMAIN labels'[side] = DOMAIN labels[side] \cup {i}
      /\ labels'[side][i] = new
      /\ \A j \in DOMAIN labels[side] : labels'[side][j] = labels[side][j]
  BY <1>1, <1>2, <1>4, <1>5
<1>. HIDE DEF i
<1>7. Grows(side)
  <2>1. Len(labels[side]) + 1 .. Len(labels'[side]) = {i}
    BY <1>4, <1>6 DEF i
  <2>2. Len(labels'[side]) >= Len(labels[side])
    BY <1>4, <1>6 DEF i
  <2>. QED
    BY <1>5, <1>6, <2>1, <2>2 DEF Grows
<1>8. /\ status'[side] \in Status /\ status'[side][e] = mark
      /\ \A f \in Edges : f # e => status'[side][f] = status[side][f]
  BY <1>1, <1>4, <1>5
<1>9. TreeTypes(side)'
  <2>1. labels'[side] \in Seq(Label)' /\ queue'[side] \subseteq DOMAIN labels'[side]
    BY <1>1, <1>5, <1>6 DEF Label, Edges
  <2>2. cur'[side] \in 0 .. Len(labels'[side]) /\ cursor'[side] \in Int
    BY <1>1, <1>4, <1>6 DEF TreeInv, TreeTypes, i
  <2>3. \A f \in Edges : status'[side][f].set # "unreached" => status'[side][f].idx \in DOMAIN labels'[side]
    BY <1>1, <1>6, <1>8 DEF TreeInv, TreeTypes
  <2>. QED
    BY <1>1, <1>8, <2>1, <2>2, <2>3 DEF TreeTypes, Edges
<1>10. TemporaryIsQueued(side)'
  <2>. SUFFICES ASSUME NEW f \in Edges, status'[side][f].set = "temporary"
                PROVE  /\ status'[side][f].idx \in queue'[side]
                       /\ labels'[side][status'[side][f].idx].edge = f
    BY <1>1 DEF TemporaryIsQueued, Edges
  <2>1. CASE f = e
    BY <1>2, <1>5, <1>6, <1>8, <2>1
  <2>2. CASE f # e
    <3>1. status[side][f].idx \in queue[side] /\ labels[side][status[side][f].idx].edge = f
      BY <1>1, <1>8, <2>2 DEF TreeInv, TemporaryIsQueued
    <3>. QED
      BY <1>1, <1>5, <1>6, <1>8, <2>2, <3>1
  <2>. QED
    BY <2>1, <2>2
<1>11. LabelledEdges(side)'
  <2>. SUFFICES ASSUME NEW j \in DOMAIN labels'[side]
                PROVE  status'[side][labels'[side][j].edge].idx \in DOMAIN labels'[side]
    BY <1>1 DEF LabelledEdges
  <2>1. labels'[side][j].edge \in Edges
    <3>1. labels'[side][j] \in Label
      BY <1>6
    <3>. QED
      BY <3>1 DEF Label
  <2>2. CASE labels'[side][j].edge = e
    BY <1>6, <1>8, <2>2
  <2>3. CASE labels'[side][j].edge # e
    <3>1. j \in DOMAIN labels[side]
      BY <1>2, <1>6, <2>3
    <3>. QED
      BY <1>1, <1>6, <1>8, <2>1, <2>3, <3>1 DEF TreeInv, LabelledEdges
  <2>. QED
    BY <2>2, <2>3
<1>12. cur'[side] \notin queue'[side]
  BY <1>1, <1>4, <1>5 DEF TreeInv, TreeTypes, i
<1>13. TreeInv(side)'
  <2>1. PredsAreLabels(side)'
    <3>. SUFFICES ASSUME NEW j \in DOMAIN labels'[side]
                  PROVE  labels'[side][j].pred \in 0 .. Len(labels'[side])
      BY <1>1 DEF PredsAreLabels
    <3>1. Len(labels'[side]) = Len(labels[side]) + 1
      BY <1>6 DEF i
    <3>2. CASE j \in DOMAIN labels[side]
      <4>1. labels[side][j].pred \in 0 .. Len(labels[side])
        BY <1>1, <3>2 DEF TreeInv, PredsAreLabels
      <4>2. labels'[side][j].pred = labels[side][j].pred
        BY <1>6, <3>2
      <4>. QED
        BY <1>4, <3>1, <4>1, <4>2
    <3>3. CASE j = i
      <4>1. cur[side] \in 0 .. Len(labels[side])
        BY <1>1 DEF TreeInv, TreeTypes
      <4>2. labels'[side][j].pred = cur[side]
        BY <1>2, <1>6, <3>3
      <4>. QED
        BY <1>4, <3>1, <4>1, <4>2
    <3>. QED
      BY <1>6, <3>2, <3>3
  <2>. QED
    BY <1>9, <1>10, <1>11, <1>12, <2>1 DEF TreeInv
<1>14. \A t \in Directions : TreeInv(t)'
  BY <1>1, <1>5, <1>13, TreeStays DEF Trees
<1>15. /\ labels' \in [Directions -> Seq(Label)] /\ queue' \in [Directions -> SUBSET Nat]
       /\ status' \in [Directions -> Status]
  <2>1. queue'[side] \subseteq Nat /\ queue \in [Directions -> SUBSET Nat]
    BY <1>1, <1>4, <1>5 DEF Trees
  <2>. QED
    BY <1>1, <1>3, <1>5, <1>6, <1>8, <2>1 DEF Trees
<1>. QED
  BY <1>1, <1>5, <1>7, <1>14, <1>15 DEF Trees, Label, Edges

\* A reset leaves the label of the edge behind, and no edge is temporarily labelled by it.
LEMMA ResetKeeps ==
  ASSUME IInv, pc = "expand", Reset, UNCHANGED <<g, cursor, cur, side>>
  PROVE  Trees' /\ UNCHANGED <<labels, queue>>
<1>. DEFINE e == last.edge
            Status == [Edges -> [set : {"unreached", "temporary", "permanent"}, idx : Nat]]
<1>1. /\ side \in Directions /\ Trees /\ TreeInv(side) /\ status[side] \in Status
      /\ side' = side /\ g' = g /\ cursor' = cursor /\ cur' = cur
      /\ labels' = labels /\ queue' = queue
  BY LastType DEF IInv, TreeInv, TreeTypes, Reset
<1>2. e \in Edges
  BY LastType DEF Label
<1>3. status' = [status EXCEPT ![side] = [status[side] EXCEPT ![e] = [status[side][e] EXCEPT !.set = "unreached"]]]
  BY DEF Reset
<1>. HIDE DEF e
<1>4. /\ status'[side] = [status[side] EXCEPT ![e] = [status[side][e] EXCEPT !.set = "unreached"]]
      /\ \A t \in Directions : t # side => status'[t] = status[t]
  BY <1>1, <1>3 DEF Trees
<1>5. /\ status'[side] \in Status
      /\ \A f \in Edges : f # e => status'[side][f] = status[side][f]
      /\ status'[side][e].set = "unreached" /\ status'[side][e].idx = status[side][e].idx
  BY <1>1, <1>2, <1>4
<1>6. \A f \in Edges : status'[side][f].idx = status[side][f].idx
  BY <1>5
<1>7. TreeInv(side)'
  <2>1. TreeTypes(side)'
    BY <1>1, <1>5 DEF TreeInv, TreeTypes, Label, Edges
  <2>2. TemporaryIsQueued(side)'
    BY <1>1, <1>5 DEF TreeInv, TemporaryIsQueued, Edges
  <2>3. LabelledEdges(side)'
    <3>. SUFFICES ASSUME NEW j \in DOMAIN labels[side]
                  PROVE  status'[side][labels[side][j].edge].idx \in DOMAIN labels[side]
      BY <1>1 DEF LabelledEdges
    <3>1. labels[side][j] \in Label
      BY <1>1 DEF TreeInv, TreeTypes
    <3>2. labels[side][j].edge \in Edges
      BY <3>1 DEF Label
    <3>. QED
      BY <1>1, <1>6, <3>2 DEF TreeInv, LabelledEdges
  <2>. QED
    BY <1>1, <2>1, <2>2, <2>3 DEF TreeInv, PredsAreLabels
<1>8. \A t \in Directions : TreeInv(t)'
  BY <1>1, <1>4, <1>7, TreeStays DEF Trees
<1>9. status' \in [Directions -> Status]
  BY <1>1, <1>3, <1>4, <1>5 DEF Trees
<1>. QED
  BY <1>1, <1>8, <1>9 DEF Trees, Label, Edges

\* ExpandInner keeps both trees; only the one that is expanded grows.
LEMMA ExpandInnerKeeps ==
  ASSUME IInv, pc = "expand", NEW e \in Edges, NEW deadend, ExpandInner(e, deadend),
         UNCHANGED <<g, cursor, cur, side>>
  PROVE  /\ Trees' /\ (Grows(side) \/ UNCHANGED <<labels, queue>>)
         /\ \A t \in Directions : t # side => labels'[t] = labels[t] /\ queue'[t] = queue[t]
<1>1. CASE UNCHANGED <<labels, queue, status>>
  <2>1. \A t \in Directions : TreeInv(t)'
    BY <1>1, TreeStays DEF IInv, Trees
  <2>. QED
    BY <1>1, <2>1 DEF IInv, Trees, Label, Edges
<1>2. CASE Reset
  BY <1>2, ResetKeeps
<1>3. CASE status[side][e].set = "temporary" /\ Update(e)
  BY <1>3, UpdateKeeps
<1>4. CASE Add(e)
  BY <1>4, AddKeeps
<1>. QED
  BY <1>1, <1>2, <1>3, <1>4 DEF ExpandInner

----------------------------------------------------------------------------
\* The types of what is not kept for each direction.
Control ==
  /\ expand \in (SUBSET Directions) \ {{}}
  /\ best = NoConnection \/ best \in [edge : Edges, cost : Nat]
  /\ side \in Directions /\ could \in BOOLEAN
  /\ pc \in {"origin", "destination", "choose", "expand", "done", "failed"} \cup Directions
  /\ pc = "expand" => k \in 1 .. Len(Out) + 1

\* The parts of the invariant, one by one.
LEMMA Parted ==
  ASSUME IInv, UNCHANGED query, Trees', Control', Stages'
  PROVE  IInv'
<1>1. \A d \in Directions : TreeTypes(d)'
  BY DEF Trees, TreeInv
<1>2. side' \in Directions /\ (pc' = "expand" => cur'[side'] # 0)
  BY DEF Control, Stages
<1>3. g' \in Graphs
  BY DEF IInv, TypeOK, query
<1>4. TypeOK'
  BY <1>1, <1>2, <1>3 DEF TypeOK, TreeTypes, Trees, Control
<1>5. IsLocation(g, origin)' /\ IsLocation(g, destination)'
  BY DEF IInv, IsLocation, query
<1>. QED
  BY <1>4, <1>5 DEF IInv

\* A connection has a cost.
LEMMA ConnectionCostType ==
  ASSUME IInv, NEW d \in Directions, NEW i \in queue[d], Meets(d, i)
  PROVE  ConnectionCost(d, i) \in Nat /\ Along(d, labels[d][i].edge) \in Edges
<1>. DEFINE l == labels[d][i]
            o == Opposite(d, i)
<1>1. /\ IsGraph(g) /\ Other(d) \in Directions
      /\ TreeInv(d) /\ TreeInv(Other(d))
  BY SearchAssumption DEF IInv, TypeOK, Trees, Other, Directions
<1>2. /\ labels[d] \in Seq(Label) /\ labels[Other(d)] \in Seq(Label)
      /\ i \in DOMAIN labels[d]
  BY <1>1 DEF TreeInv, TreeTypes
<1>3. l \in Label
  BY <1>2
<1>4. l.edge \in Edges /\ g.opp[l.edge] \in Edges
  BY <1>1, <1>3 DEF Label, IsGraph, Edges
<1>5. OppStatus(d, i).idx \in DOMAIN labels[Other(d)]
  <2>1. OppStatus(d, i).set # "unreached"
    BY DEF Meets
  <2>. QED
    BY <1>1, <1>4, <2>1 DEF OppStatus, TreeInv, TreeTypes
<1>6. o \in Label
  BY <1>2, <1>5 DEF Opposite
<1>7. /\ l.pred # 0 => labels[d][l.pred].cost \in Nat
      /\ o.pred # 0 => labels[Other(d)][o.pred].cost \in Nat
  <2>1. l.pred \in 0 .. Len(labels[d]) /\ o.pred \in 0 .. Len(labels[Other(d)])
    BY <1>1, <1>2, <1>5 DEF TreeInv, PredsAreLabels, Opposite
  <2>2. /\ l.pred # 0 => labels[d][l.pred] \in Label
        /\ o.pred # 0 => labels[Other(d)][o.pred] \in Label
    BY <1>2, <2>1
  <2>. QED
    BY <2>2 DEF Label
<1>8. /\ l.cost \in Nat /\ l.turn \in Nat /\ o.cost \in Nat /\ o.turn \in Nat
  BY <1>3, <1>6 DEF Label
<1>9. Along(d, l.edge) \in Edges
  BY <1>4 DEF Along
<1>10. ConnectionCost(d, i) =
         IF l.pred # 0
         THEN (IF l.pred = 0 THEN 0 ELSE labels[d][l.pred].cost) + o.cost + l.turn
         ELSE l.cost + (IF o.pred = 0 THEN 0 ELSE labels[Other(d)][o.pred].cost) + o.turn
  BY DEF ConnectionCost
<1>. HIDE DEF l, o
<1>. QED
  BY <1>7, <1>8, <1>9, <1>10 DEF l

\* The edges at the end of what was popped last.
LEMMA OutIsFinite ==
  ASSUME NEW gr \in Graphs, NEW e \in DOMAIN gr.head
  PROVE  Len(gr.out[gr.head[e]]) \in Nat
<1>1. gr.out[gr.head[e]] \in Seq(DOMAIN gr.head)
  BY SearchAssumption DEF IsGraph
<1>. QED
  BY <1>1

\* Popping keeps the invariant, whatever becomes of the label.
LEMMA PopStepKeeps ==
  ASSUME IInv, NEW d \in Directions, NEW i \in queue[d],
         Stop(d, i) \/ Connect(d, i) \/ PopOther(d, i)
  PROVE  IInv'
<1>1. /\ Pop(d, i) /\ UNCHANGED <<query, labels, expand, expansion>> /\ pc = d
  BY DEF Stop, Connect, PopOther, Pop
<1>2. /\ Trees' /\ cur'[d] # 0 /\ \A t \in Directions : t # d => cur'[t] = cur[t]
  BY <1>1, PopKeeps
<1>3. /\ expand \in (SUBSET Directions) \ {{}} /\ side \in Directions
      /\ could \in BOOLEAN /\ g' = g
      /\ best = NoConnection \/ best \in [edge : Edges, cost : Nat]
  BY <1>1 DEF IInv, TypeOK, query
<1>4. best' = NoConnection \/ best' \in [edge : Edges, cost : Nat]
  <2>1. CASE best' = best
    BY <1>3, <2>1
  <2>2. CASE best' # best
    <3>1. /\ Meets(d, i)
          /\ best' = [edge |-> Along(d, labels[d][i].edge), cost |-> ConnectionCost(d, i)]
      BY <2>2 DEF Stop, Connect, PopOther, Connects
    <3>. QED
      BY <3>1, ConnectionCostType
  <2>. QED
    BY <2>1, <2>2
<1>5. pc' \in {"done", "choose"} \cup Directions /\ pc' # "expand"
  BY DEF Stop, Done, Connect, PopOther, Directions
<1>6. Control'
  <2>1. side' = side /\ could' = could /\ expand' = expand
    BY <1>1 DEF expansion
  <2>2. could' \in BOOLEAN
    BY <1>3, <2>1
  <2>3. Edges' = Edges
    BY <1>3 DEF Edges
  <2>. QED
    BY <1>3, <1>4, <1>5, <2>1, <2>2, <2>3 DEF Control
<1>7. Stages'
  <2>1. /\ d = "reverse" => cur["forward"] # 0
        /\ expand # Directions => \A t \in Directions : cur[t] # 0
    BY <1>1 DEF IInv, Stages
  <2>2. /\ d = "reverse" => cur'["forward"] # 0
        /\ d = "forward" => cur'["forward"] # 0
        /\ expand # Directions => \A t \in Directions : cur'[t] # 0
    BY <1>2, <2>1 DEF Directions
  <2>3. \/ pc' \notin {"reverse", "choose"}
        \/ pc' = "reverse" /\ (d = "forward" \/ expand # Directions)
        \/ pc' = "choose" /\ (d = "reverse" \/ expand # Directions)
    BY <1>1, <1>3 DEF Stop, Done, Connect, PopOther, Directions
  <2>4. pc' = "reverse" => cur'["forward"] # 0
    BY <2>2, <2>3 DEF Directions
  <2>5. pc' = "choose" => \A t \in Directions : cur'[t] # 0
    BY <1>2, <2>2, <2>3 DEF Directions
  <2>6. pc' \notin {"origin", "destination", "expand"} /\ expand' = expand
    BY <1>1, <1>5 DEF Directions
  <2>. QED
    BY <2>2, <2>4, <2>5, <2>6 DEF Stages
<1>. QED
  BY <1>1, <1>2, <1>6, <1>7, Parted

\* Seeding a tree keeps the invariant.
LEMMA SeedStepKeeps ==
  ASSUME IInv, SetOrigin \/ SetDestination
  PROVE  IInv'
<1>. DEFINE d == IF pc = "origin" THEN "forward" ELSE "reverse"
<1>1. /\ d \in Directions /\ Seed(d) /\ labels[d] = <<>> /\ cur[d] = 0
      /\ pc = "origin" => pc' = "destination"
      /\ pc # "origin" => pc' = "forward"
  BY DEF SetOrigin, SetDestination, IInv, Stages, Directions
<1>2. /\ Trees' /\ cur' = cur
      /\ \A t \in Directions : t # d => labels'[t] = labels[t]
  BY <1>1, SeedKeeps
<1>3. UNCHANGED <<query, expand, best, expansion>> /\ g' = g
  BY <1>1 DEF Seed, query
<1>4. Control'
  <2>1. /\ side' = side /\ could' = could /\ k' = k /\ pc' \in {"destination", "forward"}
        /\ Edges' = Edges
    BY <1>1, <1>3 DEF expansion, Edges
  <2>2. could' \in BOOLEAN
    BY <2>1 DEF IInv, TypeOK
  <2>3. /\ expand \in (SUBSET Directions) \ {{}} /\ side \in Directions
        /\ best = NoConnection \/ best \in [edge : Edges, cost : Nat]
    BY DEF IInv, TypeOK
  <2>. QED
    BY <1>3, <2>1, <2>2, <2>3 DEF Control, Directions
<1>5. Stages'
  <2>1. expand # Directions => \A t \in Directions : cur[t] # 0
    BY DEF IInv, Stages
  <2>2. pc = "origin" => labels["reverse"] = <<>> /\ cur["reverse"] = 0
    BY DEF IInv, Stages, Directions
  <2>3. pc = "origin" => labels'["reverse"] = <<>> /\ cur'["reverse"] = 0
    BY <1>2, <2>2 DEF Directions
  <2>. QED
    BY <1>1, <1>2, <1>3, <2>1, <2>3 DEF Stages
<1>. QED
  BY <1>2, <1>3, <1>4, <1>5, Parted

\* Steps that leave both trees alone.
LEMMA TreesStay ==
  ASSUME IInv, UNCHANGED <<query, labels, queue, cursor, status, cur>>
  PROVE  Trees' /\ g' = g /\ Edges' = Edges
<1>1. g' = g /\ Edges' = Edges
  BY DEF query, Edges
<1>2. \A t \in Directions : TreeInv(t)'
  BY <1>1, TreeStays DEF IInv, Trees
<1>. QED
  BY <1>1, <1>2 DEF IInv, Trees, Label

\* Choosing the direction to expand, with a label popped in both.
LEMMA ChooseKeeps == ASSUME IInv, Choose PROVE IInv'
<1>. DEFINE d == IF labels["forward"][cur["forward"]].sort < labels["reverse"][cur["reverse"]].sort
                 THEN "forward" ELSE "reverse"
<1>1. /\ UNCHANGED <<query, labels, queue, cursor, status, cur, best, path>> /\ pc = "choose"
      /\ side' = d /\ expand' = {d} /\ k' = 1 /\ could' = FALSE /\ pc' \in {d, "expand"}
  BY DEF Choose
<1>2. d \in Directions
  BY DEF Directions
<1>. HIDE DEF d
<1>3. Trees' /\ g' = g /\ Edges' = Edges
  BY <1>1, TreesStay
<1>4. \A t \in Directions : cur[t] # 0
  BY <1>1 DEF IInv, Stages
<1>5. Len(Out') \in Nat
  <2>1. cur[d] \in DOMAIN labels[d] /\ labels[d] \in Seq(Label) /\ g \in Graphs
    BY <1>2, <1>4 DEF IInv, Trees, TreeInv, TreeTypes, TypeOK
  <2>2. labels[d][cur[d]] \in Label
    BY <2>1
  <2>3. labels[d][cur[d]].edge \in DOMAIN g.head
    BY <2>2 DEF Label, Edges
  <2>4. Out' = g.out[g.head[labels[d][cur[d]].edge]]
    BY <1>1, <1>3 DEF Out, EndNode, last
  <2>. QED
    BY <2>1, <2>3, <2>4, OutIsFinite
<1>6. Control'
  <2>1. best' = NoConnection \/ best' \in [edge : Edges', cost : Nat]
    BY <1>1, <1>3 DEF IInv, TypeOK
  <2>2. expand' \in (SUBSET Directions) \ {{}} /\ side' \in Directions
    BY <1>1, <1>2
  <2>3. could' \in BOOLEAN
    BY <1>1
  <2>4. pc' \in {"expand"} \cup Directions /\ k' \in 1 .. Len(Out') + 1
    BY <1>1, <1>2, <1>5
  <2>. QED
    BY <2>1, <2>2, <2>3, <2>4 DEF Control
<1>7. Stages'
  <2>1. \A t \in Directions : cur'[t] # 0
    BY <1>1, <1>4
  <2>2. pc' \notin {"origin", "destination"}
    BY <1>1, <1>2 DEF Directions
  <2>. QED
    BY <2>1, <2>2 DEF Stages, Directions
<1>. QED
  BY <1>1, <1>3, <1>6, <1>7, Parted

\* A tree that is exhausted ends the search.
LEMMA ExhaustedKeeps == ASSUME IInv, NEW d \in Directions, Exhausted(d) PROVE IInv'
<1>1. /\ UNCHANGED <<query, labels, queue, cursor, status, cur, expand, best, expansion>>
      /\ pc' \in {"done", "failed"}
  BY DEF Exhausted, Done
<1>2. Trees' /\ g' = g /\ Edges' = Edges
  BY <1>1, TreesStay
<1>3. Control'
  <2>1. /\ best' = NoConnection \/ best' \in [edge : Edges', cost : Nat]
        /\ expand' \in (SUBSET Directions) \ {{}} /\ side' \in Directions
    BY <1>1, <1>2 DEF IInv, TypeOK, expansion
  <2>2. could' \in BOOLEAN
    BY <1>1 DEF IInv, TypeOK, expansion
  <2>. QED
    BY <1>1, <2>1, <2>2 DEF Control
<1>4. Stages'
  BY <1>1 DEF IInv, Stages
<1>. QED
  BY <1>1, <1>2, <1>3, <1>4, Parted

\* Expanding a label, an edge at a time.
LEMMA ExpandStepKeeps ==
  ASSUME IInv, Expanding, NEW e \in Edges, NEW deadend, ExpandInner(e, deadend),
         pc' = side \/ (pc' = pc /\ k <= Len(Out) /\ k' = k + 1)
  PROVE  IInv'
<1>1. /\ pc = "expand" /\ UNCHANGED <<query, cursor, cur, expand, best, side, path>>
      /\ g' = g /\ Edges' = Edges
  BY DEF Expanding, query, Edges
<1>2. Trees' /\ (Grows(side) \/ UNCHANGED <<labels, queue>>)
  BY <1>1, ExpandInnerKeeps
<1>3. /\ side \in Directions /\ cur[side] \in DOMAIN labels[side]
      /\ \A t \in Directions : cur[t] # 0
      /\ k \in 1 .. Len(Out) + 1 /\ Len(Out) \in Nat
  BY <1>1, LastType, ExpandedEdges DEF IInv, Stages, TypeOK
<1>4. labels'[side][cur[side]].edge = labels[side][cur[side]].edge
  BY <1>2, <1>3 DEF Grows
<1>5. Out' = Out
  BY <1>1, <1>4 DEF Out, EndNode, last
<1>6. could' \in BOOLEAN
  <2>1. could \in BOOLEAN
    BY DEF IInv, TypeOK
  <2>2. could' = TRUE \/ could' = could
    BY DEF ExpandInner
  <2>. QED
    BY <2>1, <2>2
<1>7. Control'
  <2>1. /\ best' = NoConnection \/ best' \in [edge : Edges', cost : Nat]
        /\ expand' \in (SUBSET Directions) \ {{}} /\ side' \in Directions
    BY <1>1 DEF IInv, TypeOK
  <2>2. pc' \in {"expand"} \cup Directions
    BY <1>1, <1>3
  <2>3. pc' = "expand" => k' \in 1 .. Len(Out') + 1
    <3>1. side # "expand"
      BY <1>3 DEF Directions
    <3>. QED
      BY <1>3, <1>5, <3>1
  <2>. QED
    BY <1>6, <2>1, <2>2, <2>3 DEF Control
<1>8. Stages'
  <2>1. \A t \in Directions : cur'[t] # 0
    BY <1>1, <1>3
  <2>2. pc' \notin {"origin", "destination"}
    BY <1>1, <1>3 DEF Directions
  <2>. QED
    BY <2>1, <2>2 DEF Stages, Directions
<1>. QED
  BY <1>1, <1>2, <1>7, <1>8, Parted

\* The end of an expansion, and the edge back that is passed over.
LEMMA PassKeeps == ASSUME IInv, SkipBack \/ EndExpand PROVE IInv'
<1>1. /\ pc = "expand" /\ UNCHANGED <<query, labels, queue, cursor, status, cur, expand, best, side, path>>
      /\ could' = could
      /\ pc' = side \/ (pc' = pc /\ k <= Len(Out) /\ k' = k + 1)
  BY DEF SkipBack, EndExpand, Expanding
<1>2. Trees' /\ g' = g /\ Edges' = Edges
  BY <1>1, TreesStay
<1>3. /\ side \in Directions /\ \A t \in Directions : cur[t] # 0
      /\ k \in 1 .. Len(Out) + 1 /\ Len(Out) \in Nat
  BY <1>1, ExpandedEdges DEF IInv, Stages, TypeOK
<1>4. Out' = Out
  BY <1>1, <1>2 DEF Out, EndNode, last
<1>5. Control'
  <2>1. /\ best' = NoConnection \/ best' \in [edge : Edges', cost : Nat]
        /\ expand' \in (SUBSET Directions) \ {{}} /\ side' \in Directions
    BY <1>1, <1>2 DEF IInv, TypeOK
  <2>2. could' \in BOOLEAN
    BY <1>1 DEF IInv, TypeOK
  <2>3. pc' \in {"expand"} \cup Directions
    BY <1>1, <1>3
  <2>4. pc' = "expand" => k' \in 1 .. Len(Out') + 1
    <3>1. side # "expand"
      BY <1>3 DEF Directions
    <3>. QED
      BY <1>1, <1>3, <1>4, <3>1
  <2>. QED
    BY <2>1, <2>2, <2>3, <2>4 DEF Control
<1>6. Stages'
  <2>1. \A t \in Directions : cur'[t] # 0
    BY <1>1, <1>3
  <2>2. pc' \notin {"origin", "destination"}
    BY <1>1, <1>3 DEF Directions
  <2>. QED
    BY <2>1, <2>2 DEF Stages, Directions
<1>. QED
  BY <1>1, <1>2, <1>5, <1>6, Parted

\* Every step keeps the invariant.
LEMMA NextIInv == IInv /\ [Next]_vars => IInv'
<1>. SUFFICES ASSUME IInv, [Next]_vars PROVE IInv'
  OBVIOUS
<1>1. CASE SetOrigin \/ SetDestination
  BY <1>1, SeedStepKeeps
<1>2. CASE \E d \in Directions : Exhausted(d)
  BY <1>2, ExhaustedKeeps
<1>3. CASE \E d \in Directions : \E i \in queue[d] : Stop(d, i) \/ Connect(d, i) \/ PopOther(d, i)
  BY <1>3, PopStepKeeps
<1>4. CASE Choose
  BY <1>4, ChooseKeeps
<1>5. CASE ExpandBlocked \/ UTurn
  <2>1. Expanding /\ ExpandInner(Back, TRUE) /\ pc' = side
    BY <1>5 DEF ExpandBlocked, UTurn
  <2>2. Back \in Edges
    BY <2>1, ExpandedEdges DEF Expanding
  <2>. QED
    BY <2>1, <2>2, ExpandStepKeeps
<1>6. CASE ExpandEdge
  <2>1. Expanding /\ ExpandInner(Out[k], FALSE) /\ pc' = pc /\ k <= Len(Out) /\ k' = k + 1
    BY <1>6 DEF ExpandEdge
  <2>2. Out[k] \in Edges
    BY <2>1, ExpandedEdges DEF Expanding
  <2>. QED
    BY <2>1, <2>2, ExpandStepKeeps
<1>7. CASE SkipBack \/ EndExpand
  BY <1>7, PassKeeps
<1>8. CASE UNCHANGED vars
  <2>1. UNCHANGED <<query, labels, queue, cursor, status, cur>> /\ UNCHANGED <<expand, best, expansion, pc>>
    BY <1>8 DEF vars
  <2>2. Trees' /\ g' = g /\ Edges' = Edges
    BY <2>1, TreesStay
  <2>3. side' = side /\ k' = k /\ could' = could /\ expand' = expand /\ best' = best /\ pc' = pc
    BY <2>1 DEF expansion
  <2>4. Out' = Out
    BY <2>1, <2>2, <2>3 DEF Out, EndNode, last
  <2>5. could' \in BOOLEAN
    BY <2>3 DEF IInv, TypeOK
  <2>6. Control'
    BY <2>2, <2>3, <2>4, <2>5 DEF IInv, TypeOK, Control
  <2>7. Stages'
    BY <2>1, <2>3 DEF IInv, Stages
  <2>. QED
    BY <2>1, <2>2, <2>6, <2>7, Parted
<1>. QED
  BY <1>1, <1>2, <1>3, <1>4, <1>5, <1>6, <1>7, <1>8 DEF Next

----------------------------------------------------------------------------
\* Types are kept in every search.
THEOREM TypeCorrect == Spec => []TypeOK
<1>1. IInv => TypeOK
  BY DEF IInv
<1>. QED
  BY <1>1, InitIInv, NextIInv, PTL DEF Spec

----------------------------------------------------------------------------
\* Growing is what the queue allows its caller.
LEMMA GrowingUsesQueue ==
  ASSUME NEW d \in Directions, labels[d] \in Seq(Label), labels'[d] \in Seq(Label'), Grows(d),
         UNCHANGED <<cursor, cur>>
  PROVE  Queue(d)!Relax
<1>1. /\ DOMAIN labels[d] = 1 .. Len(labels[d]) /\ DOMAIN labels'[d] = 1 .. Len(labels'[d])
      /\ Len(labels[d]) \in Nat /\ Len(labels'[d]) \in Nat
  OBVIOUS
<1>2. DOMAIN labels[d] \subseteq DOMAIN labels'[d] /\ DOMAIN labels'[d] \subseteq Nat
  BY <1>1 DEF Grows
<1>3. queue'[d] = queue[d] \cup (DOMAIN labels'[d] \ DOMAIN labels[d])
  BY <1>1 DEF Grows
<1>. QED
  BY <1>2, <1>3 DEF Queue!Relax, Grows

\* What a tree pops is of its lowest bucket.
LEMMA PoppingUsesQueue ==
  ASSUME IInv, NEW d \in Directions, NEW i \in queue[d], Pop(d, i), UNCHANGED <<query, labels>>
  PROVE  \E l \in queue[d] : Queue(d)!Pop(l)
<1>1. /\ TreeInv(d) /\ Trees /\ BucketSize \in Nat \ {0}
  BY SearchAssumption DEF IInv, Trees
<1>2. /\ queue[d] \subseteq DOMAIN labels[d] /\ i \in DOMAIN labels[d] /\ i # 0
      /\ cursor[d] \in Int /\ labels[d] \in Seq(Label)
  BY <1>1 DEF TreeInv, TreeTypes
<1>3. \A j \in DOMAIN labels[d] : labels[d][j].sort \in Int
  <2>1. \A j \in DOMAIN labels[d] : labels[d][j] \in Label
    BY <1>2
  <2>. QED
    BY <2>1 DEF Label
<1>4. /\ queue'[d] = queue[d] \ {i} /\ cursor'[d] = Bucket(d, i) /\ cur'[d] = i
      /\ i \in Lowest(d) /\ labels'[d] = labels[d]
  BY <1>1 DEF Pop, Trees
<1>. DEFINE s == labels[d][i].sort
            c == cursor[d]
<1>5. \A a \in Int : /\ (a \div BucketSize) \in Int
                     /\ (a \div BucketSize) * BucketSize <= a
                     /\ a < (a \div BucketSize) * BucketSize + BucketSize
  BY <1>1, SMT
<1>6. \A a, b \in Int : a <= b => a * BucketSize <= b * BucketSize
  BY <1>1, SMT
<1>7. \A a \in Int : a * BucketSize \in Int
  BY <1>1
<1>8. s \in Int /\ c \in Int
  BY <1>2, <1>3
<1>9. /\ cursor'[d] \in Int
      /\ cursor'[d] = c \/ cursor'[d] * BucketSize <= s
  BY <1>4, <1>5, <1>8 DEF Bucket
<1>10. \/ \A m \in queue[d] : s < labels[d][m].sort + BucketSize
       \/ s < c * BucketSize + BucketSize
  <2>1. CASE s \div BucketSize <= c
    <3>. HIDE DEF s, c
    <3>1. (s \div BucketSize) * BucketSize <= c * BucketSize
      BY <1>5, <1>6, <1>8, <2>1
    <3>. QED
      BY <1>1, <1>5, <1>7, <1>8, <3>1
  <2>2. CASE c < s \div BucketSize
    <3>. SUFFICES ASSUME NEW m \in queue[d] PROVE s < labels[d][m].sort + BucketSize
      OBVIOUS
    <3>. DEFINE t == labels[d][m].sort
    <3>1. t \in Int
      BY <1>2, <1>3
    <3>2. Bucket(d, i) <= Bucket(d, m)
      BY <1>4 DEF Lowest
    <3>3. s \div BucketSize <= t \div BucketSize
      BY <1>5, <1>8, <2>2, <3>1, <3>2 DEF Bucket
    <3>. HIDE DEF s, c, t
    <3>4. (s \div BucketSize) * BucketSize <= (t \div BucketSize) * BucketSize
      BY <1>5, <1>6, <1>8, <3>1, <3>3
    <3>5. s < t + BucketSize
      BY <1>1, <1>5, <1>7, <1>8, <3>1, <3>4
    <3>. QED
      BY <3>5 DEF s, t
  <2>. QED
    BY <1>5, <1>8, <2>1, <2>2
<1>11. Queue(d)!InOrder(i)
  BY <1>2, <1>10 DEF Queue!InOrder
<1>12. Queue(d)!Pop(i)
  BY <1>2, <1>4, <1>7, <1>9, <1>11 DEF Queue!Pop
<1>. QED
  BY <1>12

\* Every step is a use of each tree's queue within its contract, or leaves it alone.
LEMMA StepUsesQueues ==
  ASSUME IInv, IInv', [Next]_vars, NEW d \in Directions
  PROVE  [Queue(d)!Next]_(Queue(d)!vars)
<1>. USE DEF Queue!Next, Queue!vars
<1>1. labels[d] \in Seq(Label) /\ labels'[d] \in Seq(Label')
  BY DEF IInv, Trees, TreeInv, TreeTypes
<1>2. ASSUME labels'[d] = labels[d], queue'[d] = queue[d], cur'[d] = cur[d], cursor'[d] = cursor[d]
      PROVE  [Queue(d)!Next]_(Queue(d)!vars)
  BY <1>2
<1>3. CASE SetOrigin \/ SetDestination
  <2>. DEFINE t == IF pc = "origin" THEN "forward" ELSE "reverse"
  <2>1. t \in Directions /\ Seed(t) /\ labels[t] = <<>> /\ cur[t] = 0
    BY <1>3 DEF SetOrigin, SetDestination, IInv, Stages, Directions
  <2>. HIDE DEF t
  <2>2. /\ cur' = cur /\ cursor' = cursor
        /\ queue'[t] = DOMAIN labels'[t] /\ queue[t] = {}
        /\ \A o \in Directions : o # t => labels'[o] = labels[o] /\ queue'[o] = queue[o]
    BY <2>1, SeedKeeps
  <2>3. CASE d = t
    <3>1. DOMAIN labels[d] = {} /\ Len(labels[d]) = 0
      BY <2>1, <2>3
    <3>2. Grows(d)
      BY <1>1, <2>2, <2>3, <3>1 DEF Grows
    <3>. QED
      BY <1>1, <2>2, <3>2, GrowingUsesQueue
  <2>4. CASE d # t
    BY <1>2, <2>2, <2>4
  <2>. QED
    BY <2>3, <2>4
<1>4. CASE \E t \in Directions : Exhausted(t)
  BY <1>2, <1>4 DEF Exhausted
<1>5. ASSUME NEW t \in Directions, NEW i \in queue[t], Stop(t, i) \/ Connect(t, i) \/ PopOther(t, i)
      PROVE  [Queue(d)!Next]_(Queue(d)!vars)
  <2>1. Pop(t, i) /\ UNCHANGED <<query, labels>>
    BY <1>5 DEF Stop, Connect, PopOther
  <2>2. CASE d = t
    BY <2>1, <2>2, PoppingUsesQueue
  <2>3. CASE d # t
    <3>1. queue'[d] = queue[d] /\ cur'[d] = cur[d] /\ cursor'[d] = cursor[d]
      BY <2>1, <2>3 DEF Pop, IInv, Trees
    <3>. QED
      BY <1>2, <2>1, <3>1
  <2>. QED
    BY <2>2, <2>3
<1>6. CASE Choose
  BY <1>2, <1>6 DEF Choose
<1>7. ASSUME Expanding, NEW e \in Edges, NEW deadend, ExpandInner(e, deadend)
      PROVE  [Queue(d)!Next]_(Queue(d)!vars)
  <2>1. pc = "expand" /\ UNCHANGED <<g, cursor, cur, side>>
    BY <1>7 DEF Expanding, query
  <2>2. /\ Grows(side) \/ UNCHANGED <<labels, queue>>
        /\ \A t \in Directions : t # side => labels'[t] = labels[t] /\ queue'[t] = queue[t]
    BY <1>7, <2>1, ExpandInnerKeeps
  <2>3. CASE d = side /\ Grows(side)
    BY <1>1, <2>1, <2>3, GrowingUsesQueue
  <2>4. CASE ~(d = side /\ Grows(side))
    BY <1>2, <2>1, <2>2, <2>4
  <2>. QED
    BY <2>3, <2>4
<1>8. CASE ExpandBlocked \/ UTurn
  <2>1. Expanding /\ ExpandInner(Back, TRUE)
    BY <1>8 DEF ExpandBlocked, UTurn
  <2>. QED
    BY <1>7, <2>1, ExpandedEdges DEF Expanding
<1>9. CASE ExpandEdge
  <2>1. Expanding /\ ExpandInner(Out[k], FALSE) /\ k <= Len(Out)
    BY <1>9 DEF ExpandEdge
  <2>. QED
    BY <1>7, <2>1, ExpandedEdges DEF Expanding
<1>10. CASE SkipBack \/ EndExpand
  BY <1>2, <1>10 DEF SkipBack, EndExpand, Expanding
<1>11. CASE UNCHANGED vars
  BY <1>2, <1>11 DEF vars
<1>. QED
  BY <1>3, <1>4, <1>5, <1>6, <1>8, <1>9, <1>10, <1>11 DEF Next

\* Both trees keep to the contract of their queues: what one tree does never touches the
\* queue of the other, resets and updates lower only labels that are still queued, and
\* labels are taken in an order that LabelQueue, and so DoubleBucketQueue, admits.
THEOREM SearchUsesQueues == Spec => TreesUseLabelQueue
<1>1. Init => \A d \in Directions : Queue(d)!Init
  <2>. SUFFICES ASSUME Init, NEW d \in Directions PROVE Queue(d)!Init
    OBVIOUS
  <2>1. labels[d] = <<>> /\ queue[d] = {} /\ cur[d] = 0
    BY DEF Init
  <2>2. cursor[d] * BucketSize \in Int
    BY InitIInv, SearchAssumption DEF IInv, Trees
  <2>. QED
    BY <2>1, <2>2 DEF Queue!Init
<1>2. IInv /\ IInv' /\ [Next]_vars => \A d \in Directions : [Queue(d)!Next]_(Queue(d)!vars)
  BY StepUsesQueues
<1>. QED
  BY <1>1, <1>2, InitIInv, NextIInv, PTL DEF Spec, TreesUseLabelQueue

----------------------------------------------------------------------------
\* What a step does to one tree, said of that tree alone.

\* What a whole edge costs.
Whole(e) == Parts * PartCost(g, e)

\* How much of its edge the first label of a tree travels.
LeftOf(d, c) == IF d = "forward" THEN Parts - c.pos ELSE c.pos

\* Label l is that of a candidate.
Starts(d, l, c) ==
  /\ l.edge = Along(d, c.edge) /\ l.pred = 0 /\ l.turn = 0
  /\ l.cost = PartCost(g, c.edge) * LeftOf(d, c)

\* The cost of an edge after the label popped last.
NewCost(d, e) ==
  LET l == labels[d][cur[d]] IN l.cost + Turn(d, l.edge, e) + Whole(Along(d, e))

\* The tree stays as it is.
Stays(d) ==
  /\ labels'[d] = labels[d] /\ queue'[d] = queue[d] /\ cursor'[d] = cursor[d]
  /\ status'[d] = status[d] /\ cur'[d] = cur[d]

\* pop: label i leaves the queue, from the lowest bucket, and its edge is settled.
Pops(d, i) ==
  /\ i \in queue[d] /\ \A j \in queue[d] : Bucket(d, i) <= Bucket(d, j)
  /\ labels'[d] = labels[d] /\ queue'[d] = queue[d] \ {i}
  /\ cursor'[d] = Bucket(d, i) /\ cur'[d] = i
  /\ \A e \in Edges :
       /\ status'[d][e].idx = status[d][e].idx
       /\ status'[d][e].set = IF e = labels[d][i].edge THEN "permanent" ELSE status[d][e].set

\* Label i of edge e is new, or gets cheaper.
Takes(d, e, i) ==
  /\ side = d /\ Along(d, e) \in g.access /\ ~Restricted(e)
  /\ \/ /\ status[d][e].set = "temporary" /\ i = status[d][e].idx
        /\ NewCost(d, e) < labels[d][i].cost
        /\ labels'[d][i].sort = labels[d][i].sort - (labels[d][i].cost - NewCost(d, e))
        /\ queue'[d] = queue[d] /\ DOMAIN labels'[d] = DOMAIN labels[d]
     \/ /\ status[d][e].set = "unreached" /\ i = Len(labels[d]) + 1
        /\ labels'[d][i].sort = NewCost(d, e) + Get(ToGo(d, e))
        /\ queue'[d] = queue[d] \cup {i} /\ DOMAIN labels'[d] = DOMAIN labels[d] \cup {i}
  /\ labels'[d][i].edge = e /\ labels'[d][i].pred = cur[d]
  /\ labels'[d][i].turn = Turn(d, labels[d][cur[d]].edge, e)
  /\ labels'[d][i].cost = NewCost(d, e)
  /\ \A j \in DOMAIN labels[d] : j # i => labels'[d][j] = labels[d][j]
  /\ status'[d][e].set = "temporary" /\ status'[d][e].idx = i
  /\ \A f \in Edges : f # e => status'[d][f] = status[d][f]
  /\ cursor'[d] = cursor[d] /\ cur'[d] = cur[d]

\* FormPath reset the edge of the label popped last: the path it ends is restricted.
Unreaches(d) ==
  /\ labels'[d] = labels[d] /\ queue'[d] = queue[d]
  /\ cursor'[d] = cursor[d] /\ cur'[d] = cur[d]
  /\ \A e \in Edges :
       /\ status'[d][e].idx = status[d][e].idx
       /\ status'[d][e].set = IF e = labels[d][cur[d]].edge THEN "unreached" ELSE status[d][e].set

\* SetOrigin, SetDestination: the first labels of a tree are those of its candidates.
Seeds(d) ==
  /\ labels[d] = <<>> /\ queue[d] = {} /\ cur[d] = 0
  /\ \A c \in Candidates(d) : \E i \in DOMAIN labels'[d] : Starts(d, labels'[d][i], c)
  /\ \A i \in DOMAIN labels'[d] :
       /\ \E c \in Candidates(d) : Starts(d, labels'[d][i], c)
       /\ labels'[d][i].sort = labels'[d][i].cost + Get(ToGo(d, labels'[d][i].edge))
       /\ status'[d][labels'[d][i].edge].set = "temporary"
       /\ status'[d][labels'[d][i].edge].idx = i
  /\ \A e \in Edges : \/ status'[d][e].set = "unreached"
                    \/ \E i \in DOMAIN labels'[d] : labels'[d][i].edge = e
  /\ queue'[d] = DOMAIN labels'[d]
  /\ cursor'[d] = cursor[d] /\ cur'[d] = cur[d]

\* What every search keeps of its query.
Asked ==
  /\ origin \in Locations(g) /\ destination \in Locations(g)
  /\ ~AreConnected(origin, destination)

----------------------------------------------------------------------------
\* There are two directions, each the other of the other.
LEMMA Others ==
  /\ \A d \in Directions : Other(d) \in Directions /\ Other(d) # d /\ Other(Other(d)) = d
  /\ \A d, t \in Directions : t # d => t = Other(d)
  BY DEF Directions, Other

\* The edges of a network and their opposing ones.
LEMMA EdgeFacts ==
  ASSUME g \in Graphs
  PROVE  /\ \A e \in Edges : /\ g.opp[e] \in Edges /\ g.opp[g.opp[e]] = e /\ g.opp[e] # e
                             /\ g.tail[g.opp[e]] = g.head[e] /\ g.head[g.opp[e]] = g.tail[e]
                             /\ g.tail[e] # g.head[e]
                             /\ PartCost(g, e) \in Nat /\ Whole(e) \in Nat
                             /\ PartCost(g, g.opp[e]) \in Nat
         /\ \A e, f \in Edges : \A d \in Directions : Turn(d, e, f) \in Nat
         /\ \A e \in Edges, d \in Directions : Along(d, e) \in Edges /\ Along(d, Along(d, e)) = e
         /\ 0 \notin Edges /\ g.access \subseteq Edges
         /\ Parts \in Nat \ {0} /\ BucketSize \in Nat \ {0} /\ Slack \in Nat
<1>1. /\ \A e \in Edges : /\ g.opp[e] \in Edges /\ g.opp[g.opp[e]] = e /\ g.opp[e] # e
                          /\ g.tail[g.opp[e]] = g.head[e] /\ g.head[g.opp[e]] = g.tail[e]
                          /\ g.tail[e] # g.head[e]
      /\ 0 \notin Edges /\ g.access \subseteq Edges
      /\ g.penalty \in [Edges -> [Edges -> Nat]]
  BY SearchAssumption DEF IsGraph, Edges
<1>2. Parts \in Nat \ {0} /\ BucketSize \in Nat \ {0} /\ Slack \in Nat
  BY SearchAssumption DEF Slack
<1>3. \A e \in Edges : PartCost(g, e) \in Nat
  BY PartCostType DEF Edges
<1>4. \A e \in Edges : Whole(e) \in Nat
  BY <1>2, <1>3, Product DEF Whole
<1>5. \A e, f \in Edges : \A d \in Directions : Turn(d, e, f) \in Nat
  BY <1>1 DEF Turn
<1>6. \A e \in Edges, d \in Directions : Along(d, e) \in Edges /\ Along(d, Along(d, e)) = e
  BY <1>1 DEF Along
<1>. QED
  BY <1>1, <1>2, <1>3, <1>4, <1>5, <1>6

\* What the invariant says of one tree.
LEMMA TreeFacts ==
  ASSUME IInv, NEW d \in Directions
  PROVE  /\ g \in Graphs /\ labels[d] \in Seq(Label)
         /\ Len(labels[d]) \in Nat /\ DOMAIN labels[d] = 1 .. Len(labels[d])
         /\ \A i \in DOMAIN labels[d] :
              /\ labels[d][i] \in Label
              /\ labels[d][i].edge \in Edges /\ labels[d][i].pred \in 0 .. Len(labels[d])
              /\ labels[d][i].cost \in Nat /\ labels[d][i].sort \in Int /\ labels[d][i].turn \in Nat
         /\ queue[d] \subseteq DOMAIN labels[d] /\ cursor[d] \in Int
         /\ cur[d] \in 0 .. Len(labels[d]) /\ cur[d] \notin queue[d]
         /\ \A e \in Edges :
              /\ status[d][e].set \in {"unreached", "temporary", "permanent"}
              /\ status[d][e].idx \in Nat
              /\ status[d][e].set # "unreached" => status[d][e].idx \in DOMAIN labels[d]
              /\ status[d][e].set = "temporary" =>
                   status[d][e].idx \in queue[d] /\ labels[d][status[d][e].idx].edge = e
<1>1. g \in Graphs /\ TreeInv(d)
  BY DEF IInv, Trees, TypeOK
<1>2. labels[d] \in Seq(Label)
  BY <1>1 DEF TreeInv, TreeTypes
<1>3. Len(labels[d]) \in Nat /\ DOMAIN labels[d] = 1 .. Len(labels[d])
  BY <1>2
<1>4. \A i \in DOMAIN labels[d] : labels[d][i] \in Label
  BY <1>2
<1>5. \A i \in DOMAIN labels[d] :
              /\ labels[d][i].edge \in Edges
              /\ labels[d][i].cost \in Nat /\ labels[d][i].sort \in Int /\ labels[d][i].turn \in Nat
  BY <1>4 DEF Label
<1>6. \A i \in DOMAIN labels[d] : labels[d][i].pred \in 0 .. Len(labels[d])
  BY <1>1 DEF TreeInv, PredsAreLabels
<1>7. /\ queue[d] \subseteq DOMAIN labels[d] /\ cursor[d] \in Int
      /\ cur[d] \in 0 .. Len(labels[d]) /\ cur[d] \notin queue[d]
  BY <1>1 DEF TreeInv, TreeTypes
<1>8. \A e \in Edges : /\ status[d][e].set \in {"unreached", "temporary", "permanent"}
                       /\ status[d][e].idx \in Nat
  BY <1>1 DEF TreeInv, TreeTypes
<1>9. \A e \in Edges :
         /\ status[d][e].set # "unreached" => status[d][e].idx \in DOMAIN labels[d]
         /\ status[d][e].set = "temporary" =>
              status[d][e].idx \in queue[d] /\ labels[d][status[d][e].idx].edge = e
  BY <1>1 DEF TreeInv, TreeTypes, TemporaryIsQueued
<1>. QED
  BY <1>1, <1>2, <1>3, <1>4, <1>5, <1>6, <1>7, <1>8, <1>9

\* Popping a label, seen from either tree.
LEMMA PopMoves ==
  ASSUME IInv, NEW d \in Directions, NEW i \in queue[d], Pop(d, i), UNCHANGED labels
  PROVE  Pops(d, i) /\ Stays(Other(d))
<1>. DEFINE e == labels[d][i].edge
<1>1. Trees
  BY DEF IInv
<1>2. /\ queue' = [queue EXCEPT ![d] = queue[d] \ {i}]
      /\ cursor' = [cursor EXCEPT ![d] = Bucket(d, i)]
      /\ cur' = [cur EXCEPT ![d] = i] /\ labels' = labels
      /\ status' = [status EXCEPT ![d] = [status[d] EXCEPT ![e] = [status[d][e] EXCEPT !.set = "permanent"]]]
      /\ \A j \in queue[d] : Bucket(d, i) <= Bucket(d, j)
  BY DEF Pop, Lowest
<1>3. e \in Edges
  BY TreeFacts
<1>. HIDE DEF e
<1>4. status[d] \in [Edges -> [set : {"unreached", "temporary", "permanent"}, idx : Nat]]
  BY <1>1 DEF Trees
<1>5. /\ status'[d] = [status[d] EXCEPT ![e] = [status[d][e] EXCEPT !.set = "permanent"]]
      /\ queue'[d] = queue[d] \ {i} /\ cursor'[d] = Bucket(d, i) /\ cur'[d] = i
  BY <1>1, <1>2 DEF Trees
<1>6. \A f \in Edges :
       /\ status'[d][f].idx = status[d][f].idx
       /\ status'[d][f].set = IF f = e THEN "permanent" ELSE status[d][f].set
  BY <1>3, <1>4, <1>5
<1>7. Pops(d, i)
  BY <1>2, <1>5, <1>6 DEF Pops, e
<1>8. Stays(Other(d))
  BY <1>1, <1>2, Others DEF Stays, Trees
<1>. QED
  BY <1>7, <1>8

\* The edge of a label at the end of which others are labelled.
LEMMA ExpandMoves ==
  ASSUME IInv, pc = "expand", NEW e \in Edges, NEW deadend, ExpandInner(e, deadend),
         UNCHANGED <<query, cursor, cur, side>>
  PROVE  /\ Stays(Other(side))
         /\ \/ \E i \in DOMAIN labels'[side] : Takes(side, e, i)
            \/ /\ Unreaches(side) /\ Restricted(e) /\ g.restrictions # {}
            \/ /\ Stays(side)
               /\ \/ status[side][e].set = "permanent"
                  \/ ~Allowed(e, deadend)
                  \/ /\ status[side][e].set = "temporary"
                     /\ labels[side][status[side][e].idx].cost <= NewCost(side, e)
<1>. DEFINE d == side
            i == status[d][e].idx
            new == NextLabel(e)
            old == labels[d][i]
            upd == [new EXCEPT !.sort = old.sort - (old.cost - new.cost)]
            n == Len(labels[d]) + 1
<1>1. /\ side \in Directions /\ Trees /\ g' = g /\ cursor' = cursor /\ cur' = cur
      /\ Other(d) \in Directions /\ Other(d) # d
  BY LastType, Others DEF IInv, query
<1>. HIDE DEF d
<1>2. /\ new \in Label /\ new.edge = e /\ new.pred = cur[d]
      /\ new.turn = Turn(d, labels[d][cur[d]].edge, e)
      /\ new.cost = NewCost(d, e) /\ new.sort = NewCost(d, e) + Get(ToGo(d, e))
  BY NextLabelType DEF NextLabel, EdgeLabel, NewCost, Whole, last, d
<1>3. /\ new.cost \in Nat /\ d \in Directions
  BY <1>1, <1>2 DEF Label, d
<1>4. /\ labels[d] \in Seq(Label) /\ Len(labels[d]) \in Nat
      /\ DOMAIN labels[d] = 1 .. Len(labels[d])
      /\ \A j \in DOMAIN labels[d] : labels[d][j] \in Label
  BY <1>3, TreeFacts
<1>. HIDE DEF new, i, old
<1>5. CASE status[d][e].set # "permanent" /\ Allowed(e, deadend) /\ ~Restricted(e)
           /\ status[d][e].set = "temporary" /\ Update(e)
  <2>1. i \in queue[d] /\ i \in DOMAIN labels[d] /\ old \in Label
    BY <1>3, <1>5, TreeFacts DEF i, old
  <2>2. old.cost \in Nat /\ old.sort \in Int
    BY <2>1 DEF Label
  <2>3. /\ labels' = IF new.cost < old.cost
                     THEN [labels EXCEPT ![d] = [labels[d] EXCEPT ![i] = upd]] ELSE labels
        /\ queue' = queue /\ status' = status
    BY <1>1, <1>5 DEF Update, Trees, new, i, old, d
  <2>4. CASE ~(new.cost < old.cost)
    <3>1. Stays(d) /\ Stays(Other(d))
      BY <1>1, <2>3, <2>4 DEF Stays
    <3>2. old.cost <= NewCost(d, e)
      BY <1>2, <1>3, <2>2, <2>4
    <3>. QED
      BY <1>5, <3>1, <3>2 DEF d, old, i
  <2>5. CASE new.cost < old.cost
    <3>1. /\ labels'[d] = [labels[d] EXCEPT ![i] = upd]
          /\ \A t \in Directions : t # d => labels'[t] = labels[t]
      BY <1>1, <1>3, <2>3, <2>5 DEF Trees
    <3>2. /\ DOMAIN labels'[d] = DOMAIN labels[d] /\ labels'[d][i] = upd
          /\ \A j \in DOMAIN labels[d] : j # i => labels'[d][j] = labels[d][j]
      BY <1>4, <2>1, <3>1
    <3>3. /\ upd.edge = new.edge /\ upd.pred = new.pred /\ upd.cost = new.cost /\ upd.turn = new.turn
          /\ upd.sort = old.sort - (old.cost - new.cost)
      BY <1>2 DEF Label
    <3>. HIDE DEF upd
    <3>4. Along(d, e) \in g.access
      BY <1>5 DEF Allowed, d
    <3>5. /\ status[d][e].set = "temporary" /\ i = status[d][e].idx
          /\ NewCost(d, e) < labels[d][i].cost
          /\ labels'[d][i].sort = labels[d][i].sort - (labels[d][i].cost - NewCost(d, e))
      BY <1>2, <1>5, <2>5, <3>2, <3>3 DEF i, old
    <3>6. status'[d][e].set = "temporary" /\ status'[d][e].idx = i
      BY <1>5, <2>3 DEF i
    <3>7. Takes(d, e, i)
      BY <1>1, <1>2, <1>5, <2>3, <3>2, <3>3, <3>4, <3>5, <3>6 DEF Takes, d
    <3>8. Stays(Other(d))
      BY <1>1, <2>3, <3>1 DEF Stays
    <3>. QED
      BY <2>1, <3>2, <3>7, <3>8 DEF d
  <2>. QED
    BY <2>4, <2>5
<1>6. CASE status[d][e].set # "permanent" /\ Allowed(e, deadend) /\ ~Restricted(e)
           /\ status[d][e].set # "temporary" /\ Add(e)
  <2>1. /\ labels' = [labels EXCEPT ![d] = Append(labels[d], new)]
        /\ queue' = [queue EXCEPT ![d] = queue[d] \cup {n}]
        /\ status' = [status EXCEPT ![d] = [status[d] EXCEPT ![e] = [set |-> "temporary", idx |-> n]]]
    BY <1>1, <1>6 DEF Add, Trees, new, d
  <2>2. /\ labels'[d] = Append(labels[d], new) /\ queue'[d] = queue[d] \cup {n}
        /\ status'[d] = [status[d] EXCEPT ![e] = [set |-> "temporary", idx |-> n]]
        /\ Stays(Other(d))
    BY <1>1, <1>3, <2>1 DEF Trees, Stays
  <2>3. /\ DOMAIN labels'[d] = DOMAIN labels[d] \cup {n} /\ labels'[d][n] = new
        /\ \A j \in DOMAIN labels[d] : j # n => labels'[d][j] = labels[d][j]
    BY <1>2, <1>4, <2>2
  <2>4. status[d] \in [Edges -> [set : {"unreached", "temporary", "permanent"}, idx : Nat]]
    BY <1>1, <1>3 DEF Trees
  <2>5. /\ status'[d][e].set = "temporary" /\ status'[d][e].idx = n
        /\ \A f \in Edges : f # e => status'[d][f] = status[d][f]
    BY <2>2, <2>4
  <2>6. status[d][e].set = "unreached"
    BY <1>6, <2>4
  <2>7. Along(d, e) \in g.access
    BY <1>6 DEF Allowed, d
  <2>. HIDE DEF n
  <2>8. Takes(d, e, n)
    BY <1>1, <1>2, <1>6, <2>2, <2>3, <2>5, <2>6, <2>7 DEF Takes, d, n
  <2>. QED
    BY <2>2, <2>3, <2>8 DEF d
<1>7. CASE status[d][e].set # "permanent" /\ Allowed(e, deadend) /\ Restricted(e) /\ Reset
  <2>. DEFINE u == labels[d][cur[d]].edge
  <2>1. /\ status' = [status EXCEPT ![d] = [status[d] EXCEPT ![u] = [status[d][u] EXCEPT !.set = "unreached"]]]
        /\ labels' = labels /\ queue' = queue
    BY <1>1, <1>7 DEF Reset, last, d
  <2>2. u \in Edges
    BY LastType DEF last, d, Label
  <2>. HIDE DEF u
  <2>3. status[d] \in [Edges -> [set : {"unreached", "temporary", "permanent"}, idx : Nat]]
    BY <1>1, <1>3 DEF Trees
  <2>4. /\ status'[d] = [status[d] EXCEPT ![u] = [status[d][u] EXCEPT !.set = "unreached"]]
        /\ Stays(Other(d))
    BY <1>1, <1>3, <2>1 DEF Trees, Stays
  <2>5. \A f \in Edges :
          /\ status'[d][f].idx = status[d][f].idx
          /\ status'[d][f].set = IF f = u THEN "unreached" ELSE status[d][f].set
    BY <2>2, <2>3, <2>4
  <2>6. Unreaches(d)
    BY <1>1, <2>1, <2>5 DEF Unreaches, u
  <2>7. g.restrictions # {}
    BY <1>7 DEF Restricted
  <2>. QED
    BY <1>7, <2>4, <2>6, <2>7 DEF d
<1>8. CASE UNCHANGED <<labels, queue, status>> /\ (status[d][e].set = "permanent" \/ ~Allowed(e, deadend))
  BY <1>1, <1>8 DEF Stays, d
<1>. QED
  BY <1>5, <1>6, <1>7, <1>8 DEF ExpandInner, d

----------------------------------------------------------------------------
\* A set of natural numbers has a least one.
LEMMA LeastOf ==
  ASSUME NEW S \in SUBSET Nat, S # {}
  PROVE  Min(S) \in S /\ \A y \in S : Min(S) <= y
<1>1. \E x \in S : \A y \in S : ~ (<<y, x>> \in OpToRel(<, Nat))
  BY NatLessThanWellFounded, WFMin, Zenon
<1>2. PICK x \in S : \A y \in S : ~(y < x)
  BY <1>1 DEF OpToRel
<1>3. x \in S /\ \A y \in S : x <= y
  BY <1>2
<1>. QED
  BY <1>3 DEF Min

\* Induction over the natural numbers in a set.
LEMMA SetInduction ==
  ASSUME NEW S, 0 \in S, \A i \in Nat : i \in S => i + 1 \in S
  PROVE  Nat \subseteq S
<1>. DEFINE T == {i \in Nat : i \notin S}
<1>. SUFFICES ASSUME T # {} PROVE FALSE
  OBVIOUS
<1>1. T \in SUBSET Nat
  OBVIOUS
<1>2. Min(T) \in T /\ \A y \in T : Min(T) <= y
  <2>. HIDE DEF T
  <2>. QED
    BY <1>1, LeastOf
<1>3. PICK x \in T : \A y \in T : x <= y
  BY <1>2
<1>4. x - 1 \in Nat /\ x - 1 \in S
  BY <1>3
<1>. QED
  BY <1>3, <1>4

----------------------------------------------------------------------------
\* The ends of routes of one edge.
FirstEnds(gr, from) ==
  {[edge |-> e, cost |-> Min({Unreachable} \cup
      {PartCost(gr, e) * (Parts - c.pos) + Slack : c \in {o \in from : o.edge = e}})] :
     e \in DOMAIN gr.head}

\* The reference is a recursive function: what it is for no edge and for one more.
LEMMA RouteEndsDefined ==
  ASSUME NEW gr \in Graphs, NEW from
  PROVE  \E ends : /\ ends[0] = FirstEnds(gr, from)
                   /\ \A i \in 1 .. Cardinality(DOMAIN gr.head) :
                        ends[i] = OneMore(gr, ends[i - 1])
                   /\ RouteEnds(gr, from) = ends[Cardinality(DOMAIN gr.head)]
<1>. DEFINE N == Cardinality(DOMAIN gr.head)
            Z == FirstEnds(gr, from)
            Is(f, m) == f = [i \in 0 .. m |-> IF i = 0 THEN Z ELSE OneMore(gr, f[i - 1])]
            S == {m \in Nat : \E f : Is(f, m)}
<1>1. N \in Nat
  BY SearchAssumption, FS_CardinalityType DEF IsGraph
<1>2. 0 \in S
  <2>. DEFINE f == [i \in 0 .. 0 |-> Z]
  <2>1. f = [i \in 0 .. 0 |-> IF i = 0 THEN Z ELSE OneMore(gr, f[i - 1])]
    OBVIOUS
  <2>. QED
    BY <2>1
<1>3. ASSUME NEW m \in Nat, m \in S PROVE m + 1 \in S
  <2>1. PICK f : Is(f, m)
    BY <1>3
  <2>. DEFINE h == [i \in 0 .. m + 1 |-> IF i = 0 THEN Z ELSE OneMore(gr, f[i - 1])]
  <2>2. \A i \in 0 .. m : h[i] = f[i]
    BY <2>1
  <2>. DEFINE hh == [i \in 0 .. m + 1 |-> IF i = 0 THEN Z ELSE OneMore(gr, h[i - 1])]
  <2>3. \A i \in 0 .. m + 1 : hh[i] = h[i]
    <3>. HIDE DEF Z
    <3>. SUFFICES ASSUME NEW i \in 0 .. m + 1 PROVE hh[i] = h[i]
      OBVIOUS
    <3>1. CASE i = 0
      BY <3>1
    <3>2. CASE i # 0
      <4>1. i - 1 \in 0 .. m
        BY <3>2
      <4>2. h[i - 1] = f[i - 1]
        BY <2>2, <4>1
      <4>. HIDE DEF h
      <4>3. hh[i] = OneMore(gr, h[i - 1])
        BY <3>2
      <4>4. h[i] = OneMore(gr, f[i - 1])
        BY <3>2 DEF h
      <4>. QED
        BY <4>2, <4>3, <4>4
    <3>. QED
      BY <3>1, <3>2
  <2>4. h = hh
    BY <2>3
  <2>5. Is(h, m + 1)
    BY <2>4
  <2>. HIDE DEF h, Is
  <2>6. \E z : Is(z, m + 1)
    BY <2>5
  <2>. QED
    BY <2>6
<1>4. N \in S
  BY <1>1, <1>2, <1>3, SetInduction
<1>. DEFINE ends == CHOOSE f : Is(f, N)
<1>5. Is(ends, N)
  BY <1>4
<1>6. RouteEnds(gr, from) = ends[N]
  BY DEF RouteEnds, FirstEnds
<1>7. ends[0] = Z /\ \A i \in 1 .. N : ends[i] = OneMore(gr, ends[i - 1])
  <2>. HIDE DEF ends, N, Z
  <2>. QED
    BY <1>1, <1>5
<1>. QED
  BY <1>6, <1>7

\* What holds of the ends of routes of one edge, and of one more edge if it holds of the
\* others, holds of the ends of all cheapest routes.
LEMMA RouteEndsWithin ==
  ASSUME NEW gr \in Graphs, NEW from, IsLocation(gr, from),
         NEW Q \in SUBSET [edge : DOMAIN gr.head, cost : Nat],
         \A e \in DOMAIN gr.head : \A c \in Nat :
           c >= Unreachable => [edge |-> e, cost |-> c] \in Q,
         \A o \in from :
           [edge |-> o.edge, cost |-> PartCost(gr, o.edge) * (Parts - o.pos) + Slack] \in Q,
         \A r \in Q : \A f \in DOMAIN gr.head :
           Follows(gr, r.edge, f) =>
             [edge |-> f, cost |-> r.cost + gr.penalty[r.edge][f]
                                   + Parts * PartCost(gr, f) + Slack] \in Q
  PROVE  RouteEnds(gr, from) \subseteq Q
<1>. DEFINE E == DOMAIN gr.head
            N == Cardinality(E)
<1>1. N \in Nat
  BY SearchAssumption, FS_CardinalityType DEF IsGraph
<1>2. /\ Unreachable \in Nat /\ Slack \in Nat /\ Parts \in Nat
      /\ \A e \in E : PartCost(gr, e) \in Nat /\ Parts * PartCost(gr, e) \in Nat
      /\ \A e, f \in E : gr.penalty[e][f] \in Nat
      /\ \A o \in from : o.edge \in E /\ PartCost(gr, o.edge) * (Parts - o.pos) \in Nat
  <2>1. Unreachable \in Nat /\ Slack \in Nat /\ Parts \in Nat
    BY SearchAssumption DEF Slack
  <2>2. \A e \in E : PartCost(gr, e) \in Nat /\ Parts * PartCost(gr, e) \in Nat
    BY <2>1, PartCostType, Product
  <2>3. \A o \in from : o.edge \in E /\ Parts - o.pos \in Nat
    BY <2>1 DEF IsLocation
  <2>4. \A e, f \in E : gr.penalty[e][f] \in Nat
    BY SearchAssumption DEF IsGraph
  <2>. QED
    BY <2>1, <2>2, <2>3, <2>4, Product
<1>3. PICK ends : /\ ends[0] = FirstEnds(gr, from)
                  /\ \A i \in 1 .. N : ends[i] = OneMore(gr, ends[i - 1])
                  /\ RouteEnds(gr, from) = ends[N]
  BY RouteEndsDefined
<1>. DEFINE Good(R) == R \subseteq Q /\ \A e \in E : \E x \in R : x.edge = e
            S == {i \in Nat : i <= N => Good(ends[i])}
<1>4. Good(FirstEnds(gr, from))
  <2>. DEFINE costs(e) == {Unreachable} \cup {PartCost(gr, e) * (Parts - c.pos) + Slack :
                             c \in {o \in from : o.edge = e}}
              end(e) == [edge |-> e, cost |-> Min(costs(e))]
  <2>1. ASSUME NEW e \in E PROVE end(e) \in Q
    <3>1. costs(e) \in SUBSET Nat /\ costs(e) # {}
      BY <1>2
    <3>2. Min(costs(e)) \in costs(e)
      <4>. HIDE DEF costs
      <4>. QED
        BY <3>1, LeastOf
    <3>. DEFINE least == Min(costs(e))
    <3>. HIDE DEF least
    <3>3. [edge |-> e, cost |-> least] \in Q
      <4>1. CASE least = Unreachable
        BY <1>2, <4>1
      <4>2. CASE least # Unreachable
        <5>1. PICK c \in from : c.edge = e /\ least = PartCost(gr, e) * (Parts - c.pos) + Slack
          BY <3>2, <4>2 DEF least
        <5>. QED
          BY <5>1
      <4>. QED
        BY <4>1, <4>2
    <3>. QED
      BY <3>3 DEF least
  <2>2. FirstEnds(gr, from) = {end(e) : e \in E}
    BY DEF FirstEnds
  <2>3. \A e \in E : end(e).edge = e
    OBVIOUS
  <2>. HIDE DEF end
  <2>. QED
    BY <2>1, <2>2, <2>3
<1>5. ASSUME NEW R, Good(R) PROVE Good(OneMore(gr, R))
  <2>. DEFINE old(f) == {r.cost : r \in {x \in R : x.edge = f}}
              new(f) == {r.cost + gr.penalty[r.edge][f] + Parts * PartCost(gr, f) + Slack :
                           r \in {x \in R : Follows(gr, x.edge, f)}}
              end(f) == [edge |-> f, cost |-> Min(old(f) \cup new(f))]
  <2>1. ASSUME NEW f \in E PROVE end(f) \in Q
    <3>1. \A r \in R : r \in Q /\ r.edge \in E /\ r.cost \in Nat /\ r = [edge |-> r.edge, cost |-> r.cost]
      BY <1>5
    <3>2. old(f) \in SUBSET Nat /\ old(f) # {}
      BY <1>5, <3>1
    <3>3. new(f) \in SUBSET Nat
      BY <1>2, <3>1
    <3>4. Min(old(f) \cup new(f)) \in old(f) \cup new(f)
      <4>. HIDE DEF old, new
      <4>. QED
        BY <3>2, <3>3, LeastOf
    <3>. DEFINE least == Min(old(f) \cup new(f))
    <3>. HIDE DEF least
    <3>5. [edge |-> f, cost |-> least] \in Q
      <4>1. CASE least \in old(f)
        <5>1. PICK r \in R : r.edge = f /\ least = r.cost
          BY <4>1
        <5>. QED
          BY <3>1, <5>1
      <4>2. CASE least \in new(f)
        <5>1. PICK r \in R : /\ Follows(gr, r.edge, f)
                             /\ least = r.cost + gr.penalty[r.edge][f]
                                        + Parts * PartCost(gr, f) + Slack
          BY <4>2
        <5>. QED
          BY <3>1, <5>1
      <4>. QED
        BY <3>4, <4>1, <4>2 DEF least
    <3>. QED
      BY <3>5 DEF least
  <2>2. OneMore(gr, R) = {end(f) : f \in E}
    BY DEF OneMore
  <2>3. \A f \in E : end(f).edge = f
    OBVIOUS
  <2>. HIDE DEF end
  <2>. QED
    BY <2>1, <2>2, <2>3
<1>6. 0 \in S
  BY <1>3, <1>4
<1>7. ASSUME NEW i \in Nat, i \in S PROVE i + 1 \in S
  <2>. SUFFICES ASSUME i + 1 <= N PROVE Good(ends[i + 1])
    OBVIOUS
  <2>1. Good(ends[i])
    BY <1>1, <1>7
  <2>2. ends[i + 1] = OneMore(gr, ends[i])
    <3>1. i + 1 \in 1 .. N /\ (i + 1) - 1 = i
      BY <1>1
    <3>. QED
      BY <1>3, <3>1
  <2>. HIDE DEF Good
  <2>. QED
    BY <1>5, <2>1, <2>2
<1>8. Good(ends[N])
  <2>1. Nat \subseteq S
    BY <1>6, <1>7, SetInduction
  <2>. QED
    BY <1>1, <2>1
<1>. QED
  BY <1>3, <1>8

\* Ends of routes are edges and costs.
LEMMA RouteEndsType ==
  ASSUME NEW gr \in Graphs, NEW from, IsLocation(gr, from)
  PROVE  RouteEnds(gr, from) \subseteq [edge : DOMAIN gr.head, cost : Nat]
<1>. DEFINE Q == [edge : DOMAIN gr.head, cost : Nat]
<1>1. Slack \in Nat /\ Parts \in Nat
  BY SearchAssumption DEF Slack
<1>2. \A e \in DOMAIN gr.head : PartCost(gr, e) \in Nat /\ Parts * PartCost(gr, e) \in Nat
  BY <1>1, PartCostType, Product
<1>3. \A e, f \in DOMAIN gr.head : gr.penalty[e][f] \in Nat
  BY SearchAssumption DEF IsGraph
<1>4. \A o \in from : o.edge \in DOMAIN gr.head /\ PartCost(gr, o.edge) * (Parts - o.pos) \in Nat
  <2>1. \A o \in from : o.edge \in DOMAIN gr.head /\ Parts - o.pos \in Nat
    BY <1>1 DEF IsLocation
  <2>. QED
    BY <1>2, <2>1, Product
<1>5. \A o \in from :
        [edge |-> o.edge, cost |-> PartCost(gr, o.edge) * (Parts - o.pos) + Slack] \in Q
  BY <1>1, <1>4
<1>6. \A r \in Q : \A f \in DOMAIN gr.head :
        [edge |-> f, cost |-> r.cost + gr.penalty[r.edge][f] + Parts * PartCost(gr, f) + Slack] \in Q
  BY <1>1, <1>2, <1>3
<1>. QED
  BY <1>5, <1>6, RouteEndsWithin

\* What can be reached at all is reached on one edge or along several.
LEMMA CheapestIsARoute ==
  ASSUME NEW gr \in Graphs, NEW from, IsLocation(gr, from), NEW to, IsLocation(gr, to)
  PROVE  /\ Cheapest(gr, from, to) \in Nat
         /\ \/ Cheapest(gr, from, to) = Unreachable
            \/ \E o \in from, d \in to :
                 /\ o.edge = d.edge /\ o.pos <= d.pos
                 /\ Cheapest(gr, from, to) = PartCost(gr, o.edge) * (d.pos - o.pos) + Slack
            \/ \E r \in RouteEnds(gr, from), d \in to :
                 /\ Follows(gr, r.edge, d.edge)
                 /\ Cheapest(gr, from, to) = r.cost + gr.penalty[r.edge][d.edge]
                                             + PartCost(gr, d.edge) * d.pos + Slack
<1>. DEFINE
       direct == {PartCost(gr, p[1].edge) * (p[2].pos - p[1].pos) + Slack :
                   p \in {q \in from \X to : q[1].edge = q[2].edge /\ q[1].pos <= q[2].pos}}
       along == {p[1].cost + gr.penalty[p[1].edge][p[2].edge]
                + PartCost(gr, p[2].edge) * p[2].pos + Slack :
                  p \in {q \in RouteEnds(gr, from) \X to : Follows(gr, q[1].edge, q[2].edge)}}
       all == {Unreachable} \cup direct \cup along
<1>1. Slack \in Nat /\ Parts \in Nat /\ Unreachable \in Nat
  BY SearchAssumption DEF Slack
<1>2. \A e \in DOMAIN gr.head : PartCost(gr, e) \in Nat
  BY PartCostType
<1>3. \A o \in from \cup to : o.edge \in DOMAIN gr.head /\ o.pos \in Nat
  BY <1>1 DEF IsLocation
<1>4. direct \in SUBSET Nat
  <2>1. ASSUME NEW o \in from, NEW d \in to, o.pos <= d.pos
        PROVE  PartCost(gr, o.edge) * (d.pos - o.pos) + Slack \in Nat
    <3>1. d.pos - o.pos \in Nat
      BY <1>3, <2>1
    <3>2. PartCost(gr, o.edge) * (d.pos - o.pos) \in Nat
      BY <1>2, <1>3, <3>1, Product
    <3>. QED
      BY <1>1, <3>2
  <2>. QED
    BY <2>1
<1>5. along \in SUBSET Nat
  <2>1. ASSUME NEW r \in RouteEnds(gr, from), NEW d \in to
        PROVE  r.cost + gr.penalty[r.edge][d.edge] + PartCost(gr, d.edge) * d.pos + Slack \in Nat
    <3>1. r \in [edge : DOMAIN gr.head, cost : Nat]
      BY RouteEndsType
    <3>2. gr.penalty[r.edge][d.edge] \in Nat
      BY <1>3, <3>1, SearchAssumption DEF IsGraph
    <3>3. PartCost(gr, d.edge) * d.pos \in Nat
      BY <1>2, <1>3, Product
    <3>. QED
      BY <1>1, <3>1, <3>2, <3>3
  <2>. QED
    BY <2>1
<1>6. Cheapest(gr, from, to) = Min(all)
  BY DEF Cheapest
<1>7. Min(all) \in all /\ Min(all) \in Nat
  <2>. HIDE DEF direct, along
  <2>. QED
    BY <1>1, <1>4, <1>5, LeastOf
<1>8. Min(all) = Unreachable \/ Min(all) \in direct \/ Min(all) \in along
  <2>. HIDE DEF direct, along
  <2>. QED
    BY <1>7
<1>. HIDE DEF all
<1>9. CASE Min(all) \in direct
  BY <1>6, <1>7, <1>9
<1>10. CASE Min(all) \in along
  BY <1>6, <1>7, <1>10
<1>. QED
  BY <1>6, <1>7, <1>8, <1>9, <1>10

----------------------------------------------------------------------------
\* A multiple of the number of parts, divided by it, and a number that the
\* parts divide.
LEMMA Divided ==
  /\ \A P \in Nat \ {0} : \A y \in Int : (P * y) \div P = y
  /\ \A P \in Nat \ {0} : \A y \in Int : y % P = 0 => y = P * (y \div P)
  BY SMT

\* Products keep the order.
LEMMA Ordered ==
  /\ \A c \in Nat : \A a, b \in Int : a <= b => c * a <= c * b
  /\ \A P \in Nat \ {0} : \A a, b \in Int : P * a <= P * b => a <= b
  BY SMT

\* Costs of one bucket differ by less than its size, and buckets are in the order of costs.
LEMMA Buckets ==
  \A a, b \in Int :
    /\ (a \div BucketSize) \in Int
    /\ a <= b => a \div BucketSize <= b \div BucketSize
    /\ a \div BucketSize <= b \div BucketSize => a <= b + Slack
<1>. SUFFICES ASSUME NEW a \in Int, NEW b \in Int
     PROVE  /\ (a \div BucketSize) \in Int
            /\ a <= b => a \div BucketSize <= b \div BucketSize
            /\ a \div BucketSize <= b \div BucketSize => a <= b + Slack
  OBVIOUS
<1>. DEFINE s == a \div BucketSize
            t == b \div BucketSize
            B == BucketSize
<1>1. B \in Nat \ {0}
  BY SearchAssumption
<1>2. \A c \in Int : /\ (c \div B) \in Int
                    /\ B * (c \div B) <= c
                    /\ c < B * (c \div B) + B
  <2>. HIDE DEF B
  <2>. QED
    BY <1>1, SMT
<1>3. /\ s \in Int /\ t \in Int
      /\ B * s <= a /\ a < B * s + B /\ B * t <= b /\ b < B * t + B
  BY <1>2
<1>. HIDE DEF s, t, B
<1>4. ASSUME a <= b PROVE s <= t
  <2>. SUFFICES ASSUME t + 1 <= s PROVE FALSE
    BY <1>3
  <2>1. B * (t + 1) <= B * s
    <3>1. t + 1 \in Int /\ B \in Nat
      BY <1>1, <1>3
    <3>. QED
      BY <1>3, <3>1, Ordered
  <2>2. B * (t + 1) = B * t + B
    BY <1>1, <1>3, SMT
  <2>3. B * t \in Int /\ B * s \in Int
    BY <1>1, <1>3
  <2>. QED
    BY <1>1, <1>3, <1>4, <2>1, <2>2, <2>3
<1>5. ASSUME s <= t PROVE a <= b + Slack
  <2>1. B * s <= B * t
    BY <1>1, <1>3, <1>5, Ordered
  <2>2. B * t \in Int /\ B * s \in Int
    BY <1>1, <1>3
  <2>3. Slack = B - 1
    BY DEF Slack, B
  <2>. QED
    BY <1>1, <1>3, <2>1, <2>2, <2>3
<1>. QED
  BY <1>3, <1>4, <1>5 DEF s, t

----------------------------------------------------------------------------
\* The place of a candidate.
At(gr, c) == (Parts - c.pos) * (gr.x[gr.tail[c.edge]] \div Parts)
             + c.pos * (gr.x[gr.head[c.edge]] \div Parts)

\* Nodes are where parts meet.
LEMMA NodesBetweenParts ==
  ASSUME NEW gr \in Graphs, NEW e \in DOMAIN gr.head
  PROVE  LET a == gr.x[gr.tail[e]] \div Parts
             b == gr.x[gr.head[e]] \div Parts IN
           /\ a \in Int /\ b \in Int
           /\ gr.x[gr.tail[e]] = Parts * a /\ gr.x[gr.head[e]] = Parts * b
           /\ b - a <= gr.len[e] /\ a - b <= gr.len[e]
<1>. DEFINE s == gr.x[gr.tail[e]]
            t == gr.x[gr.head[e]]
            a == s \div Parts
            b == t \div Parts
<1>1. /\ Parts \in Nat \ {0} /\ s \in Int /\ t \in Int /\ s % Parts = 0 /\ t % Parts = 0
      /\ gr.len[e] \in Nat /\ Distance(t, s) <= Parts * gr.len[e]
  BY SearchAssumption DEF IsGraph
<1>. DEFINE l == gr.len[e]
<1>. HIDE DEF s, t, l
<1>2. a \in Int /\ b \in Int /\ s = Parts * a /\ t = Parts * b
  BY <1>1, Divided
<1>. HIDE DEF a, b
<1>3. Parts * (b - a) = t - s /\ Parts * (a - b) = s - t
  BY <1>1, <1>2
<1>4. Parts * (b - a) <= Parts * l /\ Parts * (a - b) <= Parts * l
  <2>1. Parts * l \in Int
    BY <1>1 DEF l
  <2>. QED
    BY <1>1, <1>3, <2>1 DEF Distance, l
<1>5. b - a <= l /\ a - b <= l
  <2>1. b - a \in Int /\ a - b \in Int /\ l \in Int
    BY <1>1, <1>2 DEF l
  <2>. QED
    BY <1>1, <1>4, <2>1, Ordered
<1>. QED
  BY <1>2, <1>5 DEF a, b, s, t, l

\* All candidates of a location are at the same place.
LEMMA SamePlace ==
  ASSUME NEW gr \in Graphs, NEW loc \in Locations(gr), NEW c \in loc, NEW d \in loc
  PROVE  At(gr, c) = At(gr, d)
<1>1. Parts \in Nat \ {0} /\ gr.access \subseteq DOMAIN gr.head
  BY SearchAssumption DEF IsGraph
<1>2. CASE \E m \in DOMAIN gr.x : loc = AtNode(gr, m)
  <2>1. PICK m \in DOMAIN gr.x : loc = AtNode(gr, m)
    BY <1>2
  <2>2. ASSUME NEW o \in loc PROVE At(gr, o) = Parts * (gr.x[m] \div Parts)
    <3>1. o.edge \in DOMAIN gr.head
      BY <1>1, <2>1 DEF AtNode
    <3>. DEFINE a == gr.x[gr.tail[o.edge]] \div Parts
                b == gr.x[gr.head[o.edge]] \div Parts
    <3>2. a \in Int /\ b \in Int
      BY <3>1, NodesBetweenParts
    <3>3. (o.pos = 0 /\ gr.tail[o.edge] = m) \/ (o.pos = Parts /\ gr.head[o.edge] = m)
      BY <2>1 DEF AtNode
    <3>4. At(gr, o) = (Parts - o.pos) * a + o.pos * b
      BY DEF At
    <3>5. (o.pos = 0 /\ a = gr.x[m] \div Parts) \/ (o.pos = Parts /\ b = gr.x[m] \div Parts)
      BY <3>3
    <3>. HIDE DEF a, b
    <3>. QED
      BY <1>1, <3>2, <3>4, <3>5
  <2>. QED
    BY <2>2
<1>3. CASE \E e \in gr.access, p \in 1 .. Parts - 1 : loc = OnEdge(gr, e, p)
  <2>1. PICK e \in gr.access, p \in 1 .. Parts - 1 : loc = OnEdge(gr, e, p)
    BY <1>3
  <2>. DEFINE f == gr.opp[e]
              a == gr.x[gr.tail[e]] \div Parts
              b == gr.x[gr.head[e]] \div Parts
  <2>2. e \in DOMAIN gr.head /\ gr.tail[f] = gr.head[e] /\ gr.head[f] = gr.tail[e]
    BY <1>1, SearchAssumption DEF IsGraph
  <2>3. a \in Int /\ b \in Int
    BY <2>2, NodesBetweenParts
  <2>4. ASSUME NEW o \in loc PROVE At(gr, o) = (Parts - p) * a + p * b
    <3>1. (o.edge = e /\ o.pos = p) \/ (o.edge = f /\ o.pos = Parts - p)
      BY <2>1 DEF OnEdge
    <3>2. CASE o.edge = e /\ o.pos = p
      BY <3>2 DEF At
    <3>3. CASE o.edge = f /\ o.pos = Parts - p
      <4>1. At(gr, o) = (Parts - (Parts - p)) * b + (Parts - p) * a
        BY <2>2, <3>3 DEF At
      <4>. HIDE DEF a, b
      <4>. QED
        BY <1>1, <2>3, <4>1
    <3>. QED
      BY <3>1, <3>2, <3>3
  <2>. QED
    BY <2>4
<1>. QED
  BY <1>2, <1>3 DEF Locations

\* The place of a location is that of each of its candidates.
LEMMA PlaceIsAt ==
  ASSUME NEW gr \in Graphs, NEW loc \in Locations(gr), NEW c \in loc
  PROVE  Place(gr, loc) = At(gr, c)
<1>. DEFINE o == CHOOSE o \in loc : TRUE
<1>1. o \in loc
  OBVIOUS
<1>2. o.edge \in DOMAIN gr.head /\ o.pos \in 0 .. Parts /\ Parts \in Nat \ {0}
  BY <1>1, LocationsAreLocations, SearchAssumption DEF IsLocation
<1>. DEFINE a == gr.x[gr.tail[o.edge]] \div Parts
            b == gr.x[gr.head[o.edge]] \div Parts
            p == o.pos
<1>3. /\ a \in Int /\ b \in Int
      /\ gr.x[gr.tail[o.edge]] = Parts * a /\ gr.x[gr.head[o.edge]] = Parts * b
  BY <1>2, NodesBetweenParts
<1>4. Place(gr, loc) = ((Parts - p) * gr.x[gr.tail[o.edge]] + p * gr.x[gr.head[o.edge]]) \div Parts
  BY DEF Place
<1>5. At(gr, o) = (Parts - p) * a + p * b
  BY DEF At
<1>6. At(gr, o) = At(gr, c)
  BY <1>1, SamePlace
<1>. HIDE DEF a, b, o
<1>7. Place(gr, loc) = ((Parts - p) * (Parts * a) + p * (Parts * b)) \div Parts
  BY <1>3, <1>4
<1>8. p \in Int
  BY <1>2
<1>. HIDE DEF p
<1>9. (Parts - p) * (Parts * a) + p * (Parts * b) = Parts * ((Parts - p) * a + p * b)
  BY <1>2, <1>3, <1>8, SMT
<1>10. (Parts - p) * a + p * b \in Int
  BY <1>2, <1>3, <1>8
<1>. QED
  BY <1>2, <1>5, <1>6, <1>7, <1>9, <1>10, Divided

\* Where the place of a candidate is along its edge.
LEMMA PlaceAlong ==
  ASSUME NEW gr \in Graphs, NEW loc \in Locations(gr), NEW c \in loc
  PROVE  /\ c.edge \in DOMAIN gr.head /\ c.pos \in 0 .. Parts /\ c.edge \in gr.access
         /\ Place(gr, loc) \in Int
         /\ Distance(gr.x[gr.tail[c.edge]], Place(gr, loc)) <= c.pos * gr.len[c.edge]
         /\ Distance(Place(gr, loc), gr.x[gr.head[c.edge]]) <= (Parts - c.pos) * gr.len[c.edge]
         /\ c.pos = 0 => Place(gr, loc) = gr.x[gr.tail[c.edge]]
         /\ c.pos = Parts => Place(gr, loc) = gr.x[gr.head[c.edge]]
<1>1. c.edge \in DOMAIN gr.head /\ c.pos \in 0 .. Parts
  BY LocationsAreLocations DEF IsLocation
<1>2. c.edge \in gr.access
  BY DEF Locations, AtNode, OnEdge
<1>. DEFINE a == gr.x[gr.tail[c.edge]] \div Parts
            b == gr.x[gr.head[c.edge]] \div Parts
            p == c.pos
            l == gr.len[c.edge]
<1>3. /\ a \in Int /\ b \in Int
      /\ gr.x[gr.tail[c.edge]] = Parts * a /\ gr.x[gr.head[c.edge]] = Parts * b
      /\ b - a <= l /\ a - b <= l
  BY <1>1, NodesBetweenParts
<1>4. Place(gr, loc) = (Parts - p) * a + p * b
  BY PlaceIsAt DEF At
<1>5. l \in Nat /\ Parts \in Nat /\ p \in Nat /\ Parts - p \in Nat
  BY <1>1, SearchAssumption DEF IsGraph
<1>. HIDE DEF a, b, l, p
<1>6. Parts * a - ((Parts - p) * a + p * b) = p * (a - b)
  BY <1>3, <1>5, SMT
<1>7. ((Parts - p) * a + p * b) - Parts * a = p * (b - a)
  BY <1>3, <1>5, SMT
<1>8. Parts * b - ((Parts - p) * a + p * b) = (Parts - p) * (b - a)
  BY <1>3, <1>5, SMT
<1>9. ((Parts - p) * a + p * b) - Parts * b = (Parts - p) * (a - b)
  BY <1>3, <1>5, SMT
<1>10. /\ p * (a - b) <= p * l /\ p * (b - a) <= p * l
       /\ (Parts - p) * (a - b) <= (Parts - p) * l /\ (Parts - p) * (b - a) <= (Parts - p) * l
  <2>1. a - b \in Int /\ b - a \in Int
    BY <1>3
  <2>. QED
    BY <1>3, <1>5, <2>1, Ordered
<1>. DEFINE w == (Parts - p) * a + p * b
            s == Parts * a
            t == Parts * b
<1>11. w \in Int /\ s \in Int /\ t \in Int
  BY <1>3, <1>5
<1>12. s - w <= p * l /\ w - s <= p * l /\ t - w <= (Parts - p) * l /\ w - t <= (Parts - p) * l
  BY <1>6, <1>7, <1>8, <1>9, <1>10
<1>13. (p = 0 => w = s) /\ (p = Parts => w = t)
  BY <1>3, <1>5
<1>14. Place(gr, loc) = w /\ gr.x[gr.tail[c.edge]] = s /\ gr.x[gr.head[c.edge]] = t
  BY <1>3, <1>4
<1>. HIDE DEF w, s, t
<1>15. Distance(s, w) <= p * l /\ Distance(w, t) <= (Parts - p) * l
  BY <1>5, <1>11, <1>12 DEF Distance
<1>. QED
  BY <1>1, <1>2, <1>11, <1>13, <1>14, <1>15 DEF p, l

\* Distances and estimates are natural numbers.
LEMMA GetType == \A d \in Nat : Get(d) \in Nat
  BY SearchAssumption, Product DEF Get

\* Distances are natural numbers.
LEMMA DistanceType == \A a, b \in Int : Distance(a, b) \in Nat
  BY DEF Distance

\* The heuristic takes no more off than what a way along an edge costs.
LEMMA HeuristicConsistent ==
  ASSUME NEW gr \in Graphs, NeverOverestimates(gr), NEW e \in DOMAIN gr.head,
         NEW j \in Nat, NEW a \in Int, NEW b \in Int, NEW p \in Int,
         Distance(a, b) <= j * gr.len[e]
  PROVE  Get(Distance(a, p)) <= PartCost(gr, e) * j + Get(Distance(b, p))
<1>. DEFINE l == gr.len[e]
            q == PartCost(gr, e)
<1>1. l \in Nat /\ q \in Nat /\ Parts \in Nat \ {0} /\ CostFactor \in Nat
  BY SearchAssumption, PartCostType DEF IsGraph
<1>2. CostFactor * (Parts * l) <= Parts * q
  BY DEF NeverOverestimates, Get
<1>. HIDE DEF l, q
<1>3. CostFactor * l <= q
  <2>1. CostFactor * (Parts * l) = Parts * (CostFactor * l)
    BY <1>1, SMT
  <2>2. CostFactor * l \in Int
    BY <1>1
  <2>. QED
    BY <1>1, <1>2, <2>1, <2>2, Ordered
<1>4. CostFactor * (j * l) <= q * j
  <2>1. CostFactor * (j * l) = j * (CostFactor * l)
    BY <1>1, SMT
  <2>2. q * j = j * q
    BY <1>1, SMT
  <2>3. CostFactor * l \in Int
    BY <1>1
  <2>. QED
    BY <1>1, <1>3, <2>1, <2>2, <2>3, Ordered
<1>5. Distance(a, p) <= j * l + Distance(b, p)
  <2>1. j * l \in Int
    BY <1>1
  <2>2. Distance(a, b) <= j * l
    BY DEF l
  <2>. QED
    BY <2>1, <2>2 DEF Distance
<1>. DEFINE u == Distance(a, p)
            v == Distance(b, p)
            m == j * l
<1>6. u \in Int /\ v \in Int /\ m \in Int /\ u <= m + v
  BY <1>1, <1>5, DistanceType
<1>. HIDE DEF u, v, m
<1>7. CostFactor * u <= CostFactor * m + CostFactor * v
  <2>1. CostFactor * u <= CostFactor * (m + v)
    <3>1. m + v \in Int
      BY <1>6
    <3>. QED
      BY <1>1, <1>6, <3>1, Ordered
  <2>2. CostFactor * (m + v) = CostFactor * m + CostFactor * v
    BY <1>1, <1>6, SMT
  <2>. QED
    BY <2>1, <2>2
<1>8. /\ CostFactor * u \in Int /\ CostFactor * m \in Int
      /\ CostFactor * v \in Int /\ q * j \in Int
  BY <1>1, <1>6
<1>9. CostFactor * u <= q * j + CostFactor * v
  BY <1>4, <1>7, <1>8 DEF m
<1>. QED
  BY <1>9 DEF q, u, v, Get

\* So it does along a whole edge, and from or to a candidate on one.
LEMMA HeuristicSteps ==
  ASSUME NEW gr \in Graphs, NeverOverestimates(gr), NEW p \in Int
  PROVE  /\ \A e \in DOMAIN gr.head :
              Get(Distance(gr.x[gr.tail[e]], p)) <=
                Parts * PartCost(gr, e) + Get(Distance(gr.x[gr.head[e]], p))
         /\ \A loc \in Locations(gr) : \A c \in loc :
              /\ Get(Distance(gr.x[gr.tail[c.edge]], Place(gr, loc))) <= PartCost(gr, c.edge) * c.pos
              /\ Get(Distance(Place(gr, loc), p)) <=
                   PartCost(gr, c.edge) * (Parts - c.pos)
                   + Get(Distance(gr.x[gr.head[c.edge]], p))
<1>1. Parts \in Nat
  BY SearchAssumption
<1>2. ASSUME NEW e \in DOMAIN gr.head
      PROVE  Get(Distance(gr.x[gr.tail[e]], p)) <=
                Parts * PartCost(gr, e) + Get(Distance(gr.x[gr.head[e]], p))
  <2>1. gr.x[gr.tail[e]] \in Int /\ gr.x[gr.head[e]] \in Int
    BY SearchAssumption DEF IsGraph
  <2>2. Distance(gr.x[gr.tail[e]], gr.x[gr.head[e]]) <= Parts * gr.len[e]
    <3>1. Distance(gr.x[gr.head[e]], gr.x[gr.tail[e]]) <= Parts * gr.len[e]
      BY SearchAssumption DEF IsGraph
    <3>2. Distance(gr.x[gr.head[e]], gr.x[gr.tail[e]]) = Distance(gr.x[gr.tail[e]], gr.x[gr.head[e]])
      BY <2>1 DEF Distance
    <3>. QED
      BY <3>1, <3>2
  <2>3. Get(Distance(gr.x[gr.tail[e]], p)) <=
          PartCost(gr, e) * Parts + Get(Distance(gr.x[gr.head[e]], p))
    BY <1>1, <2>1, <2>2, HeuristicConsistent
  <2>4. PartCost(gr, e) * Parts = Parts * PartCost(gr, e)
    <3>1. PartCost(gr, e) \in Nat
      BY PartCostType
    <3>. QED
      BY <1>1, <3>1, SMT
  <2>. QED
    BY <2>3, <2>4
<1>3. ASSUME NEW loc \in Locations(gr), NEW c \in loc
      PROVE  /\ Get(Distance(gr.x[gr.tail[c.edge]], Place(gr, loc))) <= PartCost(gr, c.edge) * c.pos
             /\ Get(Distance(Place(gr, loc), p)) <=
                   PartCost(gr, c.edge) * (Parts - c.pos)
                   + Get(Distance(gr.x[gr.head[c.edge]], p))
  <2>. DEFINE e == c.edge
              w == Place(gr, loc)
  <2>1. /\ e \in DOMAIN gr.head /\ c.pos \in Nat /\ Parts - c.pos \in Nat /\ w \in Int
        /\ Distance(gr.x[gr.tail[e]], w) <= c.pos * gr.len[e]
        /\ Distance(w, gr.x[gr.head[e]]) <= (Parts - c.pos) * gr.len[e]
    BY <1>1, PlaceAlong
  <2>2. gr.x[gr.tail[e]] \in Int /\ gr.x[gr.head[e]] \in Int
    BY <2>1, SearchAssumption DEF IsGraph
  <2>. HIDE DEF e, w
  <2>3. Get(Distance(gr.x[gr.tail[e]], w)) <= PartCost(gr, e) * c.pos + Get(Distance(w, w))
    BY <2>1, <2>2, HeuristicConsistent
  <2>4. Get(Distance(w, w)) = 0
    BY <2>1, SearchAssumption DEF Get, Distance
  <2>5. Get(Distance(gr.x[gr.tail[e]], w)) <= PartCost(gr, e) * c.pos
    <3>1. PartCost(gr, e) * c.pos \in Nat
      BY <2>1, PartCostType, Product
    <3>. QED
      BY <2>3, <2>4, <3>1
  <2>6. Get(Distance(w, p)) <=
           PartCost(gr, e) * (Parts - c.pos) + Get(Distance(gr.x[gr.head[e]], p))
    BY <2>1, <2>2, HeuristicConsistent
  <2>. QED
    BY <2>5, <2>6 DEF e, w
<1>. QED
  BY <1>2, <1>3

----------------------------------------------------------------------------
\* Every element of a finite set comes once.
LEMMA SetToSeqAll ==
  ASSUME NEW S, IsFiniteSet(S)
  PROVE  /\ SetToSeq(S) \in Seq(S) /\ IsInjective(SetToSeq(S))
         /\ \A x \in S : \E i \in DOMAIN SetToSeq(S) : SetToSeq(S)[i] = x
<1>. DEFINE n == Cardinality(S)
            q == SetToSeq(S)
<1>1. n \in Nat /\ ExistsBijection(1 .. n, S)
  BY FS_CardinalityType
<1>2. \E f \in [1 .. n -> S] : IsInjective(f)
  BY <1>1 DEF ExistsBijection, Bijection, Injection, IsInjective
<1>3. q \in [1 .. n -> S] /\ IsInjective(q)
  BY <1>2 DEF SetToSeq
<1>. HIDE DEF q
<1>4. q \in Injection(1 .. n, S)
  BY <1>3 DEF Injection
<1>5. IsFiniteSet(1 .. n) /\ Cardinality(1 .. n) = n
  <2>1. 1 \in Int /\ n \in Int
    BY <1>1
  <2>2. IsFiniteSet(1 .. n) /\ Cardinality(1 .. n) = IF 1 > n THEN 0 ELSE n - 1 + 1
    BY <2>1, FS_Interval
  <2>. QED
    BY <1>1, <2>2
<1>6. q \in Surjection(1 .. n, S)
  BY <1>4, <1>5, FS_Injection
<1>. QED
  BY <1>1, <1>3, <1>6 DEF Surjection, q

\* A location has one candidate on an edge: no edge is a loop or its own twin.
LEMMA OneCandidateEach ==
  ASSUME NEW gr \in Graphs, NEW loc \in Locations(gr), NEW b \in loc, NEW c \in loc,
         b.edge = c.edge
  PROVE  b = c
<1>1. /\ gr.access \subseteq DOMAIN gr.head
      /\ \A e \in DOMAIN gr.head : gr.tail[e] # gr.head[e] /\ gr.opp[e] # e
  BY SearchAssumption DEF IsGraph
<1>2. CASE \E m \in DOMAIN gr.x : loc = AtNode(gr, m)
  <2>1. PICK m \in DOMAIN gr.x : loc = AtNode(gr, m)
    BY <1>2
  <2>2. \A o \in loc : /\ o.edge \in DOMAIN gr.head /\ o = [edge |-> o.edge, pos |-> o.pos]
                       /\ \/ o.pos = 0 /\ gr.tail[o.edge] = m
                          \/ o.pos = Parts /\ gr.head[o.edge] = m
    BY <1>1, <2>1 DEF AtNode
  <2>. QED
    BY <1>1, <2>2
<1>3. CASE \E e \in gr.access, p \in 1 .. Parts - 1 : loc = OnEdge(gr, e, p)
  <2>1. PICK e \in gr.access, p \in 1 .. Parts - 1 : loc = OnEdge(gr, e, p)
    BY <1>3
  <2>2. \A o \in loc : /\ o = [edge |-> o.edge, pos |-> o.pos]
                       /\ \/ o.edge = e /\ o.pos = p
                          \/ o.edge = gr.opp[e] /\ o.pos = Parts - p
    BY <2>1 DEF OnEdge
  <2>. QED
    BY <1>1, <2>2
<1>. QED
  BY <1>2, <1>3 DEF Locations

\* The candidates of a tree, and what their labels cost.
LEMMA CandidateFacts ==
  ASSUME g \in Graphs, Asked, NEW d \in Directions
  PROVE  /\ IsFiniteSet(Candidates(d))
         /\ \A c \in Candidates(d) :
              /\ c \in IF d = "forward" THEN origin ELSE destination
              /\ c.edge \in Edges /\ c.edge \in g.access /\ c.pos \in 0 .. Parts
              /\ Along(d, c.edge) \in Edges
              /\ LeftOf(d, c) \in 0 .. Parts
              /\ PartCost(g, c.edge) * LeftOf(d, c) \in Nat
              /\ PartCost(g, c.edge) * LeftOf(d, c) <= Whole(c.edge)
         /\ \A b, c \in Candidates(d) : b.edge = c.edge => b = c
<1>. DEFINE loc == IF d = "forward" THEN origin ELSE destination
<1>1. loc \in Locations(g) /\ Candidates(d) \subseteq loc
  BY DEF Asked, Candidates
<1>2. IsFiniteSet(Candidates(d))
  BY <1>1, LocationsAreLocations, LocationsAreFinite, FS_Subset
<1>3. \A b, c \in Candidates(d) : b.edge = c.edge => b = c
  <2>. HIDE DEF loc
  <2>. QED
    BY <1>1, OneCandidateEach
<1>4. ASSUME NEW c \in Candidates(d)
      PROVE  /\ c \in loc
             /\ c.edge \in Edges /\ c.edge \in g.access /\ c.pos \in 0 .. Parts
             /\ Along(d, c.edge) \in Edges
             /\ LeftOf(d, c) \in 0 .. Parts
             /\ PartCost(g, c.edge) * LeftOf(d, c) \in Nat
             /\ PartCost(g, c.edge) * LeftOf(d, c) <= Whole(c.edge)
  <2>1. c \in loc
    BY <1>1
  <2>2. c.edge \in Edges /\ c.edge \in g.access /\ c.pos \in 0 .. Parts
    <3>. HIDE DEF loc
    <3>. QED
      BY <1>1, <2>1, PlaceAlong DEF Edges
  <2>3. Along(d, c.edge) \in Edges /\ Parts \in Nat /\ PartCost(g, c.edge) \in Nat
    BY <2>2, EdgeFacts
  <2>4. LeftOf(d, c) \in 0 .. Parts
    BY <2>2, <2>3 DEF LeftOf
  <2>. DEFINE q == PartCost(g, c.edge)
              p == LeftOf(d, c)
  <2>5. q * p \in Nat /\ q * p <= Parts * q
    <3>1. q \in Nat /\ p \in Nat /\ p <= Parts /\ Parts \in Nat
      BY <2>3, <2>4
    <3>. HIDE DEF q, p
    <3>2. q * p \in Nat
      BY <3>1, Product
    <3>3. q * p <= q * Parts
      BY <3>1, Ordered
    <3>4. q * Parts = Parts * q
      BY <3>1, SMT
    <3>. QED
      BY <3>2, <3>3, <3>4
  <2>. QED
    BY <2>1, <2>2, <2>3, <2>4, <2>5 DEF Whole
<1>. QED
  BY <1>2, <1>3, <1>4

\* A tree that starts has a label of each of its candidates.
LEMMA SeedMoves ==
  ASSUME IInv, Asked, NEW d \in Directions, Seed(d), labels[d] = <<>>, cur[d] = 0
  PROVE  Seeds(d) /\ Stays(Other(d))
<1>. DEFINE cands == SetToSeq(Candidates(d))
            L(i) == EdgeLabel(d, Along(d, cands[i].edge), 0,
                              PartCost(g, cands[i].edge) * LeftOf(d, cands[i]), 0)
            new == [i \in DOMAIN cands |-> L(i)]
            st == [e \in Edges |->
                     IF \E i \in DOMAIN new : new[i].edge = e
                     THEN [set |-> "temporary", idx |-> CHOOSE i \in DOMAIN new : new[i].edge = e]
                     ELSE status[d][e]]
<1>1. /\ g \in Graphs /\ Trees /\ Other(d) \in Directions /\ Other(d) # d
      /\ queue[d] = {}
  BY Others DEF IInv, TypeOK, Trees, TreeInv, TreeTypes
<1>2. /\ cands \in Seq(Candidates(d)) /\ IsInjective(cands)
      /\ \A c \in Candidates(d) : \E i \in DOMAIN cands : cands[i] = c
  BY <1>1, CandidateFacts, SetToSeqAll
<1>. HIDE DEF cands
<1>3. \A i \in DOMAIN cands : cands[i] \in Candidates(d)
  BY <1>2
<1>4. /\ labels' = [labels EXCEPT ![d] = new]
      /\ queue' = [queue EXCEPT ![d] = DOMAIN new]
      /\ status' = [status EXCEPT ![d] = st]
      /\ cur' = cur /\ cursor' = cursor
  BY <1>1 DEF Seed, LeftOf, cands
<1>5. /\ labels'[d] = new /\ queue'[d] = DOMAIN new /\ status'[d] = st
      /\ Stays(Other(d))
  <2>. HIDE DEF new, st
  <2>. QED
    BY <1>1, <1>4 DEF Trees, Stays
<1>6. ASSUME NEW i \in DOMAIN new
      PROVE  /\ i \in DOMAIN cands /\ cands[i] \in Candidates(d)
             /\ Starts(d, new[i], cands[i])
             /\ new[i].sort = new[i].cost + Get(ToGo(d, new[i].edge))
             /\ new[i].edge \in Edges
  <2>1. i \in DOMAIN cands /\ new[i] = L(i) /\ cands[i] \in Candidates(d)
    BY <1>3
  <2>2. Along(d, cands[i].edge) \in Edges
    BY <1>1, <2>1, CandidateFacts
  <2>. HIDE DEF new
  <2>. QED
    BY <2>1, <2>2 DEF Starts, EdgeLabel
<1>7. DOMAIN new = DOMAIN cands
  OBVIOUS
<1>8. \A i, j \in DOMAIN new : new[i].edge = new[j].edge => i = j
  <2>. SUFFICES ASSUME NEW i \in DOMAIN new, NEW j \in DOMAIN new, new[i].edge = new[j].edge
                PROVE  i = j
    OBVIOUS
  <2>. HIDE DEF new
  <2>1. /\ Along(d, cands[i].edge) = Along(d, cands[j].edge)
        /\ cands[i] \in Candidates(d) /\ cands[j] \in Candidates(d)
    BY <1>6 DEF Starts
  <2>2. cands[i].edge \in Edges /\ cands[j].edge \in Edges
    BY <1>1, <2>1, CandidateFacts
  <2>3. cands[i].edge = cands[j].edge
    <3>1. /\ Along(d, Along(d, cands[i].edge)) = cands[i].edge
          /\ Along(d, Along(d, cands[j].edge)) = cands[j].edge
      BY <1>1, <2>2, EdgeFacts
    <3>. QED
      BY <2>1, <3>1, Zenon
  <2>4. cands[i] = cands[j]
    BY <1>1, <2>1, <2>3, CandidateFacts
  <2>. QED
    BY <1>2, <1>7, <2>4 DEF IsInjective
<1>9. ASSUME NEW i \in DOMAIN new
      PROVE  st[new[i].edge].set = "temporary" /\ st[new[i].edge].idx = i
  <2>1. new[i].edge \in Edges
    BY <1>6
  <2>. HIDE DEF new
  <2>. DEFINE j == CHOOSE j \in DOMAIN new : new[j].edge = new[i].edge
  <2>2. j = i
    <3>1. j \in DOMAIN new /\ new[j].edge = new[i].edge
      OBVIOUS
    <3>. HIDE DEF j
    <3>. QED
      BY <1>8, <3>1
  <2>3. st[new[i].edge] = [set |-> "temporary", idx |-> i]
    BY <2>1, <2>2
  <2>. QED
    BY <2>3
<1>10. ASSUME NEW c \in Candidates(d) PROVE \E i \in DOMAIN new : Starts(d, new[i], c)
  <2>1. PICK i \in DOMAIN cands : cands[i] = c
    BY <1>2
  <2>. HIDE DEF new
  <2>. QED
    BY <1>6, <1>7, <2>1
<1>11. ASSUME NEW e \in Edges
       PROVE  st[e].set = "unreached" \/ \E i \in DOMAIN new : new[i].edge = e
  <2>1. status[d][e].set # "unreached" => status[d][e].idx \in DOMAIN labels[d]
    BY TreeFacts
  <2>2. status[d][e].set = "unreached"
    BY <2>1
  <2>. HIDE DEF new
  <2>. QED
    BY <2>2
<1>. HIDE DEF new, st
<1>. QED
  BY <1>1, <1>4, <1>5, <1>6, <1>9, <1>10, <1>11 DEF Seeds

----------------------------------------------------------------------------
\* A label is that of a candidate, or continues one that was popped, and costs what the way
\* to it costs.
AddsUp(d, l) ==
  \/ l.pred = 0 /\ \E c \in Candidates(d) : Starts(d, l, c)
  \/ /\ l.pred \in DOMAIN labels[d] \ queue[d]
     /\ g.tail[l.edge] = g.head[labels[d][l.pred].edge]
     /\ l.turn = Turn(d, labels[d][l.pred].edge, l.edge)
     /\ l.cost = labels[d][l.pred].cost + l.turn + Whole(Along(d, l.edge))

\* Every label adds up, is sorted by its cost and the estimate, and is of an edge that may be used.
LabelsAddUp(d) ==
  \A i \in DOMAIN labels[d] :
    /\ AddsUp(d, labels[d][i])
    /\ labels[d][i].sort = labels[d][i].cost + Get(ToGo(d, labels[d][i].edge))
    /\ Along(d, labels[d][i].edge) \in g.access

\* The status of an edge is about a label of it; labels in the queue are current.
StatusIsLabel(d) ==
  \A e \in Edges : status[d][e].set # "unreached" => labels[d][status[d][e].idx].edge = e

\* A queued label is the one its edge has.
QueuedIsTemporary(d) ==
  \A i \in queue[d] : /\ status[d][labels[d][i].edge].set = "temporary"
                      /\ status[d][labels[d][i].edge].idx = i

\* The edge popped last is not labelled temporarily any more.
LastSettled(d) ==
  cur[d] # 0 => status[d][labels[d][cur[d]].edge].set # "temporary"

\* Three edges of a tree in the order in which they are travelled.
Triple(d, a, b, c) ==
  IF d = "forward" THEN <<a, b, c>> ELSE <<g.opp[c], g.opp[b], g.opp[a]>>

\* No three labels behind each other are of a restricted turn.
Unrestricted(d) ==
  \A i \in DOMAIN labels[d] : \A j, m \in DOMAIN labels[d] :
    labels[d][i].pred = j /\ labels[d][j].pred = m =>
      Triple(d, labels[d][m].edge, labels[d][j].edge, labels[d][i].edge) \notin g.restrictions

\* Labels were popped one after the other, each after its predecessor.
Ranked(d) ==
  \E r \in [DOMAIN labels[d] -> Nat], n \in Nat :
    \A i \in DOMAIN labels[d] :
      /\ r[i] <= n <=> i \notin queue[d]
      /\ r[i] <= n + 1
      /\ labels[d][i].pred # 0 => r[labels[d][i].pred] < r[i]

\* The invariant of one tree.
TInv(d) ==
  /\ LabelsAddUp(d) /\ StatusIsLabel(d) /\ QueuedIsTemporary(d) /\ LastSettled(d)
  /\ Unrestricted(d) /\ Ranked(d)

\* A step seen from one tree.
TreeStep(d) ==
  \/ Stays(d)
  \/ \E i \in queue[d] : Pops(d, i)
  \/ /\ pc = "expand" /\ cur[d] \in DOMAIN labels[d]
     /\ \E e \in Edges, i \in DOMAIN labels'[d] :
          Takes(d, e, i) /\ g.tail[e] = g.head[labels[d][cur[d]].edge]
  \/ Unreaches(d) /\ cur[d] \in DOMAIN labels[d] /\ g.restrictions # {}
  \/ Seeds(d)

----------------------------------------------------------------------------
\* The edges that are expanded leave the end of the label popped last.
LEMMA ExpandedLeave ==
  ASSUME IInv, pc = "expand"
  PROVE  /\ last.edge \in Edges /\ Back \in Edges /\ g.tail[Back] = EndNode
         /\ Len(Out) \in Nat
         /\ \A x \in 1 .. Len(Out) : Out[x] \in Edges /\ g.tail[Out[x]] = EndNode
         /\ \A e \in Edges : g.tail[e] = EndNode => \E x \in 1 .. Len(Out) : Out[x] = e
         /\ k \in 1 .. Len(Out) + 1
<1>1. last.edge \in Edges /\ IsGraph(g) /\ g \in Graphs
  BY LastType, SearchAssumption DEF Label
<1>2. Back \in Edges /\ EndNode \in DOMAIN g.x /\ g.tail[Back] = EndNode
  BY <1>1 DEF Back, EndNode, Edges, IsGraph
<1>3. /\ Out \in Seq(Edges)
      /\ {Out[x] : x \in 1 .. Len(Out)} = {e \in Edges : g.tail[e] = EndNode}
  BY <1>1, <1>2 DEF Out, Edges, IsGraph
<1>4. k \in 1 .. Len(Out) + 1
  BY DEF IInv, TypeOK
<1>5. Len(Out) \in Nat
  BY <1>3
<1>6. \A x \in 1 .. Len(Out) : Out[x] \in {e \in Edges : g.tail[e] = EndNode}
  BY <1>3
<1>7. \A e \in {f \in Edges : g.tail[f] = EndNode} : \E x \in 1 .. Len(Out) : Out[x] = e
  BY <1>3
<1>. QED
  BY <1>1, <1>2, <1>4, <1>5, <1>6, <1>7

\* Expanding an edge, seen from each tree.
LEMMA ExpandSteps ==
  ASSUME IInv, Expanding, NEW e \in Edges, NEW deadend, ExpandInner(e, deadend),
         g.tail[e] = EndNode
  PROVE  \A d \in Directions : TreeStep(d)
<1>1. /\ pc = "expand" /\ UNCHANGED <<query, cursor, cur, side>> /\ side \in Directions
      /\ cur[side] \in DOMAIN labels[side]
  BY LastType DEF Expanding, query
<1>2. /\ Stays(Other(side))
      /\ \/ \E i \in DOMAIN labels'[side] : Takes(side, e, i)
         \/ Unreaches(side) /\ g.restrictions # {}
         \/ Stays(side)
  BY <1>1, ExpandMoves
<1>3. TreeStep(side)
  BY <1>1, <1>2 DEF TreeStep, EndNode, last
<1>4. TreeStep(Other(side))
  BY <1>2 DEF TreeStep
<1>. QED
  BY <1>1, <1>3, <1>4, Others

\* Every step, seen from each tree.
LEMMA StepMoves ==
  ASSUME IInv, Asked, [Next]_vars
  PROVE  /\ g' = g /\ origin' = origin /\ destination' = destination
         /\ \A d \in Directions : TreeStep(d)
<1>1. g' = g /\ origin' = origin /\ destination' = destination
  <2>1. UNCHANGED query
    BY DEF Next, vars, SetOrigin, SetDestination, Seed, Exhausted, Stop, Connect, PopOther,
           Choose, Expanding, ExpandBlocked, ExpandEdge, SkipBack, UTurn, EndExpand
  <2>. QED
    BY <2>1 DEF query
<1>2. ASSUME NEW d \in Directions, TreeStep(d), Stays(Other(d))
      PROVE  \A t \in Directions : TreeStep(t)
  BY <1>2, Others DEF TreeStep
<1>3. ASSUME UNCHANGED <<labels, queue, cursor, status, cur>>
      PROVE  \A t \in Directions : TreeStep(t)
  BY <1>3 DEF TreeStep, Stays
<1>4. CASE SetOrigin \/ SetDestination
  <2>. DEFINE d == IF pc = "origin" THEN "forward" ELSE "reverse"
  <2>1. d \in Directions /\ Seed(d) /\ labels[d] = <<>> /\ cur[d] = 0
    BY <1>4 DEF SetOrigin, SetDestination, IInv, Stages, Directions
  <2>. HIDE DEF d
  <2>2. Seeds(d) /\ Stays(Other(d))
    BY <2>1, SeedMoves
  <2>. QED
    BY <1>1, <1>2, <2>1, <2>2 DEF TreeStep
<1>5. ASSUME NEW d \in Directions, NEW i \in queue[d], Stop(d, i) \/ Connect(d, i) \/ PopOther(d, i)
      PROVE  \A t \in Directions : TreeStep(t)
  <2>1. Pop(d, i) /\ UNCHANGED labels
    BY <1>5 DEF Stop, Connect, PopOther
  <2>2. Pops(d, i) /\ Stays(Other(d))
    BY <2>1, PopMoves
  <2>. QED
    BY <1>2, <2>2 DEF TreeStep
<1>6. CASE ExpandBlocked \/ UTurn
  <2>1. Expanding /\ ExpandInner(Back, TRUE)
    BY <1>6 DEF ExpandBlocked, UTurn
  <2>2. pc = "expand"
    BY <2>1 DEF Expanding
  <2>. QED
    BY <1>1, <2>1, <2>2, ExpandedLeave, ExpandSteps
<1>7. CASE ExpandEdge
  <2>1. Expanding /\ ExpandInner(Out[k], FALSE) /\ k <= Len(Out)
    BY <1>7 DEF ExpandEdge
  <2>2. pc = "expand"
    BY <2>1 DEF Expanding
  <2>3. Out[k] \in Edges /\ g.tail[Out[k]] = EndNode
    BY <2>1, <2>2, ExpandedLeave
  <2>. QED
    BY <1>1, <2>1, <2>3, ExpandSteps
<1>8. CASE \/ \E d \in Directions : Exhausted(d)
           \/ Choose \/ SkipBack \/ EndExpand \/ UNCHANGED vars
  <2>1. UNCHANGED <<labels, queue, cursor, status, cur>>
    BY <1>8 DEF Exhausted, Choose, SkipBack, EndExpand, Expanding, vars
  <2>. QED
    BY <1>1, <1>3, <2>1
<1>. QED
  BY <1>1, <1>4, <1>5, <1>6, <1>7, <1>8 DEF Next

----------------------------------------------------------------------------
\* What the invariant says of one tree, also after a step.
TreeShape(d) ==
  /\ g \in Graphs /\ labels[d] \in Seq(Label)
  /\ Len(labels[d]) \in Nat /\ DOMAIN labels[d] = 1 .. Len(labels[d])
  /\ \A i \in DOMAIN labels[d] :
       /\ labels[d][i].edge \in Edges /\ labels[d][i].pred \in 0 .. Len(labels[d])
       /\ labels[d][i].cost \in Nat /\ labels[d][i].sort \in Int /\ labels[d][i].turn \in Nat
  /\ queue[d] \subseteq DOMAIN labels[d] /\ cursor[d] \in Int
  /\ cur[d] \in 0 .. Len(labels[d]) /\ cur[d] \notin queue[d]
  /\ \A e \in Edges :
       /\ status[d][e].set \in {"unreached", "temporary", "permanent"}
       /\ status[d][e].idx \in Nat
       /\ status[d][e].set # "unreached" => status[d][e].idx \in DOMAIN labels[d]
       /\ status[d][e].set = "temporary" =>
            status[d][e].idx \in queue[d] /\ labels[d][status[d][e].idx].edge = e

\* Both trees have the shape that the invariant of types says.
LEMMA TreeShapes == IInv => \A d \in Directions : TreeShape(d)
<1>. SUFFICES ASSUME IInv, NEW d \in Directions PROVE TreeShape(d)
  OBVIOUS
<1>. QED
  BY TreeFacts DEF TreeShape

\* They have it after a step.
LEMMA TreeShapesNext == ASSUME IInv' PROVE \A d \in Directions : TreeShape(d)'
<1>1. (IInv => \A d \in Directions : TreeShape(d))'
  BY TreeShapes, PTL
<1>. QED
  BY <1>1

\* What a tree's labels are about does not change with them.
LEMMA SameQuery ==
  ASSUME g' = g, origin' = origin, destination' = destination
  PROVE  /\ Edges' = Edges
         /\ \A d : Candidates(d)' = Candidates(d)
         /\ \A d, e : Along(d, e)' = Along(d, e) /\ ToGo(d, e)' = ToGo(d, e)
         /\ \A e : Whole(e)' = Whole(e)
         /\ \A d, e, f : Turn(d, e, f)' = Turn(d, e, f)
         /\ \A d, l, c : Starts(d, l, c)' <=> Starts(d, l, c)
         /\ \A d, a, b, c : Triple(d, a, b, c)' = Triple(d, a, b, c)
<1>1. \A d : Candidates(d)' = Candidates(d)
  BY DEF Candidates
<1>2. \A d, e : Along(d, e)' = Along(d, e) /\ ToGo(d, e)' = ToGo(d, e)
  BY DEF Along, ToGo
<1>3. \A e : Whole(e)' = Whole(e)
  BY DEF Whole
<1>4. \A d, e, f : Turn(d, e, f)' = Turn(d, e, f)
  BY DEF Turn
<1>5. \A d, l, c : Starts(d, l, c)' <=> Starts(d, l, c)
  BY <1>2 DEF Starts
<1>6. \A d, a, b, c : Triple(d, a, b, c)' = Triple(d, a, b, c)
  BY DEF Triple
<1>7. Edges' = Edges
  BY DEF Edges
<1>. QED
  BY <1>1, <1>2, <1>3, <1>4, <1>5, <1>6, <1>7

\* Labels that stay keep what they are.
LEMMA LabelsStayAddedUp ==
  ASSUME IInv, g' = g, origin' = origin, destination' = destination, NEW d \in Directions,
         LabelsAddUp(d), Unrestricted(d), labels'[d] = labels[d], queue'[d] \subseteq queue[d]
  PROVE  LabelsAddUp(d)' /\ Unrestricted(d)'
<1>2. LabelsAddUp(d)'
  BY SameQuery DEF LabelsAddUp, AddsUp
<1>3. Unrestricted(d)'
  BY SameQuery DEF Unrestricted
<1>. QED
  BY <1>2, <1>3

\* A tree keeps its invariant while the other one moves.
LEMMA StayKeepsTInv ==
  ASSUME IInv, g' = g, origin' = origin, destination' = destination, NEW d \in Directions,
         TInv(d), Stays(d)
  PROVE  TInv(d)'
<1>1. /\ labels'[d] = labels[d] /\ queue'[d] = queue[d] /\ status'[d] = status[d] /\ cur'[d] = cur[d]
      /\ Edges' = Edges
  BY SameQuery DEF Stays
<1>2. LabelsAddUp(d)' /\ Unrestricted(d)'
  BY <1>1, LabelsStayAddedUp DEF TInv
<1>3. StatusIsLabel(d)' /\ QueuedIsTemporary(d)' /\ LastSettled(d)' /\ Ranked(d)'
  BY <1>1 DEF TInv, StatusIsLabel, QueuedIsTemporary, LastSettled, Ranked
<1>. QED
  BY <1>2, <1>3 DEF TInv

\* It keeps it when a label is popped: the rank of that label is the next one.
LEMMA PopKeepsTInv ==
  ASSUME IInv, g' = g, origin' = origin, destination' = destination, NEW d \in Directions,
         TInv(d), NEW i \in queue[d], Pops(d, i)
  PROVE  TInv(d)'
<1>1. /\ labels'[d] = labels[d] /\ queue'[d] = queue[d] \ {i} /\ cur'[d] = i
      /\ \A e \in Edges :
           /\ status'[d][e].idx = status[d][e].idx
           /\ status'[d][e].set = IF e = labels[d][i].edge THEN "permanent" ELSE status[d][e].set
      /\ Edges' = Edges
  BY SameQuery DEF Pops
<1>2. LabelsAddUp(d)' /\ Unrestricted(d)'
  BY <1>1, LabelsStayAddedUp DEF TInv
<1>3. /\ queue[d] \subseteq DOMAIN labels[d] /\ i \in DOMAIN labels[d]
      /\ \A j \in DOMAIN labels[d] : labels[d][j].edge \in Edges
  BY TreeFacts
<1>4. /\ \A j \in queue[d] : /\ status[d][labels[d][j].edge].set = "temporary"
                             /\ status[d][labels[d][j].edge].idx = j
      /\ \A e \in Edges : status[d][e].set # "unreached" => labels[d][status[d][e].idx].edge = e
  BY DEF TInv, QueuedIsTemporary, StatusIsLabel
<1>5. StatusIsLabel(d)'
  <2>. SUFFICES ASSUME NEW e \in Edges, status'[d][e].set # "unreached"
                PROVE  labels'[d][status'[d][e].idx].edge = e
    BY <1>1 DEF StatusIsLabel
  <2>1. CASE e = labels[d][i].edge
    BY <1>1, <1>4, <2>1
  <2>2. CASE e # labels[d][i].edge
    BY <1>1, <1>4, <2>2
  <2>. QED
    BY <2>1, <2>2
<1>6. QueuedIsTemporary(d)'
  <2>. SUFFICES ASSUME NEW j \in queue[d] \ {i}
                PROVE  /\ status'[d][labels[d][j].edge].set = "temporary"
                       /\ status'[d][labels[d][j].edge].idx = j
    BY <1>1 DEF QueuedIsTemporary
  <2>. DEFINE e == labels[d][j].edge
  <2>1. e \in Edges /\ status[d][e].set = "temporary" /\ status[d][e].idx = j
    BY <1>3, <1>4
  <2>2. e # labels[d][i].edge
    BY <1>4, <2>1
  <2>. QED
    BY <1>1, <2>1, <2>2
<1>7. LastSettled(d)'
  BY <1>1, <1>3 DEF LastSettled
<1>8. Ranked(d)'
  <2>1. PICK r \in [DOMAIN labels[d] -> Nat], n \in Nat :
          \A j \in DOMAIN labels[d] :
            /\ r[j] <= n <=> j \notin queue[d]
            /\ r[j] <= n + 1
            /\ labels[d][j].pred # 0 => r[labels[d][j].pred] < r[j]
    BY DEF TInv, Ranked
  <2>. DEFINE s == [j \in DOMAIN labels[d] |-> IF j \in queue[d] \ {i} THEN n + 2 ELSE r[j]]
  <2>2. s \in [DOMAIN labels[d] -> Nat] /\ n + 1 \in Nat
    BY <2>1
  <2>3. \A j \in DOMAIN labels[d] : labels[d][j].pred # 0 =>
            labels[d][j].pred \in DOMAIN labels[d] \ queue[d]
    BY DEF TInv, LabelsAddUp, AddsUp
  <2>4. ASSUME NEW j \in DOMAIN labels[d]
        PROVE  /\ s[j] <= n + 1 <=> j \notin queue[d] \ {i}
               /\ s[j] <= (n + 1) + 1
               /\ labels[d][j].pred # 0 => s[labels[d][j].pred] < s[j]
    <3>. DEFINE p == labels[d][j].pred
    <3>1. r[j] \in Nat /\ (r[j] <= n <=> j \notin queue[d]) /\ r[j] <= n + 1
      BY <2>1
    <3>2. p # 0 => p \in DOMAIN labels[d] \ queue[d] /\ r[p] \in Nat /\ r[p] <= n /\ r[p] < r[j]
      BY <2>1, <2>3
    <3>3. s[j] = (IF j \in queue[d] \ {i} THEN n + 2 ELSE r[j]) /\ (p # 0 => s[p] = r[p])
      BY <3>2
    <3>. HIDE DEF s, p
    <3>. QED
      BY <2>1, <3>1, <3>2, <3>3 DEF p
  <2>. HIDE DEF s
  <2>. QED
    BY <1>1, <2>2, <2>4 DEF Ranked
<1>. QED
  BY <1>2, <1>5, <1>6, <1>7, <1>8 DEF TInv

\* It keeps it when FormPath resets an edge.
LEMMA UnreachKeepsTInv ==
  ASSUME IInv, g' = g, origin' = origin, destination' = destination, NEW d \in Directions,
         TInv(d), Unreaches(d), cur[d] \in DOMAIN labels[d]
  PROVE  TInv(d)'
<1>1. /\ labels'[d] = labels[d] /\ queue'[d] = queue[d] /\ cur'[d] = cur[d]
      /\ \A e \in Edges :
           /\ status'[d][e].idx = status[d][e].idx
           /\ status'[d][e].set = IF e = labels[d][cur[d]].edge THEN "unreached" ELSE status[d][e].set
      /\ Edges' = Edges
  BY SameQuery DEF Unreaches
<1>2. LabelsAddUp(d)' /\ Unrestricted(d)'
  BY <1>1, LabelsStayAddedUp DEF TInv
<1>3. /\ queue[d] \subseteq DOMAIN labels[d] /\ cur[d] # 0
      /\ \A j \in DOMAIN labels[d] : labels[d][j].edge \in Edges
  BY TreeFacts
<1>4. /\ \A j \in queue[d] : /\ status[d][labels[d][j].edge].set = "temporary"
                             /\ status[d][labels[d][j].edge].idx = j
      /\ \A e \in Edges : status[d][e].set # "unreached" => labels[d][status[d][e].idx].edge = e
      /\ status[d][labels[d][cur[d]].edge].set # "temporary"
  BY <1>3 DEF TInv, QueuedIsTemporary, StatusIsLabel, LastSettled
<1>5. StatusIsLabel(d)'
  BY <1>1, <1>4 DEF StatusIsLabel
<1>6. QueuedIsTemporary(d)'
  <2>. SUFFICES ASSUME NEW j \in queue[d]
                PROVE  /\ status'[d][labels[d][j].edge].set = "temporary"
                       /\ status'[d][labels[d][j].edge].idx = j
    BY <1>1 DEF QueuedIsTemporary
  <2>. DEFINE e == labels[d][j].edge
  <2>1. e \in Edges /\ status[d][e].set = "temporary" /\ status[d][e].idx = j
    BY <1>3, <1>4
  <2>. QED
    BY <1>1, <1>4, <2>1
<1>7. LastSettled(d)'
  BY <1>1, <1>3 DEF LastSettled
<1>8. Ranked(d)'
  BY <1>1 DEF TInv, Ranked
<1>. QED
  BY <1>2, <1>5, <1>6, <1>7, <1>8 DEF TInv

\* It has it once SetOrigin or SetDestination labelled the candidates.
LEMMA SeedKeepsTInv ==
  ASSUME IInv, Asked, g' = g, origin' = origin, destination' = destination, NEW d \in Directions,
         Seeds(d), IInv'
  PROVE  TInv(d)'
<1>1. /\ Edges' = Edges /\ Candidates(d)' = Candidates(d) /\ g \in Graphs
      /\ cur'[d] = 0 /\ queue'[d] = DOMAIN labels'[d]
  BY SameQuery, TreeFacts DEF Seeds
<1>2. /\ \A i \in DOMAIN labels'[d] :
           /\ \E c \in Candidates(d) : Starts(d, labels'[d][i], c)
           /\ labels'[d][i].sort = labels'[d][i].cost + Get(ToGo(d, labels'[d][i].edge))
           /\ status'[d][labels'[d][i].edge].set = "temporary"
           /\ status'[d][labels'[d][i].edge].idx = i
  BY DEF Seeds
<1>3. \A i \in DOMAIN labels'[d] : labels'[d][i].pred = 0
  BY <1>2 DEF Starts
<1>4. ASSUME NEW i \in DOMAIN labels'[d] PROVE Along(d, labels'[d][i].edge) \in g.access
  <2>1. PICK c \in Candidates(d) : labels'[d][i].edge = Along(d, c.edge)
    BY <1>2 DEF Starts
  <2>2. c.edge \in g.access /\ c.edge \in Edges
    BY <1>1, <2>1, CandidateFacts
  <2>3. Along(d, Along(d, c.edge)) = c.edge
    BY <1>1, <2>2, EdgeFacts
  <2>. QED
    BY <2>1, <2>2, <2>3
<1>5. LabelsAddUp(d)'
  BY <1>2, <1>3, <1>4, SameQuery DEF LabelsAddUp, AddsUp
<1>6. Unrestricted(d)'
  <2>1. 0 \notin DOMAIN labels'[d]
    BY TreeShapesNext DEF TreeShape
  <2>. QED
    BY <1>3, <2>1 DEF Unrestricted
<1>7. StatusIsLabel(d)'
  <2>1. \A e \in Edges : \/ status'[d][e].set = "unreached"
                        \/ \E i \in DOMAIN labels'[d] : labels'[d][i].edge = e
    BY DEF Seeds
  <2>. QED
    BY <1>1, <1>2, <2>1 DEF StatusIsLabel
<1>8. QueuedIsTemporary(d)' /\ LastSettled(d)'
  BY <1>1, <1>2 DEF QueuedIsTemporary, LastSettled
<1>9. Ranked(d)'
  <2>. DEFINE r == [i \in DOMAIN labels'[d] |-> 1]
  <2>1. r \in [DOMAIN labels'[d] -> Nat] /\ 0 \in Nat
    OBVIOUS
  <2>2. \A i \in DOMAIN labels'[d] : /\ r[i] <= 0 <=> i \notin queue'[d]
                                     /\ r[i] <= 0 + 1
                                     /\ labels'[d][i].pred # 0 => r[labels'[d][i].pred] < r[i]
    BY <1>1, <1>3
  <2>. HIDE DEF r
  <2>. QED
    BY <2>1, <2>2 DEF Ranked
<1>. QED
  BY <1>5, <1>6, <1>7, <1>8, <1>9 DEF TInv

----------------------------------------------------------------------------
\* What is popped of a tree, and the labels of it, stay when an edge is labelled.
LEMMA TakeFacts ==
  ASSUME IInv, NEW d \in Directions, NEW e \in Edges, NEW i \in DOMAIN labels'[d], Takes(d, e, i),
         cur[d] \in DOMAIN labels[d]
  PROVE  /\ DOMAIN labels[d] \subseteq DOMAIN labels'[d]
         /\ DOMAIN labels'[d] \ queue'[d] = DOMAIN labels[d] \ queue[d]
         /\ i \in queue'[d] /\ i \notin DOMAIN labels[d] \ queue[d] /\ i # 0
         /\ \A j \in DOMAIN labels'[d] : j # i => j \in DOMAIN labels[d] /\ labels'[d][j] = labels[d][j]
         /\ \A p \in DOMAIN labels[d] \ queue[d] : labels'[d][p] = labels[d][p] /\ p # i
         /\ cur[d] \in DOMAIN labels[d] \ queue[d]
         /\ DOMAIN labels'[d] = DOMAIN labels[d] \cup {i} /\ queue'[d] = queue[d] \cup {i}
         /\ status[d][e].set # "permanent"
<1>1. /\ DOMAIN labels[d] = 1 .. Len(labels[d]) /\ Len(labels[d]) \in Nat /\ cur[d] \notin queue[d]
      /\ queue[d] \subseteq DOMAIN labels[d]
      /\ status[d][e].set = "temporary" => status[d][e].idx \in queue[d]
  BY TreeFacts
<1>2. CASE /\ status[d][e].set = "temporary" /\ i = status[d][e].idx
           /\ queue'[d] = queue[d] /\ DOMAIN labels'[d] = DOMAIN labels[d]
  BY <1>1, <1>2 DEF Takes
<1>3. CASE /\ status[d][e].set = "unreached" /\ i = Len(labels[d]) + 1
           /\ queue'[d] = queue[d] \cup {i} /\ DOMAIN labels'[d] = DOMAIN labels[d] \cup {i}
  BY <1>1, <1>3 DEF Takes
<1>. QED
  BY <1>2, <1>3 DEF Takes

\* It keeps it when ExpandForward or ExpandReverse labels an edge, anew or at a lower cost.
LEMMA TakeKeepsTInv ==
  ASSUME IInv, g' = g, origin' = origin, destination' = destination, NEW d \in Directions,
         TInv(d), NEW e \in Edges, NEW i \in DOMAIN labels'[d], Takes(d, e, i),
         cur[d] \in DOMAIN labels[d], g.tail[e] = g.head[labels[d][cur[d]].edge]
  PROVE  TInv(d)'
<1>. DEFINE popped == DOMAIN labels[d] \ queue[d]
            l == labels'[d][i]
            u == labels[d][cur[d]]
<1>1. /\ DOMAIN labels[d] \subseteq DOMAIN labels'[d]
      /\ DOMAIN labels'[d] \ queue'[d] = popped
      /\ i \in queue'[d] /\ i \notin popped /\ i # 0
      /\ \A j \in DOMAIN labels'[d] : j # i => j \in DOMAIN labels[d] /\ labels'[d][j] = labels[d][j]
      /\ \A p \in popped : labels'[d][p] = labels[d][p] /\ p # i
      /\ cur[d] \in popped
      /\ DOMAIN labels'[d] = DOMAIN labels[d] \cup {i} /\ queue'[d] = queue[d] \cup {i}
      /\ status[d][e].set # "permanent"
  BY TakeFacts
<1>2. /\ side = d /\ Along(d, e) \in g.access /\ ~Restricted(e)
      /\ l.edge = e /\ l.pred = cur[d] /\ l.turn = Turn(d, u.edge, e)
      /\ l.cost = u.cost + Turn(d, u.edge, e) + Whole(Along(d, e))
      /\ status'[d][e].set = "temporary" /\ status'[d][e].idx = i
      /\ \A f \in Edges : f # e => status'[d][f] = status[d][f]
      /\ cur'[d] = cur[d]
  BY DEF Takes, NewCost
<1>3. /\ \A j \in DOMAIN labels[d] : labels[d][j].pred # 0 => labels[d][j].pred \in popped
      /\ \A j \in DOMAIN labels[d] : labels[d][j].edge \in Edges
      /\ labels[d][cur[d]].cost \in Nat /\ u.edge \in Edges /\ g \in Graphs
      /\ 0 \notin DOMAIN labels[d]
      /\ \A f \in Edges : status[d][f].set # "unreached" => status[d][f].idx \in DOMAIN labels[d]
      /\ \A f \in Edges : status[d][f].set = "temporary" => status[d][f].idx \in queue[d]
      /\ \A f \in Edges : status[d][f].set \in {"unreached", "temporary", "permanent"}
  BY <1>1, TreeFacts DEF TInv, LabelsAddUp, AddsUp
<1>4. \A j \in DOMAIN labels'[d] : labels'[d][j].pred # 0 => labels'[d][j].pred \in popped
  BY <1>1, <1>2, <1>3
<1>5. l.sort = l.cost + Get(ToGo(d, e))
  <2>1. NewCost(d, e) = u.cost + Turn(d, u.edge, e) + Whole(Along(d, e))
    BY DEF NewCost
  <2>2. NewCost(d, e) \in Nat
    <3>1. Turn(d, u.edge, e) \in Nat /\ Whole(Along(d, e)) \in Nat
      BY <1>3, EdgeFacts
    <3>. QED
      BY <1>3, <2>1, <3>1
  <2>. HIDE DEF l, u
  <2>3. l.cost = NewCost(d, e)
    BY <1>2, <2>1
  <2>4. CASE /\ status[d][e].set = "temporary" /\ i = status[d][e].idx
             /\ l.sort = labels[d][i].sort - (labels[d][i].cost - NewCost(d, e))
    <3>1. i \in queue[d] /\ i \in DOMAIN labels[d] /\ labels[d][i].edge = e
      BY <2>4, TreeFacts
    <3>2. labels[d][i].sort = labels[d][i].cost + Get(ToGo(d, e))
      BY <3>1 DEF TInv, LabelsAddUp
    <3>3. Get(ToGo(d, e)) \in Nat
      <4>1. IsLocation(g, origin) /\ IsLocation(g, destination)
        BY DEF IInv
      <4>. QED
        BY <1>3, <4>1, ToGoType, GetType
    <3>4. labels[d][i].cost \in Nat
      BY <3>1, TreeFacts
    <3>. DEFINE a == labels[d][i].sort
                b == labels[d][i].cost
                c == Get(ToGo(d, e))
                n == NewCost(d, e)
    <3>5. a = b + c /\ b \in Nat /\ c \in Nat /\ n \in Nat /\ l.sort = a - (b - n) /\ l.cost = n
      BY <2>2, <2>3, <2>4, <3>2, <3>3, <3>4
    <3>. HIDE DEF a, b, c, n
    <3>6. l.sort = l.cost + c
      BY <3>5
    <3>. QED
      BY <3>6 DEF c
  <2>5. CASE l.sort = NewCost(d, e) + Get(ToGo(d, e))
    BY <2>3, <2>5
  <2>. QED
    BY <2>4, <2>5 DEF Takes, l
<1>6. LabelsAddUp(d)'
  <2>1. ASSUME NEW j \in DOMAIN labels'[d]
        PROVE  /\ \/ labels'[d][j].pred = 0 /\ \E c \in Candidates(d) : Starts(d, labels'[d][j], c)
                  \/ /\ labels'[d][j].pred \in DOMAIN labels'[d] \ queue'[d]
                     /\ g.tail[labels'[d][j].edge] = g.head[labels'[d][labels'[d][j].pred].edge]
                     /\ labels'[d][j].turn = Turn(d, labels'[d][labels'[d][j].pred].edge, labels'[d][j].edge)
                     /\ labels'[d][j].cost = labels'[d][labels'[d][j].pred].cost + labels'[d][j].turn
                                             + Whole(Along(d, labels'[d][j].edge))
               /\ labels'[d][j].sort = labels'[d][j].cost + Get(ToGo(d, labels'[d][j].edge))
               /\ Along(d, labels'[d][j].edge) \in g.access
    <3>1. CASE j = i
      BY <1>1, <1>2, <1>5, <3>1
    <3>2. CASE j # i
      <4>1. j \in DOMAIN labels[d] /\ labels'[d][j] = labels[d][j]
        BY <1>1, <3>2
      <4>2. labels[d][j].pred # 0 => labels'[d][labels[d][j].pred] = labels[d][labels[d][j].pred]
        BY <1>1, <1>3, <4>1
      <4>3. /\ AddsUp(d, labels[d][j])
            /\ labels[d][j].sort = labels[d][j].cost + Get(ToGo(d, labels[d][j].edge))
            /\ Along(d, labels[d][j].edge) \in g.access
        BY <4>1 DEF TInv, LabelsAddUp
      <4>. QED
        BY <1>1, <1>3, <4>1, <4>2, <4>3 DEF AddsUp
    <3>. QED
      BY <3>1, <3>2
  <2>. QED
    BY <2>1, SameQuery DEF LabelsAddUp, AddsUp
<1>7. StatusIsLabel(d)'
  <2>. SUFFICES ASSUME NEW f \in Edges, status'[d][f].set # "unreached"
                PROVE  labels'[d][status'[d][f].idx].edge = f
    BY SameQuery DEF StatusIsLabel
  <2>1. CASE f = e
    BY <1>2, <2>1
  <2>2. CASE f # e
    <3>1. status'[d][f] = status[d][f]
      BY <1>2, <2>2
    <3>2. status[d][f].idx \in DOMAIN labels[d] /\ labels[d][status[d][f].idx].edge = f
      BY <1>3, <3>1 DEF TInv, StatusIsLabel
    <3>3. status[d][f].idx # i
      <4>1. i \notin DOMAIN labels[d] \/ labels[d][i].edge = e
        BY TreeFacts DEF Takes
      <4>. QED
        BY <2>2, <3>2, <4>1
    <3>. QED
      BY <1>1, <3>1, <3>2, <3>3
  <2>. QED
    BY <2>1, <2>2
<1>8. QueuedIsTemporary(d)'
  <2>. SUFFICES ASSUME NEW j \in queue'[d]
                PROVE  /\ status'[d][labels'[d][j].edge].set = "temporary"
                       /\ status'[d][labels'[d][j].edge].idx = j
    BY DEF QueuedIsTemporary
  <2>1. CASE j = i
    BY <1>2, <2>1
  <2>2. CASE j # i
    <3>1. j \in queue[d] /\ j \in DOMAIN labels[d] /\ labels'[d][j] = labels[d][j]
      BY <1>1, <2>2, TreeFacts
    <3>2. /\ status[d][labels[d][j].edge].set = "temporary"
          /\ status[d][labels[d][j].edge].idx = j
          /\ labels[d][j].edge \in Edges
      BY <1>3, <3>1 DEF TInv, QueuedIsTemporary
    <3>3. labels[d][j].edge # e
      <4>1. \/ status[d][e].set = "temporary" /\ i = status[d][e].idx
            \/ status[d][e].set = "unreached"
        BY DEF Takes
      <4>. QED
        BY <2>2, <3>2, <4>1
    <3>. QED
      BY <1>2, <3>1, <3>2, <3>3
  <2>. QED
    BY <2>1, <2>2
<1>9. LastSettled(d)'
  <2>1. u.edge # e
    BY <1>3, EdgeFacts
  <2>2. labels'[d][cur'[d]] = u
    BY <1>1, <1>2
  <2>3. status'[d][u.edge].set = status[d][u.edge].set
    BY <1>2, <1>3, <2>1
  <2>4. cur[d] # 0
    BY <1>3
  <2>5. status[d][u.edge].set # "temporary"
    BY <2>4 DEF TInv, LastSettled
  <2>. QED
    BY <2>2, <2>3, <2>5 DEF LastSettled
<1>10. Unrestricted(d)'
  <2>. SUFFICES ASSUME NEW j \in DOMAIN labels'[d], NEW p \in DOMAIN labels'[d], NEW m \in DOMAIN labels'[d],
                       labels'[d][j].pred = p, labels'[d][p].pred = m
                PROVE  Triple(d, labels'[d][m].edge, labels'[d][p].edge, labels'[d][j].edge)
                         \notin g.restrictions
    BY SameQuery DEF Unrestricted
  <2>0. 0 \notin DOMAIN labels'[d]
    BY <1>1, <1>3
  <2>1. p \in popped /\ labels'[d][p] = labels[d][p]
    BY <1>1, <1>4, <2>0
  <2>2. m \in popped /\ labels'[d][m] = labels[d][m]
    BY <1>1, <1>4, <2>0
  <2>3. CASE j = i
    <3>1. p = cur[d] /\ labels[d][p].pred = m /\ m # 0 /\ labels'[d][j].edge = e
      BY <1>2, <2>0, <2>1, <2>3
    <3>. QED
      BY <1>2, <2>1, <2>2, <3>1 DEF Restricted, last, Triple
  <2>4. CASE j # i
    <3>1. j \in DOMAIN labels[d] /\ labels'[d][j] = labels[d][j]
      BY <1>1, <2>4
    <3>. QED
      BY <2>1, <2>2, <3>1 DEF TInv, Unrestricted
  <2>. QED
    BY <2>3, <2>4
<1>11. Ranked(d)'
  <2>1. PICK r \in [DOMAIN labels[d] -> Nat], n \in Nat :
          \A j \in DOMAIN labels[d] :
            /\ r[j] <= n <=> j \notin queue[d]
            /\ r[j] <= n + 1
            /\ labels[d][j].pred # 0 => r[labels[d][j].pred] < r[j]
    BY DEF TInv, Ranked
  <2>. DEFINE s == [j \in DOMAIN labels'[d] |-> IF j = i THEN n + 1 ELSE r[j]]
  <2>2. s \in [DOMAIN labels'[d] -> Nat]
    BY <1>1, <2>1
  <2>3. ASSUME NEW j \in DOMAIN labels'[d]
        PROVE  /\ s[j] <= n <=> j \notin queue'[d]
               /\ s[j] <= n + 1
               /\ labels'[d][j].pred # 0 => s[labels'[d][j].pred] < s[j]
    <3>. DEFINE p == labels'[d][j].pred
    <3>1. p # 0 => p \in popped /\ p \in DOMAIN labels'[d] /\ p # i /\ s[p] = r[p] /\ r[p] <= n /\ r[p] \in Nat
      BY <1>1, <1>4, <2>1
    <3>2. CASE j = i
      <4>1. s[j] = n + 1
        BY <3>2
      <4>. HIDE DEF s, p
      <4>. QED
        BY <1>1, <2>1, <3>1, <3>2, <4>1 DEF p
    <3>3. CASE j # i
      <4>1. s[j] = r[j] /\ j \in DOMAIN labels[d] /\ labels'[d][j] = labels[d][j]
        BY <1>1, <3>3
      <4>2. (r[j] <= n <=> j \notin queue[d]) /\ r[j] <= n + 1 /\ (p # 0 => r[p] < r[j])
        BY <2>1, <4>1
      <4>. HIDE DEF s, p
      <4>. QED
        BY <1>1, <3>1, <3>3, <4>1, <4>2 DEF p
    <3>. QED
      BY <3>2, <3>3
  <2>. HIDE DEF s
  <2>. QED
    BY <2>1, <2>2, <2>3 DEF Ranked
<1>. QED
  BY <1>6, <1>7, <1>8, <1>9, <1>10, <1>11 DEF TInv

\* Every step keeps what is true of a tree.
LEMMA StepKeepsTInv ==
  ASSUME IInv, IInv', Asked, [Next]_vars, NEW d \in Directions, TInv(d)
  PROVE  TInv(d)'
<1>1. g' = g /\ origin' = origin /\ destination' = destination /\ TreeStep(d)
  BY StepMoves
<1>. QED
  BY <1>1, StayKeepsTInv, PopKeepsTInv, TakeKeepsTInv, UnreachKeepsTInv, SeedKeepsTInv DEF TreeStep

----------------------------------------------------------------------------
\* The label popped last in direction d waits for its expansion.
Waiting(d) ==
  \/ pc = "choose"
  \/ pc \in Directions \cup {"expand"} /\ expand = {Other(d)}
  \/ pc = "reverse" /\ expand = Directions /\ d = "forward"

\* A tree that is expanded is the only one to pop from; at first both are popped from.
Turns ==
  /\ pc = "expand" => expand = {side}
  /\ pc \in Directions => expand \in {{pc}, Directions}
  /\ pc \in {"origin", "destination"} => expand = Directions

\* While both trees are popped from, there are only labels of candidates, and what was popped
\* waits.
FirstRound ==
  expand = Directions =>
    \A d \in Directions : \A i \in DOMAIN labels[d] :
      /\ labels[d][i].pred = 0
      /\ i \in queue[d] \/ (i = cur[d] /\ (Waiting(d) \/ pc \in {"done", "failed"}))

\* The invariant of both trees and of their turns.
GInv == IInv /\ Asked /\ (\A d \in Directions : TInv(d)) /\ Turns /\ FirstRound

----------------------------------------------------------------------------
\* The first labels of both trees are of edges that do not touch.
LEMMA SeedsApart ==
  ASSUME IInv, Asked, \A d \in Directions : TInv(d),
         NEW d \in Directions, NEW i \in DOMAIN labels[d], NEW j \in DOMAIN labels[Other(d)],
         labels[d][i].pred = 0, labels[Other(d)][j].pred = 0
  PROVE  labels[Other(d)][j].edge # g.opp[labels[d][i].edge]
<1>. SUFFICES ASSUME labels[Other(d)][j].edge = g.opp[labels[d][i].edge] PROVE FALSE
  OBVIOUS
<1>1. g \in Graphs /\ Other(d) \in Directions /\ 0 \notin DOMAIN labels[d] /\ 0 \notin DOMAIN labels[Other(d)]
  BY TreeFacts, Others
<1>2. PICK b \in Candidates(d) : Starts(d, labels[d][i], b)
  BY <1>1 DEF TInv, LabelsAddUp, AddsUp
<1>3. PICK c \in Candidates(Other(d)) : Starts(Other(d), labels[Other(d)][j], c)
  BY <1>1 DEF TInv, LabelsAddUp, AddsUp
<1>4. /\ b.edge \in Edges /\ c.edge \in Edges
      /\ b \in IF d = "forward" THEN origin ELSE destination
      /\ c \in IF Other(d) = "forward" THEN origin ELSE destination
  BY <1>1, <1>2, <1>3, CandidateFacts
<1>5. Along(Other(d), c.edge) = g.opp[Along(d, b.edge)]
  BY <1>2, <1>3 DEF Starts
<1>6. c.edge = b.edge
  <2>1. \A e \in Edges : g.opp[e] \in Edges /\ g.opp[g.opp[e]] = e
    BY <1>1, EdgeFacts
  <2>. QED
    BY <1>4, <1>5, <2>1 DEF Along, Other, Directions
<1>7. AreConnected(origin, destination)
  BY <1>4, <1>6 DEF AreConnected, Ends, Other, Directions
<1>. QED
  BY <1>7 DEF Asked

\* What the other tree knows of the edge of a label, when they meet there.
LEMMA OppositeFacts ==
  ASSUME IInv, \A d \in Directions : TInv(d), NEW d \in Directions, NEW i \in DOMAIN labels[d],
         OppStatus(d, i).set # "unreached"
  PROVE  /\ OppStatus(d, i).idx \in DOMAIN labels[Other(d)]
         /\ Opposite(d, i).edge = g.opp[labels[d][i].edge]
<1>1. /\ Other(d) \in Directions /\ g \in Graphs /\ labels[d][i].edge \in Edges
  BY TreeFacts, Others
<1>2. g.opp[labels[d][i].edge] \in Edges
  BY <1>1, EdgeFacts
<1>3. OppStatus(d, i).idx \in DOMAIN labels[Other(d)]
  BY <1>1, <1>2, TreeFacts DEF OppStatus
<1>4. Opposite(d, i).edge = g.opp[labels[d][i].edge]
  BY <1>1, <1>2, Zenon DEF TInv, StatusIsLabel, OppStatus, Opposite
<1>. QED
  BY <1>3, <1>4

\* So no connection is found in the first round.
LEMMA NoEarlyConnection ==
  ASSUME GInv, NEW d \in Directions, NEW i \in queue[d], Meets(d, i)
  PROVE  expand # Directions
<1>. SUFFICES ASSUME expand = Directions PROVE FALSE
  OBVIOUS
<1>1. i \in DOMAIN labels[d] /\ Other(d) \in Directions
  BY TreeFacts, Others DEF GInv
<1>2. OppStatus(d, i).set # "unreached"
  BY DEF Meets
<1>3. /\ OppStatus(d, i).idx \in DOMAIN labels[Other(d)]
      /\ Opposite(d, i).edge = g.opp[labels[d][i].edge]
  BY <1>1, <1>2, OppositeFacts DEF GInv
<1>4. labels[d][i].pred = 0 /\ labels[Other(d)][OppStatus(d, i).idx].pred = 0
  BY <1>1, <1>3 DEF GInv, FirstRound
<1>. QED
  BY <1>1, <1>3, <1>4, SeedsApart DEF GInv, Opposite

\* A tree that pops has no label that waits.
LEMMA PopsUnlessWaiting ==
  ASSUME Turns, NEW d \in Directions, pc = d
  PROVE  ~Waiting(d) /\ pc \notin {"choose", "expand", "done", "failed", "origin", "destination"}
  BY DEF Turns, Waiting, Directions, Other

\* A search starts in the invariant of its trees.
LEMMA InitGInv == Init => GInv
<1>. SUFFICES ASSUME Init PROVE GInv
  OBVIOUS
<1>1. IInv
  BY InitIInv
<1>2. Asked /\ Turns
  BY DEF Init, Asked, Turns, Directions
<1>3. \A d \in Directions : DOMAIN labels[d] = {} /\ queue[d] = {} /\ cur[d] = 0
  BY DEF Init
<1>4. FirstRound
  BY <1>3 DEF FirstRound
<1>5. ASSUME NEW d \in Directions PROVE TInv(d)
  <2>1. LabelsAddUp(d) /\ QueuedIsTemporary(d) /\ LastSettled(d) /\ Unrestricted(d)
    BY <1>3 DEF LabelsAddUp, QueuedIsTemporary, LastSettled, Unrestricted
  <2>2. StatusIsLabel(d)
    BY <1>1, <1>3, TreeFacts DEF StatusIsLabel
  <2>3. Ranked(d)
    <3>. DEFINE r == [i \in DOMAIN labels[d] |-> 0]
    <3>1. r \in [DOMAIN labels[d] -> Nat] /\ 0 \in Nat
      OBVIOUS
    <3>. HIDE DEF r
    <3>. QED
      BY <1>3, <3>1 DEF Ranked
  <2>. QED
    BY <2>1, <2>2, <2>3 DEF TInv
<1>. QED
  BY <1>1, <1>2, <1>4, <1>5 DEF GInv

\* Whose turn it is after a step.
LEMMA NextTurns ==
  ASSUME GInv, IInv', [Next]_vars
  PROVE  Turns' /\ FirstRound'
<1>1. IInv /\ Asked /\ Turns /\ FirstRound
  BY DEF GInv
<1>2. CASE SetOrigin \/ SetDestination
  <2>. DEFINE d == IF pc = "origin" THEN "forward" ELSE "reverse"
  <2>1. /\ d \in Directions /\ Seed(d) /\ labels[d] = <<>> /\ cur[d] = 0
        /\ pc \in {"origin", "destination"} /\ pc' \in {"destination", "forward"} /\ expand' = expand
    <3>1. d \in Directions /\ Seed(d) /\ labels[d] = <<>> /\ cur[d] = 0
      BY <1>1, <1>2 DEF SetOrigin, SetDestination, IInv, Stages, Directions
    <3>2. pc \in {"origin", "destination"} /\ pc' \in {"destination", "forward"}
      BY <1>2 DEF SetOrigin, SetDestination
    <3>. HIDE DEF d
    <3>. QED
      BY <3>1, <3>2 DEF Seed
  <2>. HIDE DEF d
  <2>2. Seeds(d) /\ Stays(Other(d))
    BY <1>1, <2>1, SeedMoves
  <2>3. expand = Directions /\ ~Waiting("forward") /\ ~Waiting("reverse")
    <3>1. expand = Directions
      BY <1>1, <2>1 DEF Turns
    <3>2. pc \notin Directions \cup {"choose", "expand"}
      BY <2>1 DEF Directions
    <3>. QED
      BY <3>1, <3>2 DEF Waiting, Directions
  <2>4. Turns'
    BY <2>1, <2>3 DEF Turns, Directions
  <2>5. \A t \in Directions : \A i \in DOMAIN labels[t] : labels[t][i].pred = 0 /\ i \in queue[t]
    BY <1>1, <2>1, <2>3 DEF FirstRound, Directions
  <2>6. \A t \in Directions : \A i \in DOMAIN labels'[t] : labels'[t][i].pred = 0 /\ i \in queue'[t]
    <3>1. \A i \in DOMAIN labels'[d] : labels'[d][i].pred = 0 /\ i \in queue'[d]
      BY <2>2 DEF Seeds, Starts
    <3>2. \A i \in DOMAIN labels'[Other(d)] : labels'[Other(d)][i].pred = 0 /\ i \in queue'[Other(d)]
      BY <2>1, <2>2, <2>5, Others DEF Stays
    <3>. QED
      BY <2>1, <3>1, <3>2, Others
  <2>. QED
    BY <2>4, <2>6 DEF FirstRound
<1>3. ASSUME NEW d \in Directions, Exhausted(d) PROVE Turns' /\ FirstRound'
  <2>1. /\ UNCHANGED <<labels, queue, cur, expand>> /\ pc' \in {"done", "failed"}
    BY <1>3 DEF Exhausted, Done
  <2>2. Turns'
    BY <2>1 DEF Turns, Directions
  <2>. QED
    BY <1>1, <2>1, <2>2 DEF FirstRound
<1>4. ASSUME NEW d \in Directions, NEW i \in queue[d], Stop(d, i) \/ Connect(d, i) \/ PopOther(d, i)
      PROVE  Turns' /\ FirstRound'
  <2>1. Pop(d, i) /\ UNCHANGED <<labels, expand>> /\ pc = d
    BY <1>4 DEF Stop, Connect, PopOther, Pop
  <2>2. Pops(d, i) /\ Stays(Other(d))
    BY <1>1, <2>1, PopMoves
  <2>3. ~Waiting(d) /\ pc \notin {"choose", "expand", "done", "failed", "origin", "destination"}
    BY <1>1, <2>1, PopsUnlessWaiting
  <2>4. expand \in {{d}, Directions}
    BY <1>1, <2>1 DEF Turns
  <2>5. expand = Directions =>
          /\ \A j \in DOMAIN labels[d] : labels[d][j].pred = 0 /\ j \in queue[d]
          /\ \A j \in DOMAIN labels[Other(d)] :
               /\ labels[Other(d)][j].pred = 0
               /\ j \in queue[Other(d)] \/ (j = cur[Other(d)] /\ Waiting(Other(d)))
    BY <1>1, <2>3, Others DEF FirstRound
  <2>6. /\ labels'[d] = labels[d] /\ queue'[d] = queue[d] \ {i} /\ cur'[d] = i
        /\ labels'[Other(d)] = labels[Other(d)] /\ queue'[Other(d)] = queue[Other(d)]
        /\ cur'[Other(d)] = cur[Other(d)]
    BY <2>2 DEF Pops, Stays
  <2>7. ASSUME expand = Directions => \A t \in Directions :
                  \/ pc' \in {"done", "failed"} \/ Waiting(t)'
                  \/ t = "reverse" /\ d = "forward"
        PROVE  FirstRound'
    <3>. SUFFICES ASSUME expand' = Directions, NEW t \in Directions, NEW j \in DOMAIN labels'[t]
                  PROVE  /\ labels'[t][j].pred = 0
                         /\ \/ j \in queue'[t]
                            \/ j = cur'[t] /\ (Waiting(t)' \/ pc' \in {"done", "failed"})
      BY DEF FirstRound
    <3>1. expand = Directions
      BY <2>1
    <3>2. CASE t = d
      BY <2>5, <2>6, <2>7, <3>1, <3>2
    <3>3. CASE t # d
      <4>1. t = Other(d)
        BY <3>3, Others
      <4>2. ~(d = "forward" /\ Waiting(Other(d)))
        BY <2>1, <3>1 DEF Waiting, Other, Directions
      <4>. QED
        BY <2>5, <2>6, <2>7, <3>1, <4>1, <4>2
    <3>. QED
      BY <3>2, <3>3
  <2>8. CASE Stop(d, i)
    <3>1. pc' = "done"
      BY <2>8 DEF Stop, Done
    <3>2. Turns'
      BY <3>1 DEF Turns, Directions
    <3>. QED
      BY <2>7, <3>1, <3>2
  <2>9. CASE Connect(d, i)
    <3>1. expand # Directions
      <4>1. Meets(d, i)
        BY <2>9 DEF Connect, Connects
      <4>. QED
        BY <4>1, NoEarlyConnection
    <3>2. expand = {d} /\ expand' = {d} /\ pc' = d
      BY <2>1, <2>4, <2>9, <3>1 DEF Connect, Directions
    <3>3. Turns'
      BY <3>2 DEF Turns, Directions
    <3>. QED
      BY <2>7, <3>1, <3>3
  <2>10. CASE PopOther(d, i)
    <3>1. pc' = IF d = "forward" /\ "reverse" \in expand THEN "reverse" ELSE "choose"
      BY <2>10 DEF PopOther
    <3>2. Turns'
      BY <2>1, <2>4, <3>1 DEF Turns, Directions
    <3>3. expand = Directions => \A t \in Directions : Waiting(t)' \/ (t = "reverse" /\ d = "forward")
      <4>. SUFFICES ASSUME expand = Directions, NEW t \in Directions, ~(t = "reverse" /\ d = "forward")
                    PROVE  Waiting(t)'
        OBVIOUS
      <4>1. CASE d = "forward"
        BY <2>1, <3>1, <4>1 DEF Waiting, Directions
      <4>2. CASE d # "forward"
        BY <3>1, <4>2 DEF Waiting
      <4>. QED
        BY <4>1, <4>2
    <3>. QED
      BY <2>7, <3>2, <3>3
  <2>. QED
    BY <1>4, <2>8, <2>9, <2>10
<1>5. CASE Choose
  <2>. DEFINE d == IF labels["forward"][cur["forward"]].sort < labels["reverse"][cur["reverse"]].sort
                   THEN "forward" ELSE "reverse"
  <2>1. side' = d /\ expand' = {d} /\ pc' \in {d, "expand"}
    BY <1>5 DEF Choose
  <2>2. d \in Directions
    BY DEF Directions
  <2>. HIDE DEF d
  <2>3. Turns' /\ expand' # Directions
    BY <2>1, <2>2 DEF Turns, Directions
  <2>. QED
    BY <2>3 DEF FirstRound
<1>6. CASE ExpandBlocked \/ ExpandEdge \/ SkipBack \/ UTurn \/ EndExpand
  <2>1. /\ pc = "expand" /\ side' = side /\ expand' = expand /\ pc' \in {side, "expand"}
    BY <1>6 DEF ExpandBlocked, ExpandEdge, SkipBack, UTurn, EndExpand, Expanding
  <2>2. expand = {side} /\ side \in Directions
    BY <1>1, <2>1 DEF Turns, IInv, TypeOK
  <2>3. Turns' /\ expand' # Directions
    BY <2>1, <2>2 DEF Turns, Directions
  <2>. QED
    BY <2>3 DEF FirstRound
<1>7. CASE UNCHANGED vars
  <2>1. labels' = labels /\ queue' = queue /\ cur' = cur /\ expand' = expand /\ pc' = pc /\ side' = side
    BY <1>7 DEF vars, expansion
  <2>2. Turns'
    BY <1>1, <2>1 DEF Turns
  <2>. QED
    BY <1>1, <2>1, <2>2 DEF FirstRound, Waiting
<1>. QED
  BY <1>2, <1>3, <1>4, <1>5, <1>6, <1>7 DEF Next

\* Every step of the search keeps the invariant of its trees.
LEMMA NextGInv == GInv /\ [Next]_vars => GInv'
<1>. SUFFICES ASSUME GInv, [Next]_vars PROVE GInv'
  OBVIOUS
<1>1. IInv /\ IInv' /\ Asked
  BY NextIInv DEF GInv
<1>2. Asked'
  BY <1>1, StepMoves DEF Asked, AreConnected, Ends
<1>3. \A d \in Directions : TInv(d)'
  BY <1>1, StepKeepsTInv DEF GInv
<1>4. Turns' /\ FirstRound'
  BY <1>1, NextTurns
<1>. QED
  BY <1>1, <1>2, <1>3, <1>4 DEF GInv

----------------------------------------------------------------------------
\* Where the tree of direction d goes to, and where it comes from.
Goal(d) == Place(g, IF d = "forward" THEN destination ELSE origin)

\* Where it comes from.
Source(d) == Place(g, IF d = "forward" THEN origin ELSE destination)

\* What one tree heads for is where the other one comes from, and estimates are natural numbers.
LEMMA GoalFacts ==
  ASSUME g \in Graphs, Asked, NEW d \in Directions
  PROVE  /\ Goal(d) \in Int /\ Source(d) \in Int /\ Goal(Other(d)) = Source(d)
         /\ \A e : ToGo(d, e) = Distance(g.x[g.head[e]], Goal(d))
         /\ \A e \in Edges : /\ ToGo(d, e) \in Nat /\ Get(ToGo(d, e)) \in Nat
                             /\ g.x[g.head[e]] \in Int /\ g.x[g.tail[e]] \in Int
<1>1. IsLocation(g, origin) /\ IsLocation(g, destination)
  BY LocationsAreLocations DEF Asked
<1>2. Place(g, origin) \in Int /\ Place(g, destination) \in Int
  BY <1>1, PlaceType
<1>3. \A e \in Edges : ToGo(d, e) \in Nat
  BY <1>1, ToGoType
<1>4. \A e \in Edges : Get(ToGo(d, e)) \in Nat
  BY <1>3, GetType
<1>5. \A e \in Edges : g.x[g.head[e]] \in Int /\ g.x[g.tail[e]] \in Int
  BY SearchAssumption DEF IsGraph, Edges
<1>6. \A e : ToGo(d, e) = Distance(g.x[g.head[e]], Goal(d))
  BY DEF ToGo, Goal
<1>7. Goal(d) \in Int /\ Source(d) \in Int /\ Goal(Other(d)) = Source(d)
  BY <1>2 DEF Goal, Source, Other, Directions
<1>. QED
  BY <1>3, <1>4, <1>5, <1>6, <1>7

\* The estimates at both ends of an edge differ by no more than the edge costs either way.
LEMMA EdgeSpan ==
  ASSUME g \in Graphs, NeverOverestimates(g), NEW f \in Edges, NEW p \in Int,
         NEW h \in {f, g.opp[f]}
  PROVE  /\ Get(Distance(g.x[g.tail[f]], p)) <= Whole(h) + Get(Distance(g.x[g.head[f]], p))
         /\ Get(Distance(g.x[g.head[f]], p)) <= Whole(h) + Get(Distance(g.x[g.tail[f]], p))
<1>. DEFINE a == g.x[g.tail[f]]
            b == g.x[g.head[f]]
<1>1. /\ h \in Edges /\ g.opp[f] \in Edges /\ g.tail[g.opp[f]] = g.head[f]
      /\ g.head[g.opp[f]] = g.tail[f] /\ Parts \in Nat /\ PartCost(g, h) \in Nat
  BY EdgeFacts
<1>2. a \in Int /\ b \in Int /\ h \in DOMAIN g.head
  BY <1>1, SearchAssumption DEF IsGraph, Edges
<1>3. Distance(g.x[g.head[h]], g.x[g.tail[h]]) <= Parts * g.len[h]
  BY <1>1, SearchAssumption DEF IsGraph, Edges
<1>4. Distance(a, b) <= Parts * g.len[h] /\ Distance(b, a) <= Parts * g.len[h]
  <2>1. Distance(a, b) = Distance(b, a)
    BY <1>2 DEF Distance
  <2>. QED
    BY <1>1, <1>3, <2>1
<1>5. PartCost(g, h) * Parts = Whole(h)
  <2>. DEFINE q == PartCost(g, h)
  <2>. HIDE DEF q
  <2>1. q * Parts = Parts * q
    BY <1>1, SMT DEF q
  <2>. QED
    BY <2>1 DEF q, Whole
<1>. HIDE DEF a, b
<1>6. Get(Distance(a, p)) <= PartCost(g, h) * Parts + Get(Distance(b, p))
  BY <1>1, <1>2, <1>4, HeuristicConsistent
<1>7. Get(Distance(b, p)) <= PartCost(g, h) * Parts + Get(Distance(a, p))
  BY <1>1, <1>2, <1>4, HeuristicConsistent
<1>. QED
  BY <1>5, <1>6, <1>7 DEF a, b

\* The estimate falls along a way by no more than the way costs.
LEMMA EstimateFalls ==
  ASSUME g \in Graphs, Asked, NeverOverestimates(g), NEW d \in Directions,
         NEW e \in Edges, NEW f \in Edges, g.tail[f] = g.head[e]
  PROVE  /\ Get(ToGo(d, e)) <= Whole(Along(d, f)) + Get(ToGo(d, f))
         /\ Get(ToGo(d, f)) <= Whole(Along(d, f)) + Get(ToGo(d, e))
<1>1. /\ Goal(d) \in Int /\ ToGo(d, e) = Distance(g.x[g.tail[f]], Goal(d))
      /\ ToGo(d, f) = Distance(g.x[g.head[f]], Goal(d))
  BY GoalFacts
<1>2. Along(d, f) \in {f, g.opp[f]}
  BY DEF Along
<1>. QED
  BY <1>1, <1>2, EdgeSpan

\* The label of a candidate is estimated at no less than the distance between the ends.
LEMMA SeedEstimate ==
  ASSUME g \in Graphs, Asked, NeverOverestimates(g), NEW d \in Directions,
         NEW c \in Candidates(d)
  PROVE  Get(Distance(Place(g, origin), Place(g, destination))) <=
           PartCost(g, c.edge) * LeftOf(d, c) + Get(ToGo(d, Along(d, c.edge)))
<1>. DEFINE loc == IF d = "forward" THEN origin ELSE destination
            e == Along(d, c.edge)
            b == g.x[g.head[e]]
            j == LeftOf(d, c)
<1>1. c \in loc /\ loc \in Locations(g) /\ c.edge \in Edges /\ j \in 0 .. Parts /\ e \in Edges
  BY CandidateFacts DEF Asked
<1>2. /\ Goal(d) \in Int /\ Source(d) \in Int /\ b \in Int
      /\ ToGo(d, e) = Distance(b, Goal(d)) /\ Source(d) = Place(g, loc)
  BY <1>1, GoalFacts DEF Source
<1>3. Distance(Source(d), b) <= j * g.len[c.edge]
  <2>1. /\ Distance(g.x[g.tail[c.edge]], Place(g, loc)) <= c.pos * g.len[c.edge]
        /\ Distance(Place(g, loc), g.x[g.head[c.edge]]) <= (Parts - c.pos) * g.len[c.edge]
    <3>. HIDE DEF loc
    <3>. QED
      BY <1>1, PlaceAlong
  <2>2. CASE d = "forward"
    <3>1. b = g.x[g.head[c.edge]] /\ j = Parts - c.pos
      BY <2>2 DEF Along, LeftOf
    <3>. QED
      BY <1>2, <2>1, <3>1
  <2>3. CASE d # "forward"
    <3>1. b = g.x[g.tail[c.edge]] /\ j = c.pos
      BY <1>1, <2>3, EdgeFacts DEF Along, LeftOf
    <3>2. Distance(b, Source(d)) = Distance(Source(d), b)
      BY <1>2 DEF Distance
    <3>. QED
      BY <1>2, <2>1, <3>1, <3>2
  <2>. QED
    BY <2>2, <2>3
<1>4. Distance(Place(g, origin), Place(g, destination)) = Distance(Source(d), Goal(d))
  <2>1. Place(g, origin) \in Int /\ Place(g, destination) \in Int
    BY LocationsAreLocations, PlaceType DEF Asked
  <2>. QED
    BY <2>1 DEF Source, Goal, Distance
<1>5. Get(Distance(Source(d), Goal(d))) <= PartCost(g, c.edge) * j + Get(Distance(b, Goal(d)))
  <2>1. c.edge \in DOMAIN g.head /\ j \in Nat
    BY <1>1 DEF Edges
  <2>. HIDE DEF b, j
  <2>. QED
    BY <1>2, <1>3, <2>1, HeuristicConsistent
<1>. QED
  BY <1>2, <1>4, <1>5

\* Buckets and the costs in them.
LEMMA BucketBounds ==
  /\ \A c \in Int : c * BucketSize \in Int
  /\ \A s \in Int : /\ s \div BucketSize \in Int
                    /\ (s \div BucketSize) * BucketSize <= s
                    /\ s <= (s \div BucketSize) * BucketSize + Slack
  /\ \A c, s \in Int : c * BucketSize <= s => c <= s \div BucketSize
  /\ \A a, b \in Int : a <= b => a * BucketSize <= b * BucketSize
<1>. DEFINE B == BucketSize
<1>1. B \in Nat \ {0} /\ Slack = B - 1
  BY SearchAssumption DEF Slack
<1>. HIDE DEF B
<1>2. \A s \in Int : /\ s \div B \in Int /\ (s \div B) * B <= s /\ s < (s \div B) * B + B
  BY <1>1, SMT
<1>3. \A a, b \in Int : a <= b => a * B <= b * B
  BY <1>1, SMT
<1>4. \A c \in Int : c * B \in Int
  BY <1>1
<1>5. ASSUME NEW c \in Int, NEW s \in Int, c * B <= s PROVE c <= s \div B
  <2>. DEFINE t == s \div B
  <2>1. t \in Int /\ s < t * B + B /\ t + 1 \in Int
    BY <1>2
  <2>. HIDE DEF t
  <2>. SUFFICES ASSUME t + 1 <= c PROVE FALSE
    BY <2>1 DEF t
  <2>2. (t + 1) * B <= c * B
    BY <1>3, <2>1
  <2>3. (t + 1) * B = t * B + B
    BY <1>1, <2>1, SMT
  <2>4. t * B \in Int /\ c * B \in Int
    BY <1>4, <2>1
  <2>. QED
    BY <1>1, <1>5, <2>1, <2>2, <2>3, <2>4
<1>6. \A s \in Int : s <= (s \div B) * B + Slack
  <2>. SUFFICES ASSUME NEW s \in Int PROVE s <= (s \div B) * B + Slack
    OBVIOUS
  <2>. DEFINE t == (s \div B) * B
  <2>1. t \in Int /\ s < t + B
    BY <1>2, <1>4
  <2>. HIDE DEF t
  <2>2. s <= t + Slack
    BY <1>1, <2>1
  <2>. QED
    BY <2>2 DEF t
<1>. QED
  BY <1>2, <1>3, <1>4, <1>5, <1>6 DEF B

----------------------------------------------------------------------------
\* What holds of a tree where nothing is restricted: every edge has one label at most, which
\* is in the queue or settled.
OneLabelEach(d) ==
  \A i \in DOMAIN labels[d] :
    /\ status[d][labels[d][i].edge].idx = i
    /\ status[d][labels[d][i].edge].set = IF i \in queue[d] THEN "temporary" ELSE "permanent"

\* The candidates keep their labels.
SeedsStand(d) ==
  labels[d] # <<>> => \A c \in Candidates(d) : \E i \in DOMAIN labels[d] : Starts(d, labels[d][i], c)

\* With an underestimating heuristic the cursor parts what is queued from what was popped.
Banded(d) ==
  /\ labels[d] = <<>> =>
       cursor[d] = Get(Distance(Place(g, origin), Place(g, destination))) \div BucketSize
  /\ NeverOverestimates(g) =>
       /\ \A i \in queue[d] : cursor[d] * BucketSize <= labels[d][i].sort
       /\ \A i \in DOMAIN labels[d] \ queue[d] :
            labels[d][i].sort <= cursor[d] * BucketSize + Slack
       /\ cur[d] # 0 => cursor[d] * BucketSize <= labels[d][cur[d]].sort

\* The invariant of one tree in a search that meets no restriction.
FTree(d) == OneLabelEach(d) /\ SeedsStand(d) /\ Banded(d)

----------------------------------------------------------------------------
\* A tree keeps it while the other one moves.
LEMMA StayKeepsFTree ==
  ASSUME IInv, g' = g, origin' = origin, destination' = destination, NEW d \in Directions,
         FTree(d), Stays(d)
  PROVE  FTree(d)'
<1>1. /\ labels'[d] = labels[d] /\ queue'[d] = queue[d] /\ status'[d] = status[d] /\ cur'[d] = cur[d]
      /\ cursor'[d] = cursor[d]
  BY DEF Stays
<1>2. OneLabelEach(d)' /\ SeedsStand(d)'
  BY <1>1, SameQuery DEF FTree, OneLabelEach, SeedsStand
<1>3. Banded(d)'
  BY <1>1 DEF FTree, Banded
<1>. QED
  BY <1>2, <1>3 DEF FTree

\* It keeps it when a label is popped, and its cursor never goes back.
LEMMA PopKeepsFTree ==
  ASSUME IInv, g' = g, origin' = origin, destination' = destination, NEW d \in Directions,
         TInv(d), FTree(d), NEW i \in queue[d], Pops(d, i)
  PROVE  FTree(d)' /\ cursor[d] \in Int /\ cursor'[d] \in Int
         /\ (NeverOverestimates(g) => cursor[d] * BucketSize <= cursor'[d] * BucketSize)
<1>1. /\ labels'[d] = labels[d] /\ queue'[d] = queue[d] \ {i} /\ cur'[d] = i
      /\ cursor'[d] = Bucket(d, i) /\ \A j \in queue[d] : Bucket(d, i) <= Bucket(d, j)
      /\ \A e \in Edges :
           /\ status'[d][e].idx = status[d][e].idx
           /\ status'[d][e].set = IF e = labels[d][i].edge THEN "permanent" ELSE status[d][e].set
  BY DEF Pops
<1>2. /\ queue[d] \subseteq DOMAIN labels[d] /\ cursor[d] \in Int
      /\ \A j \in DOMAIN labels[d] : labels[d][j].edge \in Edges /\ labels[d][j].sort \in Int
  BY TreeFacts
<1>3. OneLabelEach(d)'
  <2>. SUFFICES ASSUME NEW j \in DOMAIN labels[d]
                PROVE  /\ status'[d][labels[d][j].edge].idx = j
                       /\ status'[d][labels[d][j].edge].set =
                            IF j \in queue[d] \ {i} THEN "temporary" ELSE "permanent"
    BY <1>1 DEF OneLabelEach
  <2>1. /\ status[d][labels[d][j].edge].idx = j /\ status[d][labels[d][i].edge].idx = i
        /\ status[d][labels[d][j].edge].set = IF j \in queue[d] THEN "temporary" ELSE "permanent"
    BY <1>2 DEF FTree, OneLabelEach
  <2>2. j # i => labels[d][j].edge # labels[d][i].edge
    BY <2>1
  <2>. QED
    BY <1>1, <1>2, <2>1, <2>2
<1>4. SeedsStand(d)'
  BY <1>1, SameQuery DEF FTree, SeedsStand
<1>5. \A j \in DOMAIN labels[d] : Bucket(d, j) \in Int
  BY <1>2, BucketBounds DEF Bucket
<1>6. cursor'[d] \in Int
  BY <1>1, <1>2, <1>5
<1>7. labels'[d] # <<>>
  BY <1>1, <1>2
<1>8. ASSUME NeverOverestimates(g)
      PROVE  /\ cursor[d] * BucketSize <= cursor'[d] * BucketSize
             /\ \A j \in queue[d] : cursor'[d] * BucketSize <= labels[d][j].sort
             /\ \A j \in DOMAIN labels[d] \ queue[d] : labels[d][j].sort <= cursor'[d] * BucketSize + Slack
             /\ labels[d][i].sort <= cursor'[d] * BucketSize + Slack
  <2>1. \A j \in queue[d] : cursor[d] * BucketSize <= labels[d][j].sort
    BY <1>8 DEF FTree, Banded
  <2>2. \A j \in queue[d] : cursor[d] <= labels[d][j].sort \div BucketSize
    BY <1>2, <2>1, BucketBounds
  <2>3. \A j \in queue[d] : Bucket(d, j) = labels[d][j].sort \div BucketSize
    <3>. SUFFICES ASSUME NEW j \in queue[d] PROVE Bucket(d, j) = labels[d][j].sort \div BucketSize
      OBVIOUS
    <3>1. labels[d][j].sort \div BucketSize \in Int /\ cursor[d] <= labels[d][j].sort \div BucketSize
      BY <1>2, <2>2, BucketBounds
    <3>. QED
      BY <1>2, <3>1 DEF Bucket
  <2>4. ASSUME NEW j \in queue[d] PROVE cursor'[d] * BucketSize <= labels[d][j].sort
    <3>. DEFINE s == labels[d][j].sort
                c == cursor'[d]
                t == s \div BucketSize
    <3>1. s \in Int /\ c \in Int /\ t \in Int /\ c <= t
      BY <1>1, <1>2, <1>6, <2>3, BucketBounds
    <3>2. c * BucketSize <= t * BucketSize /\ t * BucketSize <= s
      <4>. HIDE DEF c, s
      <4>. QED
        BY <3>1, BucketBounds
    <3>3. c * BucketSize \in Int /\ t * BucketSize \in Int
      <4>. HIDE DEF c, t
      <4>. QED
        BY <3>1, BucketBounds
    <3>. HIDE DEF c, s, t
    <3>4. c * BucketSize <= s
      BY <3>1, <3>2, <3>3
    <3>. QED
      BY <3>4 DEF c, s
  <2>5. cursor[d] <= cursor'[d]
    BY <1>1, <2>2, <2>3
  <2>6. cursor[d] * BucketSize <= cursor'[d] * BucketSize
    BY <1>2, <1>6, <2>5, BucketBounds
  <2>7. ASSUME NEW j \in DOMAIN labels[d] \ queue[d]
        PROVE  labels[d][j].sort <= cursor'[d] * BucketSize + Slack
    <3>. DEFINE s == labels[d][j].sort
                a == cursor[d] * BucketSize
                b == cursor'[d] * BucketSize
    <3>1. s \in Int /\ a \in Int /\ b \in Int /\ Slack \in Nat
      BY <1>2, <1>6, BucketBounds, EdgeFacts, TreeFacts
    <3>2. s <= a + Slack /\ a <= b
      BY <1>8, <2>6 DEF FTree, Banded
    <3>. HIDE DEF s, a, b
    <3>3. s <= b + Slack
      BY <3>1, <3>2
    <3>. QED
      BY <3>3 DEF s, b
  <2>8. labels[d][i].sort <= cursor'[d] * BucketSize + Slack
    <3>1. cursor'[d] = labels[d][i].sort \div BucketSize
      BY <1>1, <2>3
    <3>. QED
      BY <1>2, <3>1, BucketBounds
  <2>. QED
    BY <2>4, <2>6, <2>7, <2>8
<1>9. Banded(d)'
  <2>1. NeverOverestimates(g) =>
          /\ \A j \in queue[d] \ {i} : cursor'[d] * BucketSize <= labels[d][j].sort
          /\ \A j \in DOMAIN labels[d] \ (queue[d] \ {i}) :
               labels[d][j].sort <= cursor'[d] * BucketSize + Slack
          /\ cursor'[d] * BucketSize <= labels[d][i].sort
    BY <1>8
  <2>. QED
    BY <1>1, <1>7, <2>1 DEF Banded
<1>. QED
  BY <1>2, <1>3, <1>4, <1>6, <1>8, <1>9 DEF FTree

\* The label of a candidate costs no more than any way to its edge.
LEMMA SeedsAreCheap ==
  ASSUME IInv, Asked, NEW d \in Directions, TInv(d), NEW i \in DOMAIN labels[d],
         labels[d][i].pred = 0
  PROVE  labels[d][i].cost <= Whole(Along(d, labels[d][i].edge))
<1>1. g \in Graphs /\ 0 \notin DOMAIN labels[d]
  BY TreeFacts
<1>2. PICK c \in Candidates(d) : Starts(d, labels[d][i], c)
  BY <1>1 DEF TInv, LabelsAddUp, AddsUp
<1>3. c.edge \in Edges /\ PartCost(g, c.edge) * LeftOf(d, c) <= Whole(c.edge)
  BY <1>1, <1>2, CandidateFacts
<1>4. Along(d, Along(d, c.edge)) = c.edge
  BY <1>1, <1>3, EdgeFacts
<1>. QED
  BY <1>2, <1>3, <1>4 DEF Starts

\* The cost of a new label, and its place in the order.
LEMMA NewCosts ==
  ASSUME IInv, Asked, NEW d \in Directions, TInv(d), cur[d] \in DOMAIN labels[d], NEW e \in Edges,
         g.tail[e] = g.head[labels[d][cur[d]].edge]
  PROVE  /\ NewCost(d, e) \in Nat
         /\ Whole(Along(d, e)) \in Nat /\ Whole(Along(d, e)) <= NewCost(d, e)
         /\ NeverOverestimates(g) =>
              labels[d][cur[d]].sort <= NewCost(d, e) + Get(ToGo(d, e))
<1>. DEFINE u == labels[d][cur[d]]
            t == Turn(d, u.edge, e)
            w == Whole(Along(d, e))
            n == NewCost(d, e)
<1>1. g \in Graphs /\ u.cost \in Nat /\ u.edge \in Edges
  BY TreeFacts
<1>2. t \in Nat /\ w \in Nat
  BY <1>1, EdgeFacts
<1>3. n = u.cost + t + w
  BY DEF NewCost
<1>4. u.sort = u.cost + Get(ToGo(d, u.edge))
  BY DEF TInv, LabelsAddUp
<1>5. NeverOverestimates(g) => Get(ToGo(d, u.edge)) <= w + Get(ToGo(d, e))
  BY <1>1, EstimateFalls
<1>6. Get(ToGo(d, u.edge)) \in Nat /\ Get(ToGo(d, e)) \in Nat
  BY <1>1, GoalFacts
<1>. DEFINE a == Get(ToGo(d, u.edge))
            b == Get(ToGo(d, e))
            s == u.sort
            c == u.cost
<1>7. c \in Nat /\ a \in Nat /\ b \in Nat /\ s = c + a /\ (NeverOverestimates(g) => a <= w + b)
  BY <1>1, <1>4, <1>5, <1>6
<1>8. n = c + t + w
  BY <1>3
<1>. HIDE DEF a, b, s, c, t, w, n
<1>9. n \in Nat /\ w <= n /\ (NeverOverestimates(g) => s <= n + b)
  BY <1>2, <1>7, <1>8
<1>. QED
  BY <1>2, <1>9 DEF n, w, s, b, u

\* It keeps it when an edge is labelled: nothing is labelled below the bucket of the cursor.
LEMMA TakeKeepsFTree ==
  ASSUME IInv, Asked, g' = g, origin' = origin, destination' = destination, NEW d \in Directions,
         TInv(d), TInv(d)', FTree(d), NEW e \in Edges, NEW i \in DOMAIN labels'[d], Takes(d, e, i),
         cur[d] \in DOMAIN labels[d], g.tail[e] = g.head[labels[d][cur[d]].edge]
  PROVE  FTree(d)'
<1>1. /\ DOMAIN labels[d] \subseteq DOMAIN labels'[d]
      /\ DOMAIN labels'[d] \ queue'[d] = DOMAIN labels[d] \ queue[d]
      /\ i \in queue'[d]
      /\ \A j \in DOMAIN labels'[d] : j # i => j \in DOMAIN labels[d] /\ labels'[d][j] = labels[d][j]
      /\ \A p \in DOMAIN labels[d] \ queue[d] : labels'[d][p] = labels[d][p] /\ p # i
      /\ cur[d] \in DOMAIN labels[d] \ queue[d]
      /\ DOMAIN labels'[d] = DOMAIN labels[d] \cup {i} /\ queue'[d] = queue[d] \cup {i}
      /\ status[d][e].set # "permanent"
  BY TakeFacts
<1>2. /\ labels'[d][i].edge = e /\ labels'[d][i].cost = NewCost(d, e) /\ labels'[d][i].pred = cur[d]
      /\ status'[d][e].set = "temporary" /\ status'[d][e].idx = i
      /\ \A f \in Edges : f # e => status'[d][f] = status[d][f]
      /\ cur'[d] = cur[d] /\ cursor'[d] = cursor[d]
  BY DEF Takes
<1>3. /\ g \in Graphs /\ cursor[d] \in Int /\ cur[d] # 0
      /\ \A j \in DOMAIN labels[d] : labels[d][j].edge \in Edges /\ labels[d][j].sort \in Int
      /\ labels[d][cur[d]].sort \in Int
      /\ labels[d][cur[d]].cost \in Nat /\ labels[d][cur[d]].edge \in Edges
  BY TreeFacts
<1>4. /\ NewCost(d, e) \in Nat
      /\ Whole(Along(d, e)) \in Nat /\ Whole(Along(d, e)) <= NewCost(d, e)
      /\ NeverOverestimates(g) => labels[d][cur[d]].sort <= NewCost(d, e) + Get(ToGo(d, e))
  BY NewCosts
<1>5. OneLabelEach(d)'
  <2>. SUFFICES ASSUME NEW j \in DOMAIN labels'[d]
                PROVE  /\ status'[d][labels'[d][j].edge].idx = j
                       /\ status'[d][labels'[d][j].edge].set =
                            IF j \in queue'[d] THEN "temporary" ELSE "permanent"
    BY DEF OneLabelEach
  <2>1. CASE j = i
    BY <1>1, <1>2, <2>1
  <2>2. CASE j # i
    <3>1. /\ j \in DOMAIN labels[d] /\ labels'[d][j] = labels[d][j] /\ labels[d][j].edge \in Edges
          /\ status[d][labels[d][j].edge].idx = j
          /\ status[d][labels[d][j].edge].set = IF j \in queue[d] THEN "temporary" ELSE "permanent"
          /\ j \in queue'[d] <=> j \in queue[d]
      BY <1>1, <1>3, <2>2 DEF FTree, OneLabelEach
    <3>2. labels[d][j].edge # e
      <4>1. \/ status[d][e].set = "temporary" /\ i = status[d][e].idx
            \/ status[d][e].set = "unreached"
        BY DEF Takes
      <4>. QED
        BY <2>2, <3>1, <4>1
    <3>. QED
      BY <1>2, <3>1, <3>2
  <2>. QED
    BY <2>1, <2>2
<1>6. SeedsStand(d)'
  <2>1. labels[d] # <<>>
    BY <1>1
  <2>. SUFFICES ASSUME NEW c \in Candidates(d)
                PROVE  \E j \in DOMAIN labels'[d] : Starts(d, labels'[d][j], c)
    BY SameQuery DEF SeedsStand
  <2>2. PICK j \in DOMAIN labels[d] : Starts(d, labels[d][j], c)
    BY <2>1 DEF FTree, SeedsStand
  <2>3. j # i
    <3>. SUFFICES ASSUME j = i PROVE FALSE
      OBVIOUS
    <3>1. i = status[d][e].idx /\ status[d][e].set = "temporary" /\ NewCost(d, e) < labels[d][i].cost
      <4>1. i # Len(labels[d]) + 1
        BY <2>2, TreeFacts
      <4>. QED
        BY <4>1 DEF Takes
    <3>2. labels[d][i].edge = e /\ labels[d][i].pred = 0 /\ labels[d][i].cost \in Nat
      BY <2>2, <3>1, TreeFacts DEF Starts
    <3>3. labels[d][i].cost <= Whole(Along(d, e))
      BY <2>2, <3>2, SeedsAreCheap
    <3>. QED
      BY <1>4, <3>1, <3>2, <3>3
  <2>. QED
    BY <1>1, <2>2, <2>3
<1>7. Banded(d)'
  <2>1. labels'[d] # <<>>
    BY <1>1
  <2>2. ASSUME NeverOverestimates(g) PROVE cursor[d] * BucketSize <= labels'[d][i].sort
    <3>1. cursor[d] * BucketSize <= labels[d][cur[d]].sort
      BY <1>3, <2>2 DEF FTree, Banded
    <3>2. labels'[d][i].sort = NewCost(d, e) + Get(ToGo(d, e))
      BY <1>2, SameQuery DEF TInv, LabelsAddUp
    <3>3. Get(ToGo(d, e)) \in Nat /\ cursor[d] * BucketSize \in Int
      BY <1>3, GoalFacts, BucketBounds
    <3>. DEFINE a == cursor[d] * BucketSize
                b == labels[d][cur[d]].sort
                c == NewCost(d, e) + Get(ToGo(d, e))
    <3>4. a \in Int /\ b \in Int /\ c \in Int /\ a <= b /\ b <= c
      BY <1>3, <1>4, <2>2, <3>1, <3>3
    <3>. HIDE DEF a, b, c
    <3>5. a <= c
      BY <3>4
    <3>. QED
      BY <3>2, <3>5 DEF a, c
  <2>3. \A j \in queue'[d] : j = i \/ (j \in queue[d] /\ labels'[d][j] = labels[d][j])
    BY <1>1, TreeFacts
  <2>. QED
    BY <1>1, <1>2, <1>3, <2>1, <2>2, <2>3 DEF FTree, Banded
<1>. QED
  BY <1>5, <1>6, <1>7 DEF FTree

\* It has it once its candidates are labelled.
LEMMA SeedKeepsFTree ==
  ASSUME IInv, Asked, g' = g, origin' = origin, destination' = destination, NEW d \in Directions,
         FTree(d), Seeds(d)
  PROVE  FTree(d)'
<1>1. /\ labels[d] = <<>> /\ queue'[d] = DOMAIN labels'[d] /\ cursor'[d] = cursor[d] /\ cur'[d] = 0
      /\ \A c \in Candidates(d) : \E i \in DOMAIN labels'[d] : Starts(d, labels'[d][i], c)
      /\ \A i \in DOMAIN labels'[d] :
           /\ \E c \in Candidates(d) : Starts(d, labels'[d][i], c)
           /\ labels'[d][i].sort = labels'[d][i].cost + Get(ToGo(d, labels'[d][i].edge))
           /\ status'[d][labels'[d][i].edge].set = "temporary"
           /\ status'[d][labels'[d][i].edge].idx = i
  BY DEF Seeds
<1>2. OneLabelEach(d)'
  BY <1>1 DEF OneLabelEach
<1>3. SeedsStand(d)'
  BY <1>1, SameQuery DEF SeedsStand
<1>4. Candidates(d) # {} /\ g \in Graphs
  <2>1. origin # {} /\ destination # {}
    BY DEF IInv, IsLocation
  <2>. QED
    BY <2>1, TreeFacts DEF Candidates
<1>5. labels'[d] # <<>>
  BY <1>1, <1>4
<1>6. ASSUME NeverOverestimates(g), NEW i \in DOMAIN labels'[d]
      PROVE  cursor[d] * BucketSize <= labels'[d][i].sort
  <2>. DEFINE D == Get(Distance(Place(g, origin), Place(g, destination)))
  <2>1. PICK c \in Candidates(d) : Starts(d, labels'[d][i], c)
    BY <1>1
  <2>2. D <= labels'[d][i].sort
    <3>1. D <= PartCost(g, c.edge) * LeftOf(d, c) + Get(ToGo(d, Along(d, c.edge)))
      BY <1>4, <1>6, <2>1, SeedEstimate
    <3>. QED
      BY <1>1, <2>1, <3>1 DEF Starts
  <2>3. cursor[d] = D \div BucketSize
    BY <1>1 DEF FTree, Banded
  <2>4. D \in Int
    <3>1. Place(g, origin) \in Int /\ Place(g, destination) \in Int
      BY <1>4, PlaceType DEF IInv
    <3>. QED
      BY <3>1, DistanceType, GetType
  <2>5. labels'[d][i].sort \in Int
    <3>1. /\ PartCost(g, c.edge) * LeftOf(d, c) \in Nat /\ Along(d, c.edge) \in Edges
      BY <1>4, <2>1, CandidateFacts
    <3>2. Get(ToGo(d, Along(d, c.edge))) \in Nat
      BY <1>4, <3>1, GoalFacts
    <3>. QED
      BY <1>1, <2>1, <3>1, <3>2 DEF Starts
  <2>. HIDE DEF D
  <2>6. cursor[d] * BucketSize <= D /\ cursor[d] * BucketSize \in Int
    BY <2>3, <2>4, BucketBounds
  <2>. QED
    BY <2>2, <2>4, <2>5, <2>6
<1>7. Banded(d)'
  BY <1>1, <1>5, <1>6 DEF Banded
<1>. QED
  BY <1>2, <1>3, <1>7 DEF FTree

\* Every step keeps it, as nothing is reset.
LEMMA StepKeepsFTree ==
  ASSUME GInv, GInv', [Next]_vars, g.restrictions = {}, NEW d \in Directions, FTree(d)
  PROVE  FTree(d)'
<1>1. IInv /\ Asked /\ TInv(d) /\ TInv(d)'
  BY DEF GInv
<1>2. g' = g /\ origin' = origin /\ destination' = destination /\ TreeStep(d)
  BY <1>1, StepMoves
<1>. QED
  BY <1>1, <1>2, StayKeepsFTree, PopKeepsFTree, TakeKeepsFTree, SeedKeepsFTree DEF TreeStep

----------------------------------------------------------------------------
\* What a tree knows of an edge: its label, what it costs, and whether it still may change.
LabelOf(d, e) == labels[d][status[d][e].idx]

\* The cost of its label.
Cost(d, e) == LabelOf(d, e).cost

\* It has a label.
Reached(d, e) == status[d][e].set # "unreached"

\* Its label was popped.
Settled(d, e) == status[d][e].set = "permanent"

\* A label that may be part of a connection; it does not change any more.
Stands(d, e) ==
  \/ Settled(d, e)
  \/ status[d][e].set = "temporary" /\ LabelOf(d, e).pred = 0

\* The label of an edge that was reached.
LEMMA ReachedFacts ==
  ASSUME GInv, NEW d \in Directions, FTree(d), NEW e \in Edges, Reached(d, e)
  PROVE  /\ status[d][e].idx \in DOMAIN labels[d] /\ LabelOf(d, e).edge = e
         /\ Cost(d, e) \in Nat /\ LabelOf(d, e).sort = Cost(d, e) + Get(ToGo(d, e))
         /\ Settled(d, e) <=> status[d][e].idx \notin queue[d]
         /\ \A i \in DOMAIN labels[d] : labels[d][i].edge = e => i = status[d][e].idx
<1>1. status[d][e].idx \in DOMAIN labels[d]
  BY TreeFacts DEF GInv, Reached
<1>2. LabelOf(d, e).edge = e
  BY DEF GInv, TInv, StatusIsLabel, Reached, LabelOf
<1>3. Cost(d, e) \in Nat
  BY <1>1, TreeFacts DEF GInv, Cost, LabelOf
<1>4. LabelOf(d, e).sort = Cost(d, e) + Get(ToGo(d, e))
  BY <1>1, <1>2 DEF GInv, TInv, LabelsAddUp, Cost, LabelOf
<1>5. Settled(d, e) <=> status[d][e].idx \notin queue[d]
  BY <1>1, <1>2 DEF FTree, OneLabelEach, LabelOf, Settled
<1>6. \A i \in DOMAIN labels[d] : labels[d][i].edge = e => i = status[d][e].idx
  BY DEF FTree, OneLabelEach
<1>. QED
  BY <1>1, <1>2, <1>3, <1>4, <1>5, <1>6

\* What a step changes of that.
LEMMA EdgeMoves ==
  ASSUME GInv, GInv', [Next]_vars, g.restrictions = {}, NEW d \in Directions, FTree(d),
         NEW e \in Edges
  PROVE  /\ Stands(d, e) => Stands(d, e)' /\ LabelOf(d, e)' = LabelOf(d, e)
         /\ Settled(d, e) => Settled(d, e)'
         /\ Reached(d, e) => Reached(d, e)' /\ Cost(d, e)' <= Cost(d, e)
         /\ Stands(d, e)' => \/ Stands(d, e) \/ labels[d] = <<>>
                             \/ \E i \in queue[d] : Pops(d, i) /\ labels[d][i].edge = e
         /\ Settled(d, e)' => \/ Settled(d, e)
                              \/ \E i \in queue[d] : Pops(d, i) /\ labels[d][i].edge = e
<1>1. IInv /\ IInv' /\ Asked /\ TInv(d) /\ TInv(d)'
  BY DEF GInv
<1>2. TreeStep(d)
  BY <1>1, StepMoves
<1>3. Reached(d, e) => Cost(d, e) \in Nat /\ status[d][e].idx \in DOMAIN labels[d]
  BY ReachedFacts
<1>4. CASE Stays(d)
  BY <1>3, <1>4 DEF Stays, Stands, Settled, Reached, Cost, LabelOf
<1>5. ASSUME NEW i \in queue[d], Pops(d, i)
      PROVE  /\ Stands(d, e) => Stands(d, e)' /\ LabelOf(d, e)' = LabelOf(d, e)
             /\ Settled(d, e) => Settled(d, e)'
             /\ Reached(d, e) => Reached(d, e)' /\ Cost(d, e)' <= Cost(d, e)
             /\ Settled(d, e)' => Settled(d, e) \/ labels[d][i].edge = e
             /\ Stands(d, e)' => Stands(d, e) \/ labels[d][i].edge = e
  <2>1. /\ labels'[d] = labels[d] /\ status'[d][e].idx = status[d][e].idx
        /\ status'[d][e].set = IF e = labels[d][i].edge THEN "permanent" ELSE status[d][e].set
    BY <1>5 DEF Pops
  <2>. QED
    BY <1>3, <2>1 DEF Stands, Settled, Reached, Cost, LabelOf
<1>6. ASSUME cur[d] \in DOMAIN labels[d], NEW f \in Edges, NEW i \in DOMAIN labels'[d], Takes(d, f, i),
             g.tail[f] = g.head[labels[d][cur[d]].edge]
      PROVE  /\ Stands(d, e) => Stands(d, e)' /\ LabelOf(d, e)' = LabelOf(d, e)
             /\ Settled(d, e) => Settled(d, e)'
             /\ Reached(d, e) => Reached(d, e)' /\ Cost(d, e)' <= Cost(d, e)
             /\ Settled(d, e)' => Settled(d, e)
             /\ Stands(d, e)' => Stands(d, e)
  <2>1. /\ \A j \in DOMAIN labels[d] : j # i => labels'[d][j] = labels[d][j]
        /\ status'[d][f].set = "temporary" /\ status'[d][f].idx = i
        /\ f # e => status'[d][e] = status[d][e]
        /\ labels'[d][i].pred = cur[d] /\ labels'[d][i].cost = NewCost(d, f)
        /\ \/ status[d][f].set = "temporary" /\ i = status[d][f].idx /\ NewCost(d, f) < labels[d][i].cost
           \/ status[d][f].set = "unreached" /\ i = Len(labels[d]) + 1
    BY <1>6 DEF Takes
  <2>2. cur[d] # 0 /\ Len(labels[d]) + 1 \notin DOMAIN labels[d]
    BY <1>1, <1>6, TreeFacts
  <2>3. CASE e # f
    <3>1. Reached(d, e) => status[d][e].idx # i
      <4>. SUFFICES ASSUME Reached(d, e), status[d][e].idx = i PROVE FALSE
        OBVIOUS
      <4>1. i \in DOMAIN labels[d] /\ labels[d][i].edge = e
        BY ReachedFacts DEF LabelOf
      <4>2. status[d][f].set = "temporary" /\ i = status[d][f].idx
        BY <2>1, <2>2, <4>1
      <4>3. labels[d][i].edge = f
        BY <4>2, ReachedFacts DEF LabelOf, Reached
      <4>. QED
        BY <2>3, <4>1, <4>3
    <3>2. status'[d][e] = status[d][e] /\ (Reached(d, e) => LabelOf(d, e)' = LabelOf(d, e))
      BY <1>3, <2>1, <2>3, <3>1 DEF LabelOf
    <3>. QED
      BY <1>3, <3>2 DEF Stands, Settled, Reached, Cost
  <2>4. CASE e = f
    <3>1. ~Stands(d, e)
      <4>. SUFFICES ASSUME Stands(d, e) PROVE FALSE
        OBVIOUS
      <4>1. status[d][e].set = "temporary" /\ labels[d][i].pred = 0 /\ i = status[d][e].idx
            /\ NewCost(d, e) < labels[d][i].cost
        BY <2>1, <2>4 DEF Stands, Settled, LabelOf
      <4>2. i \in DOMAIN labels[d] /\ labels[d][i].edge = e /\ labels[d][i].cost \in Nat
        BY <4>1, <1>3, ReachedFacts DEF Reached, LabelOf, Cost
      <4>3. labels[d][i].cost <= Whole(Along(d, e))
        BY <1>1, <4>1, <4>2, SeedsAreCheap
      <4>4. NewCost(d, e) \in Nat /\ Whole(Along(d, e)) \in Nat /\ Whole(Along(d, e)) <= NewCost(d, e)
        BY <1>1, <1>6, <2>4, NewCosts
      <4>. QED
        BY <4>1, <4>2, <4>3, <4>4
    <3>2. ~Settled(d, e) /\ ~Settled(d, e)' /\ ~Stands(d, e)'
      BY <2>1, <2>2, <2>4, <3>1 DEF Stands, Settled, LabelOf
    <3>3. NewCost(d, e) \in Nat
      BY <1>1, <1>6, <2>4, NewCosts
    <3>4. Reached(d, e) => Cost(d, e)' <= Cost(d, e)
      BY <1>3, <2>1, <2>4, <3>3 DEF Reached, Cost, LabelOf
    <3>5. Reached(d, e)'
      BY <2>1, <2>4 DEF Reached
    <3>. QED
      BY <3>1, <3>2, <3>4, <3>5
  <2>. QED
    BY <2>3, <2>4
<1>7. CASE Seeds(d)
  <2>1. labels[d] = <<>>
    BY <1>7 DEF Seeds
  <2>2. ~Reached(d, e)
    BY <1>3, <2>1
  <2>3. ~Settled(d, e)'
    <3>1. \/ status'[d][e].set = "unreached"
          \/ \E i \in DOMAIN labels'[d] : labels'[d][i].edge = e
      BY <1>7 DEF Seeds
    <3>2. \A i \in DOMAIN labels'[d] : status'[d][labels'[d][i].edge].set = "temporary"
      BY <1>7, SMTT(30) DEF Seeds
    <3>. QED
      BY <3>1, <3>2 DEF Settled
  <2>. QED
    BY <2>1, <2>2, <2>3 DEF Stands, Settled, Reached
<1>. QED
  BY <1>2, <1>4, <1>5, <1>6, <1>7 DEF TreeStep

\* The cursor only moves on.
LEMMA CursorGrows ==
  ASSUME GInv, [Next]_vars, g.restrictions = {}, NEW d \in Directions, FTree(d),
         NeverOverestimates(g)
  PROVE  /\ cursor[d] * BucketSize \in Int /\ cursor'[d] * BucketSize \in Int
         /\ cursor[d] * BucketSize <= cursor'[d] * BucketSize
<1>1. IInv /\ Asked /\ TInv(d)
  BY DEF GInv
<1>2. g' = g /\ origin' = origin /\ destination' = destination /\ TreeStep(d) /\ cursor[d] \in Int
  BY <1>1, StepMoves, TreeFacts
<1>3. CASE cursor'[d] = cursor[d]
  BY <1>2, <1>3, BucketBounds
<1>4. ASSUME NEW i \in queue[d], Pops(d, i)
      PROVE  cursor'[d] \in Int /\ cursor[d] * BucketSize <= cursor'[d] * BucketSize
  BY <1>1, <1>2, <1>4, PopKeepsFTree
<1>. QED
  BY <1>2, <1>3, <1>4, BucketBounds DEF TreeStep, Stays, Takes, Seeds

----------------------------------------------------------------------------
\* What a route costs that goes by the labels of both trees for an edge.
Joined(d, e) == Cost(d, e) + Cost(Other(d), g.opp[e]) - Whole(Along(d, e))

\* An edge that both trees may join at was tried as a connection.
BothSettled ==
  \A d \in Directions, e \in Edges :
    Settled(d, e) /\ Stands(Other(d), g.opp[e]) => best.edge # 0 /\ best.cost <= Joined(d, e)

\* The labels of the best connection are the ones it was made of.
BestStands ==
  best.edge # 0 =>
    /\ best.edge \in Edges
    /\ Stands("forward", best.edge) /\ Stands("reverse", g.opp[best.edge])
    /\ best.cost = Joined("forward", best.edge)

----------------------------------------------------------------------------
\* A label is popped by Stop, Connect or PopOther, and the other tree stays.
LEMMA PopIsStep ==
  ASSUME GInv, [Next]_vars, NEW d \in Directions, NEW i \in queue[d], Pops(d, i)
  PROVE  /\ Stop(d, i) \/ Connect(d, i) \/ PopOther(d, i)
         /\ pc = d /\ Stays(Other(d))
<1>1. IInv /\ cur[d] \notin queue[d] /\ cur'[d] = i /\ queue'[d] = queue[d] \ {i}
  BY TreeFacts DEF GInv, Pops
<1>2. cur'[d] # cur[d]
  BY <1>1
<1>3. PICK t \in Directions : \E j \in queue[t] : Stop(t, j) \/ Connect(t, j) \/ PopOther(t, j)
  BY <1>2 DEF Next, vars, SetOrigin, SetDestination, Seed, Exhausted, Choose, Expanding,
              ExpandBlocked, ExpandEdge, SkipBack, UTurn, EndExpand
<1>8. PICK j \in queue[t] : Stop(t, j) \/ Connect(t, j) \/ PopOther(t, j)
  BY <1>3
<1>4. Pop(t, j) /\ UNCHANGED labels /\ pc = t
  BY <1>8 DEF Stop, Connect, PopOther, Pop
<1>5. Pops(t, j) /\ Stays(Other(t))
  BY <1>1, <1>4, PopMoves
<1>6. t = d
  BY <1>2, <1>5, Others DEF Stays
<1>7. i = j
  BY <1>1, <1>5, <1>6 DEF Pops
<1>. QED
  BY <1>4, <1>5, <1>6, <1>7, <1>8

\* Where nothing is restricted, trees that meet are connected.
LEMMA MeetingConnects ==
  ASSUME g.restrictions = {}, NEW d \in Directions, NEW i \in queue[d]
  PROVE  /\ Connects(d, i) <=> Meets(d, i)
         /\ Meets(d, i) <=> Stands(Other(d), g.opp[labels[d][i].edge])
<1>1. ~OnRestriction(labels[d][i].edge)
  BY DEF OnRestriction
<1>2. Connects(d, i) <=> Meets(d, i)
  BY <1>1 DEF Connects
<1>. QED
  BY <1>2, Zenon DEF Meets, Stands, Settled, OppStatus, Opposite, LabelOf

\* Two ways to say the same.
LEMMA JoinedEither ==
  ASSUME g \in Graphs, NEW d \in Directions, NEW e \in Edges,
         Cost(d, e) \in Nat, Cost(Other(d), g.opp[e]) \in Nat
  PROVE  Joined(Other(d), g.opp[e]) = Joined(d, e) /\ Joined(d, e) \in Int
<1>1. /\ g.opp[g.opp[e]] = e /\ g.opp[e] \in Edges /\ Other(Other(d)) = d /\ Along(d, e) \in Edges
  BY EdgeFacts, Others
<1>2. Along(Other(d), g.opp[e]) = Along(d, e)
  BY <1>1 DEF Along, Other, Directions
<1>3. Whole(Along(d, e)) \in Nat
  BY <1>1, EdgeFacts
<1>. DEFINE a == Cost(d, e)
            b == Cost(Other(d), g.opp[e])
            w == Whole(Along(d, e))
<1>4. Joined(d, e) = a + b - w /\ Joined(Other(d), g.opp[e]) = b + a - w
  BY <1>1, <1>2 DEF Joined
<1>5. a \in Nat /\ b \in Nat /\ w \in Nat
  BY <1>3
<1>. HIDE DEF a, b, w
<1>. QED
  BY <1>4, <1>5

\* SetForwardConnection and SetReverseConnection compute that from the labels before the
\* edge and on it.
LEMMA ConnectionAdds ==
  ASSUME GInv, NEW d \in Directions, NEW i \in queue[d], Meets(d, i)
  PROVE  /\ labels[d][i].edge \in Edges /\ labels[d][i].cost \in Nat /\ Opposite(d, i).cost \in Nat
         /\ ConnectionCost(d, i) = labels[d][i].cost + Opposite(d, i).cost
                                   - Whole(Along(d, labels[d][i].edge))
         /\ ConnectionCost(d, i) \in Int
<1>. DEFINE e == labels[d][i].edge
            o == Other(d)
            l == labels[d][i]
            m == Opposite(d, i)
            w == Whole(Along(d, e))
<1>1. /\ IInv /\ Asked /\ TInv(d) /\ TInv(o) /\ o \in Directions
      /\ i \in DOMAIN labels[d] /\ e \in Edges /\ g \in Graphs /\ 0 \notin DOMAIN labels[d]
      /\ 0 \notin DOMAIN labels[o] /\ l.pred \in Nat /\ l.cost \in Nat
  BY TreeFacts, Others DEF GInv
<1>2. /\ OppStatus(d, i).idx \in DOMAIN labels[o] /\ m.edge = g.opp[e] /\ m \in {labels[o][j] : j \in DOMAIN labels[o]}
  <2>1. OppStatus(d, i).set # "unreached"
    BY DEF Meets
  <2>. QED
    BY <1>1, <2>1, OppositeFacts DEF GInv, Opposite
<1>3. m.cost \in Nat /\ m.pred \in Nat
  BY <1>1, <1>2, TreeFacts
<1>6. w \in Nat /\ g.opp[e] \in Edges /\ Along(d, e) \in Edges
  BY <1>1, EdgeFacts
<1>7. Along(o, g.opp[e]) = Along(d, e)
  BY <1>1, EdgeFacts DEF Along, Other, Directions
<1>8. CASE l.pred # 0
  <2>. DEFINE p == labels[d][l.pred].cost
  <2>1. l.pred \in DOMAIN labels[d] /\ l.cost = p + l.turn + w
    BY <1>1, <1>8 DEF TInv, LabelsAddUp, AddsUp
  <2>2. p \in Nat /\ l.turn \in Nat
    BY <1>1, <2>1, TreeFacts
  <2>3. ConnectionCost(d, i) = p + m.cost + l.turn
    BY <1>8 DEF ConnectionCost
  <2>. DEFINE u == l.turn
              c == l.cost
              b == m.cost
  <2>4. /\ c = p + u + w /\ p \in Nat /\ u \in Nat /\ b \in Nat /\ w \in Nat
        /\ ConnectionCost(d, i) = p + b + u
    BY <1>3, <1>6, <2>1, <2>2, <2>3
  <2>. HIDE DEF p, u, c, b, w
  <2>5. ConnectionCost(d, i) = c + b - w /\ ConnectionCost(d, i) \in Int
    BY <2>4
  <2>. QED
    BY <1>1, <1>3, <2>5 DEF c, b, w
<1>9. CASE l.pred = 0
  <2>. DEFINE p == labels[o][m.pred].cost
  <2>1. m.pred # 0
    BY <1>1, <1>2, <1>9, SeedsApart DEF GInv, Opposite
  <2>2. m.pred \in DOMAIN labels[o] /\ m.cost = p + m.turn + Whole(Along(o, m.edge))
    BY <1>1, <1>2, <2>1 DEF TInv, LabelsAddUp, AddsUp, Opposite
  <2>3. p \in Nat /\ m.turn \in Nat
    BY <1>1, <1>2, <2>2, TreeFacts
  <2>4. ConnectionCost(d, i) = l.cost + p + m.turn
    BY <1>9, <2>1 DEF ConnectionCost
  <2>5. m.cost = p + m.turn + w
    BY <1>2, <1>7, <2>2
  <2>. DEFINE u == m.turn
              c == l.cost
              b == m.cost
  <2>6. /\ b = p + u + w /\ p \in Nat /\ u \in Nat /\ c \in Nat /\ w \in Nat
        /\ ConnectionCost(d, i) = c + p + u
    BY <1>1, <1>6, <2>3, <2>4, <2>5
  <2>. HIDE DEF p, u, c, b, w
  <2>7. ConnectionCost(d, i) = c + b - w /\ ConnectionCost(d, i) \in Int
    BY <2>6
  <2>. QED
    BY <1>1, <1>3, <2>7 DEF c, b, w
<1>. QED
  BY <1>8, <1>9

\* SetForwardConnection and SetReverseConnection: the label popped last joins the other tree's
\* label for the opposing edge, and the best route costs no more than both.
LEMMA ConnectionJoins ==
  ASSUME GInv, \A t \in Directions : FTree(t), NEW d \in Directions, NEW i \in queue[d], Meets(d, i)
  PROVE  /\ labels[d][i].edge \in Edges
         /\ ConnectionCost(d, i) = Joined(d, labels[d][i].edge)
         /\ ConnectionCost(d, i) \in Int
<1>1. i \in DOMAIN labels[d]
  BY TreeFacts DEF GInv
<1>2. status[d][labels[d][i].edge].idx = i
  BY <1>1 DEF FTree, OneLabelEach
<1>3. /\ Cost(d, labels[d][i].edge) = labels[d][i].cost
      /\ Cost(Other(d), g.opp[labels[d][i].edge]) = Opposite(d, i).cost
  BY <1>2 DEF Cost, LabelOf, Opposite, OppStatus
<1>. QED
  BY <1>3, ConnectionAdds DEF Joined

\* The best route has a cost.
LEMMA BestType == GInv => best.cost \in Int
  BY SearchAssumption DEF GInv, IInv, TypeOK, NoConnection

\* It has one after a step.
LEMMA BestTypeNext == ASSUME GInv' PROVE best'.cost \in Int
<1>1. (GInv => best.cost \in Int)'
  BY BestType, PTL
<1>. QED
  BY <1>1

\* The best connection is replaced by cheaper ones only.
LEMMA BestMoves ==
  ASSUME GInv, [Next]_vars, \A t \in Directions : FTree(t)
  PROVE  /\ best.edge # 0 => best'.edge # 0 /\ best'.cost <= best.cost /\ best.cost \in Int
         /\ best' = best \/ \E d \in Directions : \E i \in queue[d] : Connect(d, i) /\ best' =
              [edge |-> Along(d, labels[d][i].edge), cost |-> ConnectionCost(d, i)]
<1>1. best' = best \/ \E d \in Directions : \E i \in queue[d] : Connect(d, i) /\ best' # best
  BY DEF Next, vars, SetOrigin, SetDestination, Seed, Exhausted, Stop, PopOther,
           Choose, Expanding, ExpandBlocked, ExpandEdge, SkipBack, UTurn, EndExpand
<1>2. best.cost \in Int /\ g \in Graphs
  BY BestType DEF GInv, IInv, TypeOK
<1>3. CASE best' = best
  BY <1>2, <1>3
<1>4. ASSUME NEW d \in Directions, NEW i \in queue[d], Connect(d, i), best' # best
      PROVE  /\ best.edge # 0 => best'.edge # 0 /\ best'.cost <= best.cost
             /\ best' = [edge |-> Along(d, labels[d][i].edge), cost |-> ConnectionCost(d, i)]
  <2>1. Meets(d, i) /\ best' = [edge |-> Along(d, labels[d][i].edge), cost |-> ConnectionCost(d, i)]
        /\ (best.edge = 0 \/ ConnectionCost(d, i) < best.cost)
    BY <1>4 DEF Connect, Connects
  <2>2. labels[d][i].edge \in Edges /\ ConnectionCost(d, i) \in Int
    BY <2>1, ConnectionJoins
  <2>3. Along(d, labels[d][i].edge) # 0
    BY <1>2, <2>2, EdgeFacts
  <2>. QED
    BY <1>2, <2>1, <2>2, <2>3
<1>. QED
  BY <1>1, <1>2, <1>3, <1>4

----------------------------------------------------------------------------
\* Both trees have labels once their ends were set.
Seeded ==
  /\ pc # "origin" => labels["forward"] # <<>>
  /\ pc \notin {"origin", "destination"} => labels["reverse"] # <<>>

\* Once both ends are set, both trees have labels.
LEMMA SeededTrees ==
  ASSUME Seeded, NEW d \in Directions, pc \notin {"origin", "destination"}
  PROVE  labels[d] # <<>>
  BY DEF Seeded, Directions

\* Both trees keep the labels they have, through every step.
LEMMA NextSeeded ==
  ASSUME GInv, [Next]_vars, Seeded
  PROVE  Seeded'
<1>1. IInv /\ Asked
  BY DEF GInv
<1>2. ASSUME NEW d \in Directions, labels[d] # <<>> PROVE labels'[d] # <<>>
  <2>1. TreeStep(d) /\ labels[d] \in Seq(Label)
    BY <1>1, StepMoves, TreeFacts
  <2>2. DOMAIN labels[d] # {}
    <3>1. Len(labels[d]) # 0 /\ Len(labels[d]) \in Nat /\ DOMAIN labels[d] = 1 .. Len(labels[d])
      BY <1>2, <2>1, EmptySeq
    <3>2. 1 \in DOMAIN labels[d]
      BY <3>1, SMTT(30)
    <3>. QED
      BY <3>2
  <2>3. DOMAIN labels[d] \subseteq DOMAIN labels'[d]
    <3>1. ASSUME cur[d] \in DOMAIN labels[d], NEW e \in Edges, NEW i \in DOMAIN labels'[d], Takes(d, e, i)
          PROVE  DOMAIN labels[d] \subseteq DOMAIN labels'[d]
      BY <1>1, <3>1, TakeFacts
    <3>. QED
      BY <1>2, <2>1, <3>1 DEF TreeStep, Stays, Pops, Unreaches, Seeds
  <2>. QED
    BY <2>2, <2>3
<1>3. ASSUME NEW d \in Directions, Seed(d), labels[d] = <<>>, cur[d] = 0 PROVE labels'[d] # <<>>
  <2>1. Seeds(d)
    BY <1>1, <1>3, SeedMoves
  <2>2. Candidates(d) # {}
    <3>1. origin # {} /\ destination # {}
      BY <1>1 DEF IInv, IsLocation
    <3>. QED
      BY <3>1 DEF Candidates
  <2>. QED
    BY <2>1, <2>2 DEF Seeds
<1>4. "forward" \in Directions /\ "reverse" \in Directions
  BY DEF Directions
<1>5. CASE pc = "origin"
  <2>1. SetOrigin \/ pc' = "origin"
    BY <1>5 DEF Next, vars, SetDestination, Exhausted, Stop, Connect, PopOther, Pop,
                Choose, Expanding, ExpandBlocked, ExpandEdge, SkipBack, UTurn, EndExpand, Directions
  <2>2. SetOrigin => labels'["forward"] # <<>> /\ pc' = "destination"
    BY <1>1, <1>3, <1>4, <1>5 DEF SetOrigin, IInv, Stages
  <2>. QED
    BY <2>1, <2>2 DEF Seeded
<1>6. CASE pc = "destination"
  <2>1. SetDestination \/ pc' = "destination"
    BY <1>6 DEF Next, vars, SetOrigin, Exhausted, Stop, Connect, PopOther, Pop,
                Choose, Expanding, ExpandBlocked, ExpandEdge, SkipBack, UTurn, EndExpand, Directions
  <2>2. SetDestination => labels'["reverse"] # <<>>
    BY <1>1, <1>3, <1>4, <1>6 DEF SetDestination, IInv, Stages
  <2>3. labels'["forward"] # <<>>
    BY <1>2, <1>4, <1>6 DEF Seeded
  <2>. QED
    BY <2>1, <2>2, <2>3 DEF Seeded
<1>7. CASE pc \notin {"origin", "destination"}
  BY <1>2, <1>4, <1>7 DEF Seeded
<1>. QED
  BY <1>5, <1>6, <1>7

----------------------------------------------------------------------------
\* The labels that a connection is made of.
LEMMA JoinedStays ==
  ASSUME GInv, GInv', [Next]_vars, g.restrictions = {}, \A t \in Directions : FTree(t),
         NEW d \in Directions, NEW e \in Edges, Stands(d, e), Stands(Other(d), g.opp[e])
  PROVE  /\ Joined(d, e)' = Joined(d, e) /\ Joined(d, e) \in Int
         /\ Stands(d, e)' /\ Stands(Other(d), g.opp[e])'
         /\ Joined(Other(d), g.opp[e]) = Joined(d, e)
<1>1. g \in Graphs /\ IInv /\ Asked /\ Other(d) \in Directions
  BY TreeFacts, Others DEF GInv
<1>2. g' = g /\ origin' = origin /\ destination' = destination /\ g.opp[e] \in Edges
  BY <1>1, StepMoves, EdgeFacts
<1>3. /\ LabelOf(d, e)' = LabelOf(d, e) /\ Stands(d, e)'
  BY EdgeMoves
<1>4. /\ LabelOf(Other(d), g.opp[e])' = LabelOf(Other(d), g.opp[e]) /\ Stands(Other(d), g.opp[e])'
  BY <1>1, <1>2, EdgeMoves
<1>5. Cost(d, e) \in Nat /\ Cost(Other(d), g.opp[e]) \in Nat
  BY <1>1, <1>2, ReachedFacts DEF Stands, Settled, Reached
<1>6. Joined(Other(d), g.opp[e]) = Joined(d, e) /\ Joined(d, e) \in Int
  BY <1>1, <1>5, JoinedEither
<1>7. Cost(d, e)' = Cost(d, e) /\ Cost(Other(d), g.opp[e])' = Cost(Other(d), g.opp[e])
  BY <1>3, <1>4 DEF Cost
<1>8. Joined(d, e)' = Joined(d, e)
  <2>1. Whole(Along(d, e))' = Whole(Along(d, e))
    BY <1>2, SameQuery
  <2>. QED
    BY <1>2, <1>7, <2>1 DEF Joined
<1>. QED
  BY <1>3, <1>4, <1>6, <1>8

\* Popping a label where the trees meet sets the best connection to one that is as cheap.
LEMMA MeetingIsTried ==
  ASSUME GInv, GInv', [Next]_vars, g.restrictions = {}, \A t \in Directions : FTree(t),
         NEW d \in Directions, NEW i \in queue[d], Pops(d, i),
         Stands(Other(d), g.opp[labels[d][i].edge]), pc' # "done"
  PROVE  /\ Connect(d, i)
         /\ best'.edge # 0 /\ best'.cost <= Joined(d, labels[d][i].edge)
         /\ Joined(d, labels[d][i].edge) \in Int
<1>1. Stop(d, i) \/ Connect(d, i) \/ PopOther(d, i)
  BY PopIsStep
<1>2. Meets(d, i) /\ Connects(d, i)
  BY MeetingConnects
<1>3. Connect(d, i)
  BY <1>1, <1>2 DEF Stop, Done, PopOther
<1>4. /\ labels[d][i].edge \in Edges /\ ConnectionCost(d, i) = Joined(d, labels[d][i].edge)
      /\ ConnectionCost(d, i) \in Int
  BY <1>2, ConnectionJoins
<1>5. best' = IF best.edge = 0 \/ ConnectionCost(d, i) < best.cost
              THEN [edge |-> Along(d, labels[d][i].edge), cost |-> ConnectionCost(d, i)]
              ELSE best
  BY <1>3 DEF Connect
<1>6. best.cost \in Int /\ g \in Graphs
  BY BestType DEF GInv, IInv, TypeOK
<1>7. Along(d, labels[d][i].edge) # 0
  BY <1>4, <1>6, EdgeFacts
<1>. QED
  BY <1>3, <1>4, <1>5, <1>6, <1>7

\* Where both trees settled an edge, the first to pop it was compared with the other: every step
\* keeps it.
LEMMA NextBothSettled ==
  ASSUME GInv, GInv', [Next]_vars, g.restrictions = {}, \A t \in Directions : FTree(t), 
         Seeded, BothSettled, pc' # "done"
  PROVE  BothSettled'
<1>1. g \in Graphs /\ IInv /\ Asked
  BY TreeFacts DEF GInv, Directions
<1>2. g' = g /\ origin' = origin /\ destination' = destination
  BY <1>1, StepMoves
<1>3. Edges' = Edges
  BY <1>2, SameQuery
<1>. SUFFICES ASSUME NEW d \in Directions, NEW e \in Edges, Settled(d, e)', Stands(Other(d), g.opp[e])'
              PROVE  best'.edge # 0 /\ best'.cost <= Joined(d, e)'
  BY <1>2, <1>3 DEF BothSettled
<1>. DEFINE o == Other(d)
            f == g.opp[e]
<1>4. o \in Directions /\ Other(o) = d /\ f \in Edges /\ g.opp[f] = e
  BY <1>1, EdgeFacts, Others
<1>5. CASE Settled(d, e) /\ Stands(o, f)
  <2>1. best.edge # 0 /\ best.cost <= Joined(d, e)
    BY <1>5 DEF BothSettled
  <2>2. Joined(d, e)' = Joined(d, e) /\ Joined(d, e) \in Int
    BY <1>5, JoinedStays DEF Stands
  <2>3. best'.edge # 0 /\ best'.cost <= best.cost /\ best.cost \in Int
    BY <2>1, BestMoves
  <2>4. best'.cost \in Int
    BY BestTypeNext
  <2>. QED
    BY <2>1, <2>2, <2>3, <2>4
<1>6. ASSUME NEW i \in queue[d], Pops(d, i), labels[d][i].edge = e
      PROVE  best'.edge # 0 /\ best'.cost <= Joined(d, e)'
  <2>1. Stays(o)
    BY <1>6, PopIsStep
  <2>2. Stands(o, f)
    BY <1>2, <2>1 DEF Stays, Stands, Settled, LabelOf
  <2>3. best'.edge # 0 /\ best'.cost <= Joined(d, e)
    BY <1>6, <2>2, MeetingIsTried
  <2>4. Joined(d, e)' = Joined(d, e)
    <3>1. labels'[d] = labels[d] /\ status'[d][e].idx = status[d][e].idx
      BY <1>6 DEF Pops
    <3>2. Cost(d, e)' = Cost(d, e)
      BY <3>1 DEF Cost, LabelOf
    <3>3. Cost(o, f)' = Cost(o, f)
      BY <1>2, <2>1 DEF Stays, Cost, LabelOf
    <3>4. Whole(Along(d, e))' = Whole(Along(d, e))
      BY <1>2, SameQuery
    <3>. QED
      BY <1>2, <3>2, <3>3, <3>4 DEF Joined
  <2>. QED
    BY <2>3, <2>4
<1>7. ASSUME Settled(d, e), NEW i \in queue[o], Pops(o, i), labels[o][i].edge = f
      PROVE  best'.edge # 0 /\ best'.cost <= Joined(d, e)'
  <2>1. Stands(Other(o), g.opp[labels[o][i].edge])
    BY <1>4, <1>7 DEF Stands
  <2>2. best'.edge # 0 /\ best'.cost <= Joined(o, f)
    BY <1>4, <1>7, <2>1, MeetingIsTried
  <2>3. labels'[o] = labels[o] /\ status'[o][f].idx = status[o][f].idx /\ Stays(d)
    BY <1>4, <1>7, PopIsStep DEF Pops
  <2>4. /\ Cost(o, f)' = Cost(o, f) /\ Cost(d, e)' = Cost(d, e)
    BY <1>2, <2>3 DEF Cost, LabelOf, Stays
  <2>5. Cost(o, f) \in Nat /\ Cost(d, e) \in Nat
    <3>1. Reached(d, e) 
      BY <1>7 DEF Settled, Reached
    <3>2. i \in DOMAIN labels[o] /\ status[o][f].idx = i
      BY <1>1, <1>4, <1>7, TreeFacts DEF FTree, OneLabelEach
    <3>3. labels[o][i].cost \in Nat
      BY <1>1, <1>4, <3>2, TreeFacts
    <3>. QED
      BY <3>1, <3>2, <3>3, ReachedFacts DEF Cost, LabelOf
  <2>6. Joined(o, f) = Joined(d, e)
    BY <1>1, <2>5, JoinedEither
  <2>7. Joined(d, e)' = Joined(d, e)
    <3>1. Whole(Along(d, e))' = Whole(Along(d, e))
      BY <1>2, SameQuery
    <3>. QED
      BY <1>2, <2>4, <3>1 DEF Joined
  <2>. QED
    BY <2>2, <2>6, <2>7
<1>8. labels[o] = <<>> => ~Settled(d, e)
  <2>. SUFFICES ASSUME labels[o] = <<>>, Settled(d, e) PROVE FALSE
    OBVIOUS
  <2>1. pc \in {"origin", "destination"}
    BY <1>4, SeededTrees
  <2>2. expand = Directions /\ ~Waiting(d) /\ pc \notin {"done", "failed"}
    <3>1. expand = Directions
      BY <2>1 DEF GInv, Turns
    <3>2. pc \notin Directions \cup {"choose", "expand", "done", "failed"}
      BY <2>1 DEF Directions
    <3>. QED
      BY <3>1, <3>2 DEF Waiting, Directions
  <2>3. status[d][e].idx \in DOMAIN labels[d] /\ status[d][e].idx \notin queue[d]
    BY ReachedFacts DEF Reached, Settled
  <2>. QED
    BY <2>2, <2>3 DEF GInv, FirstRound
<1>9. CASE Settled(d, e) /\ ~Stands(o, f)
  BY <1>2, <1>4, <1>7, <1>8, <1>9, EdgeMoves
<1>10. CASE ~Settled(d, e)
  BY <1>6, <1>10, EdgeMoves
<1>. QED
  BY <1>5, <1>9, <1>10

\* Every step keeps the best route one that both trees have the labels of.
LEMMA NextBestStands ==
  ASSUME GInv, GInv', [Next]_vars, g.restrictions = {}, \A t \in Directions : FTree(t),
         BestStands
  PROVE  BestStands'
<1>1. g \in Graphs /\ IInv /\ Asked
  BY TreeFacts DEF GInv, Directions
<1>2. g' = g /\ origin' = origin /\ destination' = destination
  BY <1>1, StepMoves
<1>3. Edges' = Edges /\ "forward" \in Directions /\ Other("forward") = "reverse"
      /\ "reverse" \in Directions /\ Other("reverse") = "forward"
  BY <1>2, SameQuery DEF Directions, Other
<1>4. CASE best' = best /\ best.edge # 0
  <2>1. /\ best.edge \in Edges
        /\ Stands("forward", best.edge) /\ Stands("reverse", g.opp[best.edge])
        /\ best.cost = Joined("forward", best.edge)
    BY <1>4 DEF BestStands
  <2>. DEFINE e == best.edge
  <2>2. e \in Edges /\ Stands("forward", e) /\ Stands(Other("forward"), g.opp[e])
    BY <1>3, <2>1
  <2>. HIDE DEF e
  <2>3. /\ Joined("forward", e)' = Joined("forward", e)
        /\ Stands("forward", e)' /\ Stands("reverse", g.opp[e])'
    <3>1. e' = e
      BY <1>4 DEF e
    <3>. QED
      BY <1>3, <2>2, <3>1, JoinedStays
  <2>. QED
    BY <1>2, <1>3, <1>4, <2>1, <2>3 DEF BestStands, e
<1>5. ASSUME NEW d \in Directions, NEW i \in queue[d], Connect(d, i),
             best' = [edge |-> Along(d, labels[d][i].edge), cost |-> ConnectionCost(d, i)]
      PROVE  BestStands'
  <2>. DEFINE o == Other(d)
  <2>1. Pop(d, i) /\ UNCHANGED labels /\ Meets(d, i)
    BY <1>5 DEF Connect, Connects
  <2>2. Pops(d, i) /\ Stays(o)
    BY <1>1, <2>1, PopMoves
  <2>3. PICK e \in Edges : e = labels[d][i].edge
    BY <2>1, ConnectionJoins
  <2>4. PICK f \in Edges : f = g.opp[e]
    BY <1>1, EdgeFacts
  <2>5. /\ ConnectionCost(d, i) = Joined(d, e) /\ Stands(o, f) /\ g.opp[f] = e
    BY <1>1, <2>1, <2>3, <2>4, ConnectionJoins, MeetingConnects, EdgeFacts
  <2>6. /\ labels'[d] = labels[d] /\ status'[d][e].idx = status[d][e].idx
        /\ status'[d][e].set = "permanent"
    BY <2>2, <2>3 DEF Pops
  <2>7. Cost(d, e) \in Nat /\ Cost(o, f) \in Nat
    <3>1. i \in DOMAIN labels[d] /\ status[d][e].idx = i /\ labels[d][i].cost \in Nat
      BY <1>1, <2>3, TreeFacts DEF FTree, OneLabelEach
    <3>2. Reached(o, f) /\ o \in Directions
      BY <2>5, Others DEF Stands, Settled, Reached
    <3>. QED
      BY <3>1, <3>2, ReachedFacts DEF Cost, LabelOf
  <2>8. Joined(o, f) = Joined(d, e)
    BY <1>1, <2>4, <2>7, JoinedEither
  <2>9. Cost(d, e)' = Cost(d, e) /\ Stands(d, e)'
    BY <2>6 DEF Stands, Settled, Cost, LabelOf
  <2>10. Cost(o, f)' = Cost(o, f) /\ Stands(o, f)'
    BY <2>2, <2>5 DEF Stays, Stands, Settled, Cost, LabelOf
  <2>11. \A t, h : Whole(Along(t, h))' = Whole(Along(t, h))
    BY <1>2, SameQuery
  <2>12. CASE d = "forward"
    <3>1. best'.edge = e /\ best'.cost = Joined("forward", e)
      BY <1>5, <2>3, <2>5, <2>12 DEF Along
    <3>2. Joined("forward", e)' = Joined("forward", e)
      BY <1>2, <1>3, <2>4, <2>9, <2>10, <2>11, <2>12 DEF Joined, Other
    <3>3. o = "reverse"
      BY <1>3, <2>12
    <3>. QED
      BY <1>2, <1>3, <2>4, <2>9, <2>10, <2>12, <3>1, <3>2, <3>3 DEF BestStands
  <2>13. CASE d # "forward"
    <3>1. d = "reverse" /\ o = "forward"
      BY <1>3, <2>13 DEF Directions
    <3>2. best'.edge = f /\ best'.cost = Joined("forward", f)
      BY <1>5, <2>3, <2>4, <2>5, <2>8, <2>13, <3>1 DEF Along
    <3>3. Joined("forward", f)' = Joined("forward", f)
      BY <1>2, <1>3, <2>5, <2>9, <2>10, <2>11, <3>1 DEF Joined, Other
    <3>. QED
      BY <1>2, <1>3, <2>5, <2>9, <2>10, <3>1, <3>2, <3>3 DEF BestStands
  <2>. QED
    BY <2>12, <2>13
<1>. QED
  BY <1>4, <1>5, BestMoves DEF BestStands

----------------------------------------------------------------------------
\* In direction d the search goes on from edge e to f unless it is turned back: what
\* Follows says of the edges that are travelled.
Leads(d, e, f) ==
  /\ g.tail[f] = g.head[e]
  /\ g.head[e] \notin g.blocked
  /\ Along(d, f) \in g.access
  /\ f # g.opp[e]

\* Edge f has a label that is as cheap as the way over e, but for what the order within a
\* bucket may take.
Way(d, e, f) ==
  /\ Reached(d, f)
  /\ NeverOverestimates(g) =>
       Cost(d, f) <= Cost(d, e) + Turn(d, e, f) + Whole(Along(d, f)) + Slack

\* Edge e is too far from the other end for a route over it that is cheaper than the best.
WasPruned(d, e) ==
  /\ best.edge # 0
  /\ NeverOverestimates(g) =>
       Cost(d, e) - Whole(Along(d, e)) + cursor[Other(d)] * BucketSize + Slack
         - Get(ToGo(Other(d), e)) > best.cost + ThresholdDelta

\* Edge e was popped last.
Current(d, e) == cur[d] # 0 /\ labels[d][cur[d]].edge = e

\* What became of an edge that was settled: it waits, is expanded, is a connection, was
\* pruned, or was expanded.
Expanded(d, e) ==
  /\ Current(d, e) /\ pc = "expand" /\ side = d
  /\ \A x \in 1 .. k - 1 :
       Leads(d, e, g.out[g.head[e]][x]) => Way(d, e, g.out[g.head[e]][x])

\* One of these became of it.
Fate(d, e) ==
  \/ Current(d, e) /\ Waiting(d)
  \/ Expanded(d, e)
  \/ Stands(Other(d), g.opp[e])
  \/ WasPruned(d, e)
  \/ \A f \in Edges : Leads(d, e, f) => Way(d, e, f)

\* No settled edge of either tree is without a fate.
Fates == \A d \in Directions, e \in Edges : Settled(d, e) => Fate(d, e)

----------------------------------------------------------------------------
\* A label that waits, waits until it is chosen.
LEMMA StillWaiting ==
  ASSUME GInv, [Next]_vars, NEW d \in Directions, Waiting(d), pc' \notin {"done", "failed"}
  PROVE  Stays(d) /\ (Waiting(d)' \/ (Choose /\ side' = d))
<1>. DEFINE o == Other(d)
<1>1. IInv /\ Asked /\ Turns /\ side \in Directions
  BY DEF GInv, IInv, TypeOK
<1>2. o \in Directions /\ o # d /\ Other(o) = d /\ {o} # Directions
  BY Others
<1>3. pc \notin {"origin", "destination", "done", "failed"}
  BY DEF Waiting, Directions
<1>4. CASE UNCHANGED vars
  <2>1. UNCHANGED <<labels, queue, cursor, status, cur, pc, expand>>
    BY <1>4 DEF vars
  <2>. QED
    BY <2>1 DEF Stays, Waiting
<1>5. CASE Choose
  <2>1. /\ UNCHANGED <<labels, queue, cursor, status, cur>> /\ side' \in Directions
        /\ expand' = {side'} /\ pc' \in {side', "expand"}
    BY <1>5 DEF Choose, Directions
  <2>2. side' # d => Waiting(d)'
    <3>. SUFFICES ASSUME side' # d PROVE Waiting(d)'
      OBVIOUS
    <3>1. side' = Other(d)
      BY <2>1, Others
    <3>. QED
      BY <1>2, <2>1, <3>1 DEF Waiting
  <2>. QED
    BY <1>5, <2>1, <2>2 DEF Stays
<1>6. ASSUME NEW t \in Directions, NEW i \in queue[t], Stop(t, i) \/ Connect(t, i) \/ PopOther(t, i)
      PROVE  Stays(d) /\ Waiting(d)'
  <2>1. Pop(t, i) /\ UNCHANGED <<labels, expand>> /\ pc = t
    BY <1>6 DEF Stop, Connect, PopOther, Pop
  <2>2. t = o
    BY <1>1, <2>1, PopsUnlessWaiting, Others
  <2>3. Stays(d)
    BY <1>1, <1>2, <2>1, <2>2, PopMoves
  <2>4. expand \in {{o}, Directions}
    BY <1>1, <1>2, <2>1, <2>2 DEF Turns
  <2>5. CASE Connect(t, i)
    <3>1. Meets(t, i)
      BY <2>5 DEF Connect, Connects
    <3>2. expand = {o}
      BY <2>4, <3>1, NoEarlyConnection
    <3>3. pc' = o
      BY <1>2, <2>5, <3>2 DEF Connect, Directions
    <3>. QED
      BY <1>2, <2>1, <2>3, <3>2, <3>3 DEF Waiting
  <2>6. CASE PopOther(t, i)
    <3>1. ~(o = "forward" /\ "reverse" \in expand)
      BY <1>2, <2>1, <2>2, <2>4 DEF Waiting, Directions, Other
    <3>2. pc' = "choose"
      BY <2>2, <2>6, <3>1 DEF PopOther
    <3>. QED
      BY <2>3, <3>2 DEF Waiting
  <2>7. ~Stop(t, i)
    BY DEF Stop, Done
  <2>. QED
    BY <1>6, <2>5, <2>6, <2>7
<1>7. \A t \in Directions : ~Exhausted(t)
  BY DEF Exhausted, Done
<1>8. CASE ExpandBlocked \/ ExpandEdge \/ SkipBack \/ UTurn \/ EndExpand
  <2>1. pc = "expand" /\ Expanding /\ pc' \in {side, "expand"} /\ expand' = expand /\ side' = side
    BY <1>8 DEF ExpandBlocked, ExpandEdge, SkipBack, UTurn, EndExpand, Expanding
  <2>2. expand = {side}
    BY <1>1, <2>1 DEF Turns
  <2>3. expand = {o}
    BY <2>1 DEF Waiting, Directions
  <2>4. side = o
    BY <2>2, <2>3
  <2>5. Waiting(d)'
    BY <1>2, <2>1, <2>3, <2>4 DEF Waiting
  <2>6. Stays(d)
    <3>1. \/ \E e \in Edges, deadend \in BOOLEAN : ExpandInner(e, deadend)
          \/ UNCHANGED <<labels, queue, status>>
      <4>1. last.edge \in Edges /\ Back \in Edges /\ (k <= Len(Out) => Out[k] \in Edges)
        BY <1>1, <2>1, ExpandedLeave
      <4>. QED
        BY <1>8, <4>1 DEF ExpandBlocked, ExpandEdge, SkipBack, UTurn, EndExpand
    <3>2. UNCHANGED <<query, cursor, cur, side>>
      BY <2>1 DEF Expanding
    <3>3. Stays(Other(side)) 
      BY <1>1, <1>2, <2>1, <2>4, <3>1, <3>2, ExpandMoves DEF Stays
    <3>. QED
      BY <1>2, <2>4, <3>3
  <2>. QED
    BY <2>5, <2>6
<1>9. ~SetOrigin /\ ~SetDestination
  BY <1>3 DEF SetOrigin, SetDestination
<1>. QED
  BY <1>4, <1>5, <1>6, <1>7, <1>8, <1>9 DEF Next

\* The cost of an edge that was reached, also after a step.
LEMMA ReachedCosts ==
  GInv /\ (\A d \in Directions : FTree(d)) =>
    \A d \in Directions, e \in Edges : Reached(d, e) => Cost(d, e) \in Nat
  BY ReachedFacts

\* The labels of edges cost natural numbers after a step, too.
LEMMA ReachedCostsNext ==
  ASSUME GInv', \A d \in Directions : FTree(d)'
  PROVE  \A d \in Directions, e \in Edges' : Reached(d, e)' => Cost(d, e)' \in Nat
<1>1. (GInv /\ (\A d \in Directions : FTree(d)) =>
         \A d \in Directions, e \in Edges : Reached(d, e) => Cost(d, e) \in Nat)'
  BY ReachedCosts, PTL
<1>. QED
  BY <1>1

\* A way that was found stays.
LEMMA WayStays ==
  ASSUME GInv, GInv', [Next]_vars, g.restrictions = {}, NEW d \in Directions,
         \A t \in Directions : FTree(t) /\ FTree(t)', NEW e \in Edges, NEW f \in Edges, Settled(d, e), Way(d, e, f)
  PROVE  Way(d, e, f)'
<1>1. g' = g /\ origin' = origin /\ destination' = destination /\ g \in Graphs
  BY StepMoves, TreeFacts DEF GInv
<1>2. Reached(d, f)' /\ Cost(d, f)' <= Cost(d, f)
  BY EdgeMoves DEF Way
<1>3. Cost(d, e)' = Cost(d, e)
  BY EdgeMoves DEF Stands, Cost
<1>4. Cost(d, f) \in Nat /\ Cost(d, e) \in Nat
  BY ReachedFacts DEF Way, Settled, Reached
<1>5. Cost(d, f)' \in Nat
  BY <1>1, <1>2, ReachedCostsNext, SameQuery
<1>6. Turn(d, e, f)' = Turn(d, e, f) /\ Whole(Along(d, f))' = Whole(Along(d, f))
  BY <1>1, SameQuery
<1>7. Turn(d, e, f) \in Nat /\ Whole(Along(d, f)) \in Nat /\ Slack \in Nat
  BY <1>1, EdgeFacts
<1>. DEFINE a == Cost(d, f)
            b == Cost(d, e) + Turn(d, e, f) + Whole(Along(d, f)) + Slack
            c == Cost(d, f)'
<1>8. a \in Nat /\ b \in Int /\ c \in Nat /\ c <= a /\ (NeverOverestimates(g) => a <= b)
  BY <1>2, <1>4, <1>5, <1>7 DEF Way
<1>9. NeverOverestimates(g) => c <= b
  <2>. HIDE DEF a, b, c
  <2>. QED
    BY <1>8
<1>. QED
  BY <1>1, <1>2, <1>3, <1>6, <1>9 DEF Way

----------------------------------------------------------------------------

\* What was pruned stays pruned: the other tree only gets dearer, the best connection
\* cheaper.
LEMMA PrunedStays ==
  ASSUME GInv, GInv', [Next]_vars, g.restrictions = {}, NEW d \in Directions,
         \A t \in Directions : FTree(t), NEW e \in Edges, Settled(d, e), WasPruned(d, e)
  PROVE  WasPruned(d, e)'
<1>1. /\ g' = g /\ origin' = origin /\ destination' = destination /\ g \in Graphs
      /\ Other(d) \in Directions /\ Asked
  BY StepMoves, TreeFacts, Others DEF GInv
<1>2. best'.edge # 0 /\ best'.cost <= best.cost /\ best.cost \in Int
  BY BestMoves DEF WasPruned
<1>3. best'.cost \in Int
  BY BestTypeNext
<1>4. Cost(d, e)' = Cost(d, e)
  BY EdgeMoves DEF Stands, Cost
<1>5. Whole(Along(d, e))' = Whole(Along(d, e)) /\ ToGo(Other(d), e)' = ToGo(Other(d), e)
  BY <1>1, SameQuery
<1>6. SUFFICES ASSUME NeverOverestimates(g)
               PROVE  Cost(d, e) - Whole(Along(d, e)) + cursor'[Other(d)] * BucketSize + Slack
                        - Get(ToGo(Other(d), e)) > best'.cost + ThresholdDelta
  <2>1. Get(ToGo(Other(d), e))' = Get(ToGo(Other(d), e))
    BY <1>5 DEF Get
  <2>. QED
    BY <1>1, <1>2, <1>4, <1>5, <2>1 DEF WasPruned
<1>. DEFINE a == Cost(d, e)
            w == Whole(Along(d, e))
            c == cursor[Other(d)] * BucketSize
            n == cursor'[Other(d)] * BucketSize
            h == Get(ToGo(Other(d), e))
            b == best.cost
            m == best'.cost
<1>7. a \in Nat /\ w \in Nat /\ h \in Nat /\ b \in Int /\ m \in Int /\ Slack \in Nat
  BY <1>1, <1>2, <1>3, ReachedFacts, EdgeFacts, GoalFacts DEF Settled, Reached
<1>8. c \in Int /\ n \in Int /\ c <= n
  BY <1>1, <1>6, CursorGrows
<1>9. a - w + c + Slack - h > b + ThresholdDelta
  BY <1>6 DEF WasPruned
<1>10. m <= b
  BY <1>2
<1>. HIDE DEF a, w, c, n, h, b, m
<1>11. a - w + n + Slack - h > m + ThresholdDelta
  BY <1>7, <1>8, <1>9, <1>10, ThresholdAssumption
<1>. QED
  BY <1>11 DEF a, w, n, h, m

\* What Choose prunes.
LEMMA PrunedNow ==
  ASSUME GInv, g.restrictions = {}, NEW d \in Directions, \A t \in Directions : FTree(t),
         cur[d] # 0, cur[Other(d)] # 0, Pruned(d), NEW e \in Edges, Current(d, e)
  PROVE  WasPruned(d, e)
<1>. DEFINE o == Other(d)
            l == labels[d][cur[d]]
            m == labels[o][cur[o]]
<1>1. /\ IInv /\ Asked /\ o \in Directions /\ g \in Graphs
      /\ cur[d] \in DOMAIN labels[d] /\ cur[o] \in DOMAIN labels[o] \ queue[o]
      /\ 0 \notin DOMAIN labels[d]
  BY TreeFacts, Others DEF GInv
<1>2. /\ l.edge = e /\ l.pred # 0 /\ best.edge # 0
      /\ labels[d][l.pred].cost + l.turn + m.sort - Get(ToGo(o, e)) > best.cost + ThresholdDelta
  BY DEF Pruned, Current
<1>3. status[d][e].idx = cur[d]
  BY <1>1, <1>2 DEF FTree, OneLabelEach
<1>4. /\ l.pred \in DOMAIN labels[d]
      /\ l.cost = labels[d][l.pred].cost + l.turn + Whole(Along(d, e))
  BY <1>1, <1>2 DEF GInv, TInv, LabelsAddUp, AddsUp
<1>5. SUFFICES ASSUME NeverOverestimates(g)
               PROVE  Cost(d, e) - Whole(Along(d, e)) + cursor[Other(d)] * BucketSize + Slack
                        - Get(ToGo(Other(d), e)) > best.cost + ThresholdDelta
  BY <1>2 DEF WasPruned
<1>6. m.sort <= cursor[o] * BucketSize + Slack
  BY <1>1, <1>5 DEF FTree, Banded
<1>. DEFINE a == Cost(d, e)
            w == Whole(Along(d, e))
            c == cursor[Other(d)] * BucketSize
            h == Get(ToGo(Other(d), e))
            b == best.cost
            p == labels[d][l.pred].cost
            t == l.turn
            s == m.sort
<1>7. a = p + t + w
  BY <1>3, <1>4 DEF Cost, LabelOf
<1>8. p \in Nat /\ t \in Nat /\ s \in Int
  BY <1>1, <1>4, TreeFacts
<1>9. w \in Nat /\ h \in Nat /\ Slack \in Nat /\ c \in Int
  BY <1>1, EdgeFacts, GoalFacts, TreeFacts, BucketBounds
<1>10. b \in Int
  BY BestType
<1>11. p + t + s - h > b + ThresholdDelta /\ s <= c + Slack
  BY <1>2, <1>6
<1>. HIDE DEF a, w, c, h, b, p, t, s
<1>12. a - w + c + Slack - h > b + ThresholdDelta
  BY <1>7, <1>8, <1>9, <1>10, <1>11, ThresholdAssumption
<1>. QED
  BY <1>12 DEF a, w, c, h, b

\* After ExpandInner there is a way to its edge.
LEMMA NewWay ==
  ASSUME GInv, GInv', [Next]_vars, g.restrictions = {}, \A t \in Directions : FTree(t),
         pc = "expand", UNCHANGED <<query, cursor, cur, side>>,
         NEW d \in Directions, side = d, NEW e \in Edges, Current(d, e),
         NEW f \in Edges, ExpandInner(f, FALSE), Leads(d, e, f)
  PROVE  Way(d, e, f)'
<1>. DEFINE l == labels[d][cur[d]]
<1>1. /\ IInv /\ Asked /\ TInv(d) /\ g \in Graphs /\ FTree(d)
      /\ cur[d] \in DOMAIN labels[d] /\ cur[d] \notin queue[d] /\ cur[d] # 0
      /\ l.cost \in Nat /\ l.sort \in Int
  BY TreeFacts DEF GInv, Current
<1>2. g' = g /\ origin' = origin /\ destination' = destination
  BY <1>1, StepMoves
<1>3. l.edge = e /\ last.edge = e /\ Back = g.opp[e]
  BY DEF Current, last, Back
<1>4. status[d][e].idx = cur[d] /\ Settled(d, e) /\ Cost(d, e) = l.cost
  BY <1>1, <1>3 DEF FTree, OneLabelEach, Settled, Cost, LabelOf
<1>5. Cost(d, e)' = l.cost
  BY <1>4, EdgeMoves DEF Stands, Cost
<1>6. g.tail[f] = g.head[e] /\ Allowed(f, FALSE)
  BY <1>3 DEF Leads, Allowed
<1>. DEFINE n == NewCost(d, f)
<1>7. /\ n \in Nat /\ n = l.cost + Turn(d, e, f) + Whole(Along(d, f))
      /\ NeverOverestimates(g) => l.sort <= n + Get(ToGo(d, f))
  BY <1>1, <1>3, <1>6, NewCosts DEF NewCost
<1>8. Slack \in Nat /\ Get(ToGo(d, f)) \in Nat
  BY <1>1, EdgeFacts, GoalFacts
<1>9. SUFFICES Reached(d, f)' /\ Cost(d, f)' \in Int /\ (NeverOverestimates(g) => Cost(d, f)' <= n + Slack)
  <2>1. Turn(d, e, f)' = Turn(d, e, f) /\ Whole(Along(d, f))' = Whole(Along(d, f))
    BY <1>2, SameQuery
  <2>. QED
    BY <1>2, <1>5, <1>7, <2>1 DEF Way
<1>. HIDE DEF n
<1>10. \/ \E i \in DOMAIN labels'[d] : Takes(d, f, i)
       \/ /\ Stays(d)
          /\ \/ Settled(d, f)
             \/ status[d][f].set = "temporary" /\ Cost(d, f) <= n
  BY <1>1, <1>6, ExpandMoves DEF Settled, Cost, LabelOf, n
<1>11. ASSUME NEW i \in DOMAIN labels'[d], Takes(d, f, i)
       PROVE  Reached(d, f)' /\ Cost(d, f)' = n
  BY <1>11 DEF Takes, Reached, Cost, LabelOf, n
<1>12. CASE Stays(d) /\ status[d][f].set = "temporary" /\ Cost(d, f) <= n
  <2>1. Reached(d, f) /\ Cost(d, f) \in Nat
    BY <1>12, ReachedFacts DEF Reached
  <2>2. Reached(d, f)' /\ Cost(d, f)' = Cost(d, f)
    BY <1>12, <2>1 DEF Reached, Cost, LabelOf, Stays
  <2>. QED
    BY <1>7, <1>8, <1>12, <2>1, <2>2
<1>13. CASE Stays(d) /\ Settled(d, f)
  <2>. DEFINE j == status[d][f].idx
              c == cursor[d] * BucketSize
              h == Get(ToGo(d, f))
              b == Cost(d, f)
              s == l.sort
  <2>1. /\ Reached(d, f) /\ b \in Nat /\ j \in DOMAIN labels[d] \ queue[d]
        /\ labels[d][j].sort = b + h
    BY <1>13, ReachedFacts DEF Reached, Settled, LabelOf
  <2>2. Reached(d, f)' /\ Cost(d, f)' = Cost(d, f)
    BY <1>13, <2>1 DEF Reached, Cost, LabelOf, Stays
  <2>3. NeverOverestimates(g) => b + h <= c + Slack /\ c <= s
    BY <1>1, <2>1 DEF FTree, Banded
  <2>4. c \in Int /\ h \in Nat /\ s \in Int /\ (NeverOverestimates(g) => s <= n + h)
    BY <1>1, <1>7, <1>8, TreeFacts, BucketBounds
  <2>5. b \in Nat
    BY <2>1
  <2>. HIDE DEF c, h, b, s
  <2>6. NeverOverestimates(g) => b <= n + Slack
    BY <1>7, <1>8, <2>3, <2>4, <2>5
  <2>. QED
    BY <2>2, <2>5, <2>6 DEF b
<1>. QED
  BY <1>7, <1>8, <1>10, <1>11, <1>12, <1>13

\* An expansion goes on with the next edge, or is done.
LEMMA ExpandedMoves ==
  ASSUME GInv, GInv', [Next]_vars, g.restrictions = {},
         \A t \in Directions : FTree(t) /\ FTree(t)',
         NEW d \in Directions, NEW e \in Edges, Settled(d, e), Expanded(d, e)
  PROVE  \/ Expanded(d, e)'
         \/ (\A f \in Edges : Leads(d, e, f) => Way(d, e, f))'
<1>. DEFINE out == g.out[g.head[e]]
<1>1. /\ IInv /\ Asked /\ g \in Graphs /\ cur[d] # 0 /\ labels[d][cur[d]].edge = e
      /\ pc = "expand" /\ side = d
      /\ \A x \in 1 .. k - 1 : Leads(d, e, out[x]) => Way(d, e, out[x])
      /\ cur[d] \in DOMAIN labels[d]
  BY TreeFacts DEF GInv, Expanded, Current
<1>2. g' = g /\ origin' = origin /\ destination' = destination /\ Edges' = Edges
  BY <1>1, StepMoves, SameQuery
<1>3. last.edge = e /\ Out = out /\ EndNode = g.head[e] /\ Back = g.opp[e]
  BY <1>1 DEF last, Out, EndNode, Back
<1>4. /\ Len(out) \in Nat /\ k \in 1 .. Len(out) + 1
      /\ \A x \in 1 .. Len(out) : out[x] \in Edges
      /\ \A f \in Edges : g.tail[f] = g.head[e] => \E x \in 1 .. Len(out) : out[x] = f
  BY <1>1, <1>3, ExpandedLeave
<1>5. \A f \in Edges : Leads(d, e, f)' <=> Leads(d, e, f)
  <2>1. \A f : Along(d, f)' = Along(d, f)
    BY <1>2, SameQuery
  <2>. QED
    BY <1>2, <2>1 DEF Leads
<1>6. \A f \in Edges : Way(d, e, f) => Way(d, e, f)'
  BY WayStays
<1>7. CASE UNCHANGED vars
  <2>1. UNCHANGED <<cur, labels, pc, side, k>>
    BY <1>7 DEF vars, expansion
  <2>2. \A x \in 1 .. k - 1 : out[x] \in Edges
    BY <1>4
  <2>. QED
    BY <1>1, <1>2, <1>5, <1>6, <2>1, <2>2 DEF Expanded, Current
<1>8. CASE ExpandBlocked
  <2>1. \A f \in Edges : ~Leads(d, e, f)
    BY <1>3, <1>8 DEF ExpandBlocked, Leads
  <2>. QED
    BY <1>2, <1>5, <2>1
<1>9. CASE UTurn \/ EndExpand
  <2>1. k > Len(out)
    BY <1>3, <1>9 DEF UTurn, EndExpand
  <2>2. ASSUME NEW f \in Edges, Leads(d, e, f) PROVE Way(d, e, f)
    <3>1. PICK x \in 1 .. Len(out) : out[x] = f
      BY <1>4, <2>2 DEF Leads
    <3>2. x \in 1 .. k - 1
      BY <1>4, <2>1
    <3>. QED
      BY <1>1, <2>2, <3>1, <3>2
  <2>. QED
    BY <1>2, <1>5, <1>6, <2>2
<1>10. CASE ExpandEdge \/ SkipBack
  <2>1. /\ pc' = pc /\ side' = side /\ cur' = cur /\ k' = k + 1 /\ k <= Len(out)
        /\ UNCHANGED <<query, cursor, cur, side>>
    BY <1>3, <1>10 DEF ExpandEdge, SkipBack, Expanding
  <2>2. LabelOf(d, e)' = LabelOf(d, e) /\ status[d][e].idx = cur[d]
    BY <1>1, EdgeMoves DEF Stands, FTree, OneLabelEach
  <2>3. labels'[d][cur[d]].edge = e
    <3>1. status'[d][e].idx \in DOMAIN labels'[d] /\ labels'[d][status'[d][e].idx] = labels[d][cur[d]]
      <4>1. Settled(d, e)'
        BY EdgeMoves
      <4>2. TreeShape(d)'
        BY TreeShapesNext DEF GInv
      <4>. QED
        BY <1>2, <2>2, <4>1, <4>2 DEF TreeShape, Settled, LabelOf
    <3>2. status'[d][e].idx = status[d][e].idx
      <4>1. TreeStep(d)
        BY <1>1, StepMoves
      <4>2. Stays(d) \/ \E f \in Edges, i \in DOMAIN labels'[d] : Takes(d, f, i)
        <5>1. ~Seeds(d)
          BY <1>1 DEF Seeds
        <5>2. \A i \in queue[d] : ~Pops(d, i)
          BY <1>1, <2>1, TreeFacts DEF Pops
        <5>. QED
          BY <1>1, <4>1, <5>1, <5>2 DEF TreeStep
      <4>3. ASSUME NEW f \in Edges, NEW i \in DOMAIN labels'[d], Takes(d, f, i)
            PROVE  status'[d][e] = status[d][e]
        BY <4>3 DEF Takes, Settled
      <4>. QED
        BY <4>2, <4>3 DEF Stays
    <3>. QED
      BY <1>1, <2>2, <3>1, <3>2
  <2>4. ASSUME NEW f \in Edges, f = out[k], Leads(d, e, f) PROVE Way(d, e, f)'
    <3>1. out[k] # Back
      BY <1>3, <2>4 DEF Leads
    <3>2. ExpandEdge
      BY <1>3, <1>10, <3>1 DEF SkipBack
    <3>3. ExpandInner(f, FALSE)
      BY <1>3, <2>4, <3>2 DEF ExpandEdge
    <3>. QED
      BY <1>1, <2>1, <2>4, <3>3, NewWay DEF Current
  <2>5. ASSUME NEW x \in 1 .. k, NEW f \in Edges, f = out[x], Leads(d, e, f) PROVE Way(d, e, f)'
    <3>1. x = k \/ x \in 1 .. k - 1
      BY <1>4
    <3>. QED
      BY <1>1, <1>6, <2>4, <2>5, <3>1
  <2>6. \A x \in 1 .. k : out[x] \in Edges
    BY <1>4, <2>1
  <2>7. k' - 1 = k
    BY <1>4, <2>1
  <2>8. \A x \in 1 .. k' - 1 :
          Leads(d, e, g.out[g.head[e]][x])' => Way(d, e, g.out[g.head[e]][x])'
    <3>. SUFFICES ASSUME NEW x \in 1 .. k, Leads(d, e, g.out[g.head[e]][x])'
                  PROVE  Way(d, e, g.out[g.head[e]][x])'
      BY <2>7
    <3>1. PICK f \in Edges : f = out[x]
      BY <2>6
    <3>2. Leads(d, e, f)'
      BY <1>2, <3>1
    <3>3. Way(d, e, f)'
      BY <1>5, <2>5, <3>1, <3>2
    <3>. QED
      BY <1>2, <3>1, <3>3
  <2>. QED
    BY <1>1, <2>1, <2>3, <2>8 DEF Expanded, Current
<1>11. SetOrigin \/ SetDestination \/ Choose \/ (\E t \in Directions : Exhausted(t) \/
         \E i \in queue[t] : Stop(t, i) \/ Connect(t, i) \/ PopOther(t, i)) => FALSE
  BY <1>1 DEF SetOrigin, SetDestination, Choose, Exhausted, Stop, Connect, PopOther, Pop, Directions
<1>. QED
  BY <1>7, <1>8, <1>9, <1>10, <1>11 DEF Next

----------------------------------------------------------------------------
\* When the search is over, nothing happens any more.
LEMMA OverStays ==
  ASSUME [Next]_vars, pc \in {"done", "failed"}
  PROVE  pc' = pc
<1>1. ~SetOrigin /\ ~SetDestination /\ ~Choose
  BY DEF SetOrigin, SetDestination, Choose
<1>2. ASSUME NEW d \in Directions
      PROVE  /\ ~Exhausted(d)
             /\ \A i \in queue[d] : ~Stop(d, i) /\ ~Connect(d, i) /\ ~PopOther(d, i)
  <2>1. pc # d
    BY DEF Directions
  <2>. QED
    BY <2>1 DEF Exhausted, Stop, Connect, PopOther, Pop
<1>3. ~ExpandBlocked /\ ~ExpandEdge /\ ~SkipBack /\ ~UTurn /\ ~EndExpand
  <2>1. ~Expanding
    BY DEF Expanding
  <2>. QED
    BY <2>1 DEF ExpandBlocked, ExpandEdge, SkipBack, UTurn, EndExpand
<1>4. UNCHANGED vars
  BY <1>1, <1>2, <1>3 DEF Next
<1>. QED
  BY <1>4 DEF vars

\* The search goes on only from where it was not over.
LEMMA NotOver ==
  ASSUME [Next]_vars, pc' \notin {"done", "failed"}
  PROVE  pc \notin {"done", "failed"}
  BY OverStays

\* What was popped to be expanded, waits.
LEMMA PoppedWaits ==
  ASSUME GInv, NEW d \in Directions, NEW i \in queue[d], PopOther(d, i)
  PROVE  Waiting(d)'
<1>1. pc = d /\ expand' = expand
      /\ pc' = IF d = "forward" /\ "reverse" \in expand THEN "reverse" ELSE "choose"
  BY DEF PopOther, Pop
<1>2. expand \in {{d}, Directions}
  BY <1>1 DEF GInv, Turns
<1>3. CASE d = "forward" /\ "reverse" \in expand
  BY <1>1, <1>2, <1>3 DEF Waiting, Directions
<1>4. CASE ~(d = "forward" /\ "reverse" \in expand)
  BY <1>1, <1>4 DEF Waiting
<1>. QED
  BY <1>3, <1>4

\* Every step that does not end the search gives each settled edge a fate.
LEMMA NextFates ==
  ASSUME GInv, GInv', [Next]_vars, g.restrictions = {},
         \A t \in Directions : FTree(t) /\ FTree(t)', Fates, pc' \notin {"done", "failed"}
  PROVE  Fates'
<1>1. IInv /\ Asked /\ g \in Graphs
  BY TreeFacts DEF GInv, Directions
<1>2. g' = g /\ origin' = origin /\ destination' = destination
  BY <1>1, StepMoves
<1>3. Edges' = Edges
  BY <1>2, SameQuery
<1>. SUFFICES ASSUME NEW d \in Directions, NEW e \in Edges, Settled(d, e)'
              PROVE  Fate(d, e)'
  BY <1>3 DEF Fates
<1>4. PICK h \in Edges : h = g.opp[e]
  BY <1>1, EdgeFacts
<1>5. Other(d) \in Directions
  BY Others
<1>6. Stands(Other(d), g.opp[e]) => Stands(Other(d), g.opp[e])'
  BY <1>2, <1>4, <1>5, EdgeMoves
<1>7. ASSUME NEW i \in queue[d], Pops(d, i), labels[d][i].edge = e
      PROVE  Fate(d, e)'
  <2>1. Stop(d, i) \/ Connect(d, i) \/ PopOther(d, i)
    BY <1>7, PopIsStep
  <2>2. ~Stop(d, i)
    BY DEF Stop, Done
  <2>3. CASE Connect(d, i)
    <3>1. Meets(d, i)
      BY <2>3 DEF Connect, Connects
    <3>2. Stands(Other(d), g.opp[e])
      BY <1>7, <3>1, MeetingConnects
    <3>. QED
      BY <1>6, <3>2 DEF Fate
  <2>4. CASE PopOther(d, i)
    <3>1. cur'[d] = i /\ labels'[d][i].edge = e /\ i # 0
      BY <1>1, <1>7, TreeFacts DEF Pops
    <3>2. Current(d, e)'
      BY <3>1 DEF Current
    <3>. QED
      BY <2>4, <3>2, PoppedWaits DEF Fate
  <2>. QED
    BY <2>1, <2>2, <2>3, <2>4
<1>8. ASSUME Settled(d, e) PROVE Fate(d, e)'
  <2>1. Fate(d, e)
    BY <1>8 DEF Fates
  <2>2. CASE Current(d, e) /\ Waiting(d)
    <3>1. Stays(d) /\ (Waiting(d)' \/ (Choose /\ side' = d))
      BY <2>2, StillWaiting
    <3>2. Current(d, e)'
      BY <2>2, <3>1 DEF Current, Stays
    <3>3. CASE Choose /\ side' = d
      <4>1. k' = 1 /\ (pc' = "expand" \/ Pruned(d)) /\ pc = "choose"
        BY <3>3 DEF Choose
      <4>2. CASE pc' = "expand"
        <5>1. 1 .. k' - 1 = {}
          BY <4>1
        <5>2. Expanded(d, e)'
          BY <3>2, <3>3, <4>2, <5>1 DEF Expanded
        <5>. QED
          BY <5>2 DEF Fate
      <4>3. CASE Pruned(d)
        <5>1. cur[d] # 0 /\ cur[Other(d)] # 0
          BY <1>1, <1>5, <4>1 DEF IInv, Stages
        <5>2. WasPruned(d, e)
          BY <2>2, <4>3, <5>1, PrunedNow
        <5>3. WasPruned(d, e)'
          BY <1>8, <5>2, PrunedStays
        <5>. QED
          BY <5>3 DEF Fate
      <4>. QED
        BY <4>1, <4>2, <4>3
    <3>. QED
      BY <3>1, <3>2, <3>3 DEF Fate
  <2>3. CASE Expanded(d, e)
    BY <1>8, <2>3, ExpandedMoves DEF Fate
  <2>4. CASE Stands(Other(d), g.opp[e])
    BY <1>6, <2>4 DEF Fate
  <2>5. CASE WasPruned(d, e)
    BY <1>8, <2>5, PrunedStays DEF Fate
  <2>6. CASE \A f \in Edges : Leads(d, e, f) => Way(d, e, f)
    <3>1. ASSUME NEW f \in Edges, Leads(d, e, f)' PROVE Way(d, e, f)'
      <4>1. Along(d, f)' = Along(d, f)
        BY <1>2, SameQuery
      <4>2. Leads(d, e, f)
        BY <1>2, <3>1, <4>1 DEF Leads
      <4>. QED
        BY <1>8, <2>6, <4>2, WayStays
    <3>. QED
      BY <1>3, <3>1 DEF Fate
  <2>. QED
    BY <2>1, <2>2, <2>3, <2>4, <2>5, <2>6 DEF Fate
<1>. QED
  BY <1>7, <1>8, EdgeMoves

----------------------------------------------------------------------------
\* What is kept where nothing is restricted.
FInv ==
  /\ GInv
  /\ Seeded
  /\ g.restrictions = {} =>
       /\ \A d \in Directions : FTree(d)
       /\ pc # "done" => BothSettled
       /\ BestStands
       /\ pc \notin {"done", "failed"} => Fates

\* A search starts in the invariant.
LEMMA InitFInv == Init => FInv
<1>. SUFFICES ASSUME Init PROVE FInv
  OBVIOUS
<1>1. GInv
  BY InitGInv
<1>2. \A d \in Directions : labels[d] = <<>> /\ DOMAIN labels[d] = {} /\ queue[d] = {} /\ cur[d] = 0
  BY DEF Init
<1>3. Seeded /\ BestStands
  BY DEF Init, Seeded, BestStands, NoConnection
<1>4. ASSUME NEW d \in Directions PROVE FTree(d)
  <2>1. OneLabelEach(d) /\ SeedsStand(d)
    BY <1>2 DEF OneLabelEach, SeedsStand
  <2>2. Banded(d)
    BY <1>2 DEF Banded, Init
  <2>. QED
    BY <2>1, <2>2 DEF FTree
<1>5. \A d \in Directions, e \in Edges : ~Settled(d, e)
  BY DEF Init, Settled
<1>6. BothSettled /\ Fates
  BY <1>5 DEF BothSettled, Fates
<1>. QED
  BY <1>1, <1>3, <1>4, <1>6 DEF FInv

\* Every step of the search keeps it.
LEMMA NextFInv == FInv /\ [Next]_vars => FInv'
<1>. SUFFICES ASSUME FInv, [Next]_vars PROVE FInv'
  OBVIOUS
<1>1. GInv /\ GInv' /\ Seeded
  BY NextGInv DEF FInv
<1>2. Seeded'
  BY <1>1, NextSeeded
<1>3. g' = g
  BY <1>1, StepMoves DEF GInv
<1>4. SUFFICES ASSUME g.restrictions = {}
               PROVE  /\ \A d \in Directions : FTree(d)'
                      /\ pc' # "done" => BothSettled'
                      /\ BestStands'
                      /\ pc' \notin {"done", "failed"} => Fates'
  BY <1>1, <1>2, <1>3 DEF FInv
<1>5. \A d \in Directions : FTree(d) /\ FTree(d)'
  BY <1>1, <1>4, StepKeepsFTree DEF FInv
<1>6. pc' # "done" => BothSettled'
  <2>. SUFFICES ASSUME pc' # "done" PROVE BothSettled'
    OBVIOUS
  <2>1. pc # "done"
    BY OverStays
  <2>. QED
    BY <1>1, <1>4, <1>5, <2>1, NextBothSettled DEF FInv
<1>7. BestStands'
  BY <1>1, <1>4, <1>5, NextBestStands DEF FInv
<1>8. pc' \notin {"done", "failed"} => Fates'
  BY <1>1, <1>4, <1>5, NotOver, NextFates DEF FInv
<1>. QED
  BY <1>5, <1>6, <1>7, <1>8

----------------------------------------------------------------------------
\* A route that turns back nowhere, as both trees see it: the edges, numbered from the start
\* of each tree, and the cost of the way to each of them.
Proper(R) ==
  /\ R.n \in Nat /\ R.n >= 2 /\ R.c \in Int
  /\ \A d \in Directions : \A i \in 1 .. R.n :
       /\ R.w[d][i] \in Edges /\ R.p[d][i] \in Nat
       /\ R.w[Other(d)][R.n + 1 - i] = g.opp[R.w[d][i]]
       /\ R.p[d][i] + R.p[Other(d)][R.n + 1 - i] - Whole(Along(d, R.w[d][i])) = R.c
  /\ \A d \in Directions : \E c \in Candidates(d) :
       R.w[d][1] = Along(d, c.edge) /\ R.p[d][1] = PartCost(g, c.edge) * LeftOf(d, c)
  /\ \A d \in Directions : \A i \in 1 .. R.n - 1 :
       /\ Leads(d, R.w[d][i], R.w[d][i + 1])
       /\ R.p[d][i + 1] = R.p[d][i] + Turn(d, R.w[d][i], R.w[d][i + 1])
                          + Whole(Along(d, R.w[d][i + 1]))

\* A tree came as far as the edge with number i, as cheaply as it may.
Near(R, d, i) ==
  /\ Reached(d, R.w[d][i])
  /\ NeverOverestimates(g) => Cost(d, R.w[d][i]) <= R.p[d][i] + (i - 1) * Slack

\* It goes along the route up to the edge with number m.
Opened(R, d, m) ==
  /\ m \in 1 .. R.n
  /\ \A j \in 1 .. m - 1 : Settled(d, R.w[d][j])
  /\ \A j \in 1 .. m : Near(R, d, j)

\* From edge e a tree will go on, or it will not.
Live(d, e) ==
  \/ status[d][e].set = "temporary"
  \/ Current(d, e) /\ (Waiting(d) \/ (pc = "expand" /\ side = d))

\* The tree stopped at edge e: at a connection, or as it was pruned.
Dead(d, e) == Settled(d, e) /\ (Stands(Other(d), g.opp[e]) \/ WasPruned(d, e))

----------------------------------------------------------------------------
\* Multiples of what the order within a bucket may take.
LEMMA SlackTimes ==
  /\ \A a \in Nat : a * Slack \in Nat /\ (a + 1) * Slack = a * Slack + Slack
  /\ \A a, b \in Nat : /\ a <= b => a * Slack <= b * Slack
                       /\ (a + b) * Slack = a * Slack + b * Slack
  /\ 0 * Slack = 0 /\ Slack \in Nat
<1>. DEFINE s == Slack
<1>1. s \in Nat
  BY SearchAssumption DEF Slack
<1>. HIDE DEF s
<1>2. \A a \in Nat : a * s \in Nat /\ (a + 1) * s = a * s + s
  BY <1>1, SMT
<1>3. \A a, b \in Nat : a <= b => a * s <= b * s
  BY <1>1, SMT
<1>4. \A a, b \in Nat : (a + b) * s = a * s + b * s
  BY <1>1, SMT
<1>5. 0 * s = 0
  BY <1>1
<1>. QED
  BY <1>1, <1>2, <1>3, <1>4, <1>5 DEF s

\* The costs along a route only grow, also with the estimate of what is left.
LEMMA CostsAlong ==
  ASSUME g \in Graphs, Asked, NEW R, Proper(R), NEW d \in Directions,
         NEW i \in 1 .. R.n, NEW j \in 1 .. R.n, i <= j
  PROVE  /\ R.p[d][i] <= R.p[d][j]
         /\ NeverOverestimates(g) =>
              R.p[d][i] + Get(ToGo(d, R.w[d][i])) <= R.p[d][j] + Get(ToGo(d, R.w[d][j]))
<1>. DEFINE w(x) == R.w[d][x]
            p(x) == R.p[d][x]
            h(x) == Get(ToGo(d, w(x)))
            NO == NeverOverestimates(g)
            S == {q \in Nat : i + q \in 1 .. R.n =>
                                p(i) <= p(i + q) /\ (NO => p(i) + h(i) <= p(i + q) + h(i + q))}
<1>1. R.n \in Nat /\ \A x \in 1 .. R.n : w(x) \in Edges /\ p(x) \in Nat
  BY DEF Proper
<1>2. \A x \in 1 .. R.n : h(x) \in Nat
  BY <1>1, GoalFacts
<1>3. ASSUME NEW x \in 1 .. R.n - 1 PROVE p(x) <= p(x + 1) /\ (NO => p(x) + h(x) <= p(x + 1) + h(x + 1))
  <2>. DEFINE t == Turn(d, w(x), w(x + 1))
              v == Whole(Along(d, w(x + 1)))
  <2>1. x \in 1 .. R.n /\ x + 1 \in 1 .. R.n
    BY <1>1
  <2>2. p(x + 1) = p(x) + t + v /\ g.tail[w(x + 1)] = g.head[w(x)]
    BY <1>1 DEF Proper, Leads
  <2>3. w(x) \in Edges /\ w(x + 1) \in Edges /\ t \in Nat /\ v \in Nat
    BY <1>1, <2>1, EdgeFacts
  <2>4. NO => h(x) <= v + h(x + 1)
    BY <2>2, <2>3, EstimateFalls
  <2>. DEFINE a == p(x)
              b == p(x + 1)
              y == h(x)
              z == h(x + 1)
  <2>5. a \in Nat /\ b = a + t + v /\ y \in Nat /\ z \in Nat /\ (NO => y <= v + z)
    BY <1>1, <1>2, <2>1, <2>2, <2>4
  <2>. HIDE DEF a, b, y, z, t, v, NO
  <2>6. a <= b /\ (NO => a + y <= b + z)
    BY <2>3, <2>5
  <2>. QED
    BY <2>6 DEF a, b, y, z
<1>. HIDE DEF p, h, w, NO
<1>4. 0 \in S
  BY <1>1, <1>2
<1>5. ASSUME NEW q \in Nat, q \in S PROVE q + 1 \in S
  <2>. SUFFICES ASSUME i + (q + 1) \in 1 .. R.n
                PROVE  p(i) <= p(i + (q + 1)) /\ (NO => p(i) + h(i) <= p(i + (q + 1)) + h(i + (q + 1)))
    OBVIOUS
  <2>1. /\ i + q \in 1 .. R.n - 1 /\ i + q \in 1 .. R.n /\ i + (q + 1) = (i + q) + 1
    BY <1>1
  <2>2. p(i) <= p(i + q) /\ (NO => p(i) + h(i) <= p(i + q) + h(i + q))
    BY <1>5, <2>1
  <2>3. p(i + q) <= p(i + (q + 1)) /\ (NO => p(i + q) + h(i + q) <= p(i + (q + 1)) + h(i + (q + 1)))
    BY <1>3, <2>1
  <2>4. /\ p(i) \in Nat /\ p(i + q) \in Nat /\ p(i + (q + 1)) \in Nat
        /\ h(i) \in Nat /\ h(i + q) \in Nat /\ h(i + (q + 1)) \in Nat
    BY <1>1, <1>2, <2>1
  <2>. QED
    BY <2>2, <2>3, <2>4
<1>6. j - i \in Nat /\ i + (j - i) = j
  BY <1>1
<1>7. j - i \in S
  <2>. HIDE DEF S
  <2>. QED
    BY <1>4, <1>5, <1>6, SetInduction
<1>. QED
  BY <1>6, <1>7 DEF p, h, w, NO

\* Each tree starts on the route.
LEMMA FirstOpened ==
  ASSUME FInv, g.restrictions = {}, NEW R, Proper(R), NEW d \in Directions, labels[d] # <<>>
  PROVE  Opened(R, d, 1) /\ Stands(d, R.w[d][1])
<1>1. GInv /\ FTree(d) /\ IInv /\ Asked /\ g \in Graphs
  BY TreeFacts DEF FInv, GInv
<1>2. PICK c \in Candidates(d) :
        R.w[d][1] = Along(d, c.edge) /\ R.p[d][1] = PartCost(g, c.edge) * LeftOf(d, c)
  BY DEF Proper
<1>3. PICK j \in DOMAIN labels[d] : Starts(d, labels[d][j], c)
  BY <1>1 DEF FTree, SeedsStand
<1>4. /\ status[d][R.w[d][1]].idx = j /\ status[d][R.w[d][1]].set \in {"temporary", "permanent"}
      /\ labels[d][j].pred = 0 /\ labels[d][j].cost = R.p[d][1]
  BY <1>1, <1>2, <1>3 DEF FTree, OneLabelEach, Starts
<1>5. Stands(d, R.w[d][1]) /\ Reached(d, R.w[d][1]) /\ Cost(d, R.w[d][1]) = R.p[d][1]
  BY <1>4 DEF Stands, Settled, Reached, Cost, LabelOf
<1>6. 1 \in 1 .. R.n /\ R.p[d][1] \in Nat
  BY DEF Proper
<1>7. Near(R, d, 1)
  <2>1. (1 - 1) * Slack = 0
    BY SlackTimes
  <2>2. R.p[d][1] <= R.p[d][1] + (1 - 1) * Slack
    BY <1>6, <2>1
  <2>. QED
    BY <1>5, <2>2 DEF Near
<1>8. 1 .. 1 - 1 = {} /\ \A j1 \in 1 .. 1 : j1 = 1
  OBVIOUS
<1>. QED
  BY <1>5, <1>6, <1>7, <1>8 DEF Opened

\* Each tree came to an edge of the route from where it will go on, or will not.
LEMMA Frontier ==
  ASSUME FInv, g.restrictions = {}, NEW R, Proper(R), NEW d \in Directions,
         pc \notin {"origin", "destination", "done", "failed"}
  PROVE  \E m \in 1 .. R.n :
           Opened(R, d, m) /\ (Live(d, R.w[d][m]) \/ Dead(d, R.w[d][m]))
<1>. DEFINE T == {x \in Nat : x < R.n /\ Opened(R, d, R.n - x)}
<1>1. /\ GInv /\ (\A t \in Directions : FTree(t)) /\ IInv /\ Asked /\ g \in Graphs /\ Fates
      /\ Other(d) \in Directions /\ Other(Other(d)) = d
  BY TreeFacts, Others DEF FInv, GInv
<1>2. labels[d] # <<>> /\ labels[Other(d)] # <<>>
  BY <1>1, SeededTrees DEF FInv
<1>3. R.n \in Nat /\ R.n >= 2 /\ \A i \in 1 .. R.n : R.w[d][i] \in Edges /\ R.p[d][i] \in Nat
  BY DEF Proper
<1>4. R.n - 1 \in T
  <2>1. R.n - (R.n - 1) = 1 /\ R.n - 1 \in Nat /\ R.n - 1 < R.n
    BY <1>3
  <2>. QED
    BY <1>2, <2>1, FirstOpened
<1>5. PICK x \in T : \A y \in T : x <= y
  <2>1. T \in SUBSET Nat /\ T # {}
    BY <1>4
  <2>. HIDE DEF T
  <2>. QED
    BY <2>1, LeastOf
<1>. DEFINE m == R.n - x
<1>6. m \in 1 .. R.n /\ Opened(R, d, m) /\ x \in Nat
  BY <1>3, <1>5
<1>7. m < R.n => ~Opened(R, d, m + 1)
  <2>. SUFFICES ASSUME m < R.n, Opened(R, d, m + 1) PROVE FALSE
    OBVIOUS
  <2>1. x - 1 \in Nat /\ x - 1 < R.n /\ R.n - (x - 1) = m + 1
    BY <1>3, <1>6
  <2>2. x - 1 \in T
    BY <2>1
  <2>. QED
    BY <1>5, <1>6, <2>2
<1>. HIDE DEF T, m
<1>. DEFINE e == R.w[d][m]
<1>8. e \in Edges /\ Near(R, d, m) /\ Reached(d, e)
  BY <1>3, <1>6 DEF Opened, Near
<1>9. Settled(d, e) /\ m < R.n => ~Leads(d, e, R.w[d][m + 1]) \/ ~Way(d, e, R.w[d][m + 1])
  <2>. SUFFICES ASSUME Settled(d, e), m < R.n, Way(d, e, R.w[d][m + 1]) PROVE Opened(R, d, m + 1)
    BY <1>7
  <2>. DEFINE f == R.w[d][m + 1]
  <2>1. m \in 1 .. R.n - 1 /\ m + 1 \in 1 .. R.n /\ m \in Nat
    BY <1>3, <1>6
  <2>2. R.p[d][m + 1] = R.p[d][m] + Turn(d, e, f) + Whole(Along(d, f)) /\ f \in Edges
    BY <1>3, <2>1 DEF Proper
  <2>3. Near(R, d, m + 1)
    <3>. SUFFICES ASSUME NeverOverestimates(g)
                  PROVE  Cost(d, f) <= R.p[d][m + 1] + ((m + 1) - 1) * Slack
      BY DEF Near, Way
    <3>1. Cost(d, f) <= Cost(d, e) + Turn(d, e, f) + Whole(Along(d, f)) + Slack
      BY DEF Way
    <3>2. Cost(d, e) <= R.p[d][m] + (m - 1) * Slack
      BY <1>8 DEF Near
    <3>3. ((m + 1) - 1) * Slack = (m - 1) * Slack + Slack /\ (m - 1) * Slack \in Nat
      <4>1. m - 1 \in Nat /\ (m + 1) - 1 = (m - 1) + 1
        BY <2>1
      <4>. QED
        BY <4>1, SlackTimes
    <3>4. Cost(d, f) \in Nat /\ Cost(d, e) \in Nat
      BY <1>1, <1>8, <2>2, ReachedFacts DEF Way
    <3>5. Turn(d, e, f) \in Nat /\ Whole(Along(d, f)) \in Nat /\ Slack \in Nat
      BY <1>1, <1>8, <2>2, EdgeFacts
    <3>. DEFINE a == Cost(d, f)
                b == Cost(d, e)
                t == Turn(d, e, f)
                v == Whole(Along(d, f))
                s == (m - 1) * Slack
                p == R.p[d][m]
                q == R.p[d][m + 1]
                z == ((m + 1) - 1) * Slack
    <3>6. /\ a <= b + t + v + Slack /\ b <= p + s /\ q = p + t + v /\ z = s + Slack
          /\ a \in Nat /\ b \in Nat /\ t \in Nat /\ v \in Nat /\ s \in Nat /\ p \in Nat /\ Slack \in Nat
      BY <1>3, <1>6, <2>2, <3>1, <3>2, <3>3, <3>4, <3>5
    <3>. HIDE DEF a, b, t, v, s, p, q, z
    <3>7. a <= q + z
      BY <3>6
    <3>. QED
      BY <3>7 DEF a, q, z
  <2>4. \A j \in 1 .. (m + 1) - 1 : j = m \/ j \in 1 .. m - 1
    BY <2>1
  <2>5. \A j \in 1 .. m + 1 : j = m + 1 \/ j \in 1 .. m
    BY <2>1
  <2>. QED
    BY <1>6, <2>1, <2>3, <2>4, <2>5 DEF Opened
<1>10. m = R.n => Stands(Other(d), g.opp[e])
  <2>. SUFFICES ASSUME m = R.n PROVE Stands(Other(d), g.opp[e])
    OBVIOUS
  <2>1. R.n + 1 - m = 1
    BY <1>3
  <2>2. R.w[Other(d)][1] = g.opp[e]
    BY <1>6, <2>1 DEF Proper
  <2>. QED
    BY <1>1, <1>2, <2>2, FirstOpened
<1>11. Live(d, e) \/ Dead(d, e)
  <2>1. CASE ~Settled(d, e)
    <3>1. status[d][e].set = "temporary"
      BY <1>1, <1>8, <2>1, TreeFacts DEF Reached, Settled
    <3>. QED
      BY <3>1 DEF Live
  <2>2. CASE Settled(d, e)
    <3>1. Fate(d, e)
      BY <1>1, <1>8, <2>2 DEF Fates
    <3>2. CASE \A f \in Edges : Leads(d, e, f) => Way(d, e, f)
      <4>1. CASE m < R.n
        <5>1. m \in 1 .. R.n - 1 /\ m + 1 \in 1 .. R.n
          BY <1>3, <1>6, <4>1
        <5>2. R.w[d][m + 1] \in Edges /\ Leads(d, e, R.w[d][m + 1])
          BY <1>3, <5>1 DEF Proper
        <5>. QED
          BY <1>9, <2>2, <3>2, <4>1, <5>2
      <4>2. CASE ~(m < R.n)
        <5>1. m = R.n
          BY <1>3, <1>6, <4>2
        <5>. QED
          BY <1>10, <2>2, <5>1 DEF Dead
      <4>. QED
        BY <4>1, <4>2
    <3>. QED
      BY <2>2, <3>1, <3>2, Zenon DEF Fate, Live, Dead, Expanded
  <2>. QED
    BY <2>1, <2>2
<1>. QED
  BY <1>6, <1>11

----------------------------------------------------------------------------
\* No edge costs more than half of the threshold.
EdgesWithinThreshold ==
  \A gr \in Graphs : \A e \in DOMAIN gr.head : 2 * (Parts * PartCost(gr, e)) <= ThresholdDelta

\* There is a connection, which is as cheap as the route where the search promises that.
Beaten(R) ==
  /\ best.edge # 0
  /\ NeverOverestimates(g) /\ EdgesWithinThreshold => best.cost <= R.c + R.n * Slack

\* The cursor did not pass an edge from where the tree will go on.
LEMMA LiveCosts ==
  ASSUME FInv, g.restrictions = {}, NeverOverestimates(g), NEW R, Proper(R),
         NEW d \in Directions, NEW m \in 1 .. R.n, Opened(R, d, m), Live(d, R.w[d][m])
  PROVE  /\ cursor[d] * BucketSize \in Int
         /\ cursor[d] * BucketSize <= R.p[d][m] + (m - 1) * Slack + Get(ToGo(d, R.w[d][m]))
<1>. DEFINE e == R.w[d][m]
<1>1. GInv /\ FTree(d) /\ IInv /\ Asked /\ g \in Graphs /\ cursor[d] \in Int
  BY TreeFacts DEF FInv, GInv
<1>2. e \in Edges /\ R.p[d][m] \in Nat /\ R.n \in Nat
  BY DEF Proper
<1>3. m \in 1 .. m
  BY <1>2
<1>4. Reached(d, e) /\ Cost(d, e) <= R.p[d][m] + (m - 1) * Slack
  BY <1>3 DEF Opened, Near
<1>5. Cost(d, e) \in Nat /\ LabelOf(d, e).sort = Cost(d, e) + Get(ToGo(d, e))
  BY <1>1, <1>2, <1>4, ReachedFacts
<1>6. cursor[d] * BucketSize <= LabelOf(d, e).sort
  <2>1. CASE status[d][e].set = "temporary"
    <3>1. status[d][e].idx \in queue[d]
      BY <1>1, <1>2, <2>1, TreeFacts
    <3>. QED
      BY <1>1, <3>1 DEF FTree, Banded, LabelOf
  <2>2. CASE Current(d, e)
    <3>1. cur[d] # 0 /\ cur[d] \in DOMAIN labels[d] /\ labels[d][cur[d]].edge = e
      BY <1>1, <2>2, TreeFacts DEF Current
    <3>2. status[d][e].idx = cur[d]
      BY <1>1, <3>1 DEF FTree, OneLabelEach
    <3>. QED
      BY <1>1, <3>1, <3>2 DEF FTree, Banded, LabelOf
  <2>. QED
    BY <2>1, <2>2 DEF Live
<1>7. Get(ToGo(d, e)) \in Nat /\ cursor[d] * BucketSize \in Int
  BY <1>1, <1>2, GoalFacts, BucketBounds
<1>8. (m - 1) * Slack \in Nat
  <2>1. m - 1 \in Nat
    BY <1>2
  <2>. QED
    BY <2>1, SlackTimes
<1>. DEFINE c == cursor[d] * BucketSize
            a == Cost(d, e)
            h == Get(ToGo(d, e))
            s == (m - 1) * Slack
            p == R.p[d][m]
            l == LabelOf(d, e).sort
<1>9. c \in Int /\ a \in Nat /\ h \in Nat /\ s \in Nat /\ p \in Nat /\ c <= l /\ l = a + h /\ a <= p + s
  BY <1>2, <1>4, <1>5, <1>6, <1>7, <1>8
<1>. HIDE DEF c, a, h, s, p, l
<1>10. c <= p + s + h
  BY <1>9
<1>. QED
  BY <1>9, <1>10 DEF c, h, s, p

\* Where a tree will not go on because the other one came there, the connection is as cheap
\* as the route.
LEMMA MetBeaten ==
  ASSUME FInv, g.restrictions = {}, pc # "done", NEW R, Proper(R), NEW d \in Directions,
         NEW m \in 1 .. R.n, Opened(R, d, m), Settled(d, R.w[d][m]),
         NEW q \in 1 .. R.n, Opened(R, Other(d), q), Live(Other(d), R.w[Other(d)][q]),
         Stands(Other(d), g.opp[R.w[d][m]])
  PROVE  Beaten(R)
<1>. DEFINE o == Other(d)
            x == R.n + 1 - m
            e == R.w[d][m]
            f == R.w[o][x]
<1>1. /\ GInv /\ (\A t \in Directions : FTree(t)) /\ IInv /\ Asked /\ g \in Graphs /\ BothSettled
      /\ o \in Directions
  BY TreeFacts, Others DEF FInv, GInv
<1>2. /\ R.n \in Nat /\ x \in 1 .. R.n /\ e \in Edges /\ f \in Edges /\ f = g.opp[e]
      /\ R.p[d][m] \in Nat /\ R.p[o][x] \in Nat /\ R.c \in Int
      /\ R.p[d][m] + R.p[o][x] - Whole(Along(d, e)) = R.c
  <2>1. R.n \in Nat /\ x \in 1 .. R.n
    BY DEF Proper
  <2>. QED
    BY <1>1, <2>1 DEF Proper
<1>3. best.edge # 0 /\ best.cost <= Joined(d, e)
  BY <1>1, <1>2 DEF BothSettled
<1>4. SUFFICES ASSUME NeverOverestimates(g) PROVE best.cost <= R.c + R.n * Slack
  BY <1>3 DEF Beaten
<1>5. Joined(d, e) = Cost(d, e) + Cost(o, f) - Whole(Along(d, e))
  BY <1>2 DEF Joined
<1>6. Cost(d, e) <= R.p[d][m] + (m - 1) * Slack
  BY <1>2, <1>4 DEF Opened, Near
<1>7. Cost(d, e) \in Nat /\ Cost(o, f) \in Nat /\ LabelOf(o, f).sort = Cost(o, f) + Get(ToGo(o, f))
  <2>1. Reached(d, e) /\ Reached(o, f)
    BY <1>2 DEF Settled, Stands, Reached
  <2>2. Cost(d, e) \in Nat
    BY <1>1, <1>2, <2>1, ReachedFacts
  <2>3. Cost(o, f) \in Nat /\ LabelOf(o, f).sort = Cost(o, f) + Get(ToGo(o, f))
    BY <1>1, <1>2, <2>1, ReachedFacts
  <2>. QED
    BY <2>2, <2>3
<1>8. Whole(Along(d, e)) \in Nat /\ Get(ToGo(o, f)) \in Nat /\ Slack \in Nat
  BY <1>1, <1>2, EdgeFacts, GoalFacts
<1>9. /\ (m - 1) * Slack \in Nat /\ x * Slack \in Nat /\ (x - 1) * Slack \in Nat
      /\ (m - 1) * Slack + x * Slack = R.n * Slack
      /\ x * Slack = (x - 1) * Slack + Slack
  <2>1. m - 1 \in Nat /\ x \in Nat /\ (m - 1) + x = R.n /\ x - 1 \in Nat /\ (x - 1) + 1 = x
    BY <1>2
  <2>. HIDE DEF x
  <2>. QED
    BY <2>1, SlackTimes
<1>10. Cost(o, f) <= R.p[o][x] + x * Slack
  <2>1. CASE x <= q
    <3>1. x \in 1 .. q
      BY <1>2, <2>1
    <3>2. Cost(o, f) <= R.p[o][x] + (x - 1) * Slack
      BY <1>4, <3>1 DEF Opened, Near
    <3>. DEFINE a == Cost(o, f)
                p == R.p[o][x]
                s == (x - 1) * Slack
                t == x * Slack
    <3>3. a \in Nat /\ p \in Nat /\ s \in Nat /\ t = s + Slack /\ Slack \in Nat /\ a <= p + s
      BY <1>2, <1>7, <1>8, <1>9, <3>2
    <3>. HIDE DEF a, p, s, t
    <3>4. a <= p + t
      BY <3>3
    <3>. QED
      BY <3>4 DEF a, p, t
  <2>2. CASE ~(x <= q) /\ Settled(o, f)
    <3>. DEFINE a == Cost(o, f)
                p == R.p[o][x]
                h == Get(ToGo(o, f))
                c == cursor[o] * BucketSize
                pq == R.p[o][q]
                hq == Get(ToGo(o, R.w[o][q]))
                s == (q - 1) * Slack
                t == x * Slack
    <3>1. status[o][f].idx \in DOMAIN labels[o] \ queue[o]
      BY <1>1, <1>2, <2>2, ReachedFacts DEF Settled, Reached
    <3>2. a + h <= c + Slack
      BY <1>1, <1>4, <1>7, <3>1, Zenon DEF FTree, Banded, LabelOf
    <3>3. c \in Int /\ c <= pq + s + hq
      BY <1>1, <1>4, LiveCosts
    <3>4. q <= x /\ q - 1 \in Nat /\ q - 1 <= x - 1 /\ x - 1 \in Nat
      BY <1>2, <2>2
    <3>5. pq + hq <= p + h
      BY <1>1, <1>2, <1>4, <3>4, CostsAlong
    <3>6. s \in Nat /\ s <= (x - 1) * Slack
      <4>. HIDE DEF x
      <4>. QED
        BY <3>4, SlackTimes
    <3>7. pq \in Nat /\ hq \in Nat
      <4>1. R.w[o][q] \in Edges /\ pq \in Nat
        BY <1>1 DEF Proper
      <4>. QED
        BY <1>1, <4>1, GoalFacts
    <3>. DEFINE u == (x - 1) * Slack
    <3>8. /\ a \in Nat /\ p \in Nat /\ h \in Nat /\ t = u + Slack /\ u \in Nat /\ Slack \in Nat
          /\ s <= u /\ s \in Nat
      BY <1>2, <1>7, <1>8, <1>9, <3>6
    <3>. HIDE DEF a, p, h, c, pq, hq, s, t, u
    <3>9. a <= p + t
      BY <3>2, <3>3, <3>5, <3>7, <3>8
    <3>. QED
      BY <3>9 DEF a, p, t
  <2>3. CASE ~(x <= q) /\ ~Settled(o, f)
    <3>1. LabelOf(o, f).pred = 0 /\ status[o][f].set = "temporary"
      BY <1>2, <2>3, SMTT(30) DEF Stands
    <3>2. status[o][f].idx \in DOMAIN labels[o] /\ LabelOf(o, f).edge = f
      BY <1>1, <1>2, <3>1, ReachedFacts DEF Reached
    <3>3. Cost(o, f) <= Whole(Along(o, f))
      BY <1>1, <3>1, <3>2, SeedsAreCheap, Zenon DEF GInv, LabelOf, Cost
    <3>4. x - 1 \in 1 .. R.n - 1 /\ x - 1 \in 1 .. R.n /\ (x - 1) + 1 = x
      BY <1>2, <2>3
    <3>5. R.p[o][x] = R.p[o][x - 1] + Turn(o, R.w[o][x - 1], f) + Whole(Along(o, f))
      <4>. HIDE DEF x
      <4>1. R.p[o][(x - 1) + 1] = R.p[o][x - 1] + Turn(o, R.w[o][x - 1], R.w[o][(x - 1) + 1])
                                  + Whole(Along(o, R.w[o][(x - 1) + 1]))
        BY <1>1, <3>4 DEF Proper
      <4>. QED
        BY <3>4, <4>1
    <3>6. R.w[o][x - 1] \in Edges /\ R.p[o][x - 1] \in Nat
      <4>. HIDE DEF x
      <4>. QED
        BY <1>1, <3>4 DEF Proper
    <3>7. Turn(o, R.w[o][x - 1], f) \in Nat /\ Whole(Along(o, f)) \in Nat
      BY <1>1, <1>2, <3>6, EdgeFacts
    <3>. DEFINE a == Cost(o, f)
                p == R.p[o][x]
                y == R.p[o][x - 1]
                v == Whole(Along(o, f))
                u == Turn(o, R.w[o][x - 1], f)
                t == x * Slack
    <3>8. a \in Nat /\ a <= v /\ v \in Nat /\ u \in Nat /\ y \in Nat /\ p = y + u + v /\ t \in Nat
      BY <1>7, <1>9, <3>3, <3>5, <3>6, <3>7
    <3>. HIDE DEF a, p, y, v, u, t
    <3>9. a <= p + t
      BY <3>8
    <3>. QED
      BY <3>9 DEF a, p, t
  <2>. QED
    BY <2>1, <2>2, <2>3
<1>11. best.cost \in Int
  BY <1>1, BestType
<1>. DEFINE a == Cost(d, e)
            b == Cost(o, f)
            v == Whole(Along(d, e))
            p == R.p[d][m]
            y == R.p[o][x]
            s == (m - 1) * Slack
            t == x * Slack
            z == R.n * Slack
            c == R.c
            j == Joined(d, e)
            k1 == best.cost
<1>12. /\ a \in Nat /\ b \in Nat /\ v \in Nat /\ p \in Nat /\ y \in Nat /\ s \in Nat /\ t \in Nat
       /\ k1 \in Int /\ a <= p + s /\ b <= y + t /\ p + y - v = c /\ s + t = z
       /\ j = a + b - v /\ k1 <= j
  BY <1>2, <1>3, <1>5, <1>6, <1>7, <1>8, <1>9, <1>10, <1>11
<1>. HIDE DEF a, b, v, p, y, s, t, z, c, j, k1
<1>13. k1 <= c + z
  BY <1>12
<1>. QED
  BY <1>13 DEF k1, c, z

----------------------------------------------------------------------------
\* What was pruned is on no route that is cheaper.
LEMMA PrunedBeaten ==
  ASSUME FInv, g.restrictions = {}, pc # "done", NEW R, Proper(R), NEW d \in Directions,
         NEW m \in 1 .. R.n, Opened(R, d, m), Settled(d, R.w[d][m]),
         NEW q \in 1 .. R.n, Opened(R, Other(d), q), Live(Other(d), R.w[Other(d)][q]),
         WasPruned(d, R.w[d][m])
  PROVE  Beaten(R)
<1>. DEFINE o == Other(d)
            x == R.n + 1 - m
            e == R.w[d][m]
            f == R.w[o][x]
<1>1. /\ GInv /\ (\A t \in Directions : FTree(t)) /\ IInv /\ Asked /\ g \in Graphs
      /\ o \in Directions
  BY TreeFacts, Others DEF FInv, GInv
<1>2. /\ R.n \in Nat /\ x \in 1 .. R.n /\ e \in Edges /\ f \in Edges /\ f = g.opp[e]
      /\ R.p[d][m] \in Nat /\ R.p[o][x] \in Nat /\ R.c \in Int
      /\ R.p[d][m] + R.p[o][x] - Whole(Along(d, e)) = R.c
  <2>1. R.n \in Nat /\ x \in 1 .. R.n
    BY DEF Proper
  <2>. QED
    BY <1>1, <2>1 DEF Proper
<1>3. CASE q > x
  <2>1. x \in 1 .. q - 1
    BY <1>2, <1>3
  <2>2. Settled(o, f)
    BY <2>1 DEF Opened
  <2>3. Stands(o, g.opp[e])
    BY <1>2, <2>2 DEF Stands
  <2>. QED
    BY <2>3, MetBeaten
<1>4. CASE ~(q > x)
  <2>1. best.edge # 0
    BY DEF WasPruned
  <2>. SUFFICES ASSUME NeverOverestimates(g), EdgesWithinThreshold PROVE best.cost <= R.c + R.n * Slack
    BY <2>1 DEF Beaten
  <2>. DEFINE a == Cost(d, e)
              v == Whole(Along(d, e))
              c == cursor[o] * BucketSize
              h == Get(ToGo(o, e))
              b == best.cost
              p == R.p[d][m]
              y == R.p[o][x]
              pq == R.p[o][q]
              hq == Get(ToGo(o, R.w[o][q]))
              s == (m - 1) * Slack
              t == (q - 1) * Slack
              z == R.n * Slack
  <2>2. a - v + c + Slack - h > b + ThresholdDelta
    BY DEF WasPruned
  <2>3. a \in Nat /\ a <= p + s
    <3>1. m \in 1 .. m
      BY <1>2
    <3>. QED
      BY <1>1, <1>2, <3>1, ReachedFacts DEF Opened, Near
  <2>4. c \in Int /\ c <= pq + t + hq
    BY <1>1, LiveCosts
  <2>5. v \in Nat /\ h \in Nat /\ Slack \in Nat /\ b \in Int
    BY <1>1, <1>2, EdgeFacts, GoalFacts, BestType
  <2>6. pq \in Nat /\ hq \in Nat
    <3>1. R.w[o][q] \in Edges /\ pq \in Nat
      BY <1>1 DEF Proper
    <3>. QED
      BY <1>1, <3>1, GoalFacts
  <2>7. s \in Nat /\ t \in Nat /\ s + t + Slack <= z /\ z \in Nat
    <3>1. m - 1 \in Nat /\ q - 1 \in Nat /\ ((m - 1) + (q - 1)) + 1 <= R.n
      BY <1>2, <1>4
    <3>. DEFINE i == m - 1
                j == q - 1
    <3>2. i \in Nat /\ j \in Nat /\ i + j \in Nat /\ (i + j) + 1 \in Nat /\ (i + j) + 1 <= R.n
      BY <3>1
    <3>. HIDE DEF i, j
    <3>3. /\ i * Slack \in Nat /\ j * Slack \in Nat
          /\ (i + j) * Slack = i * Slack + j * Slack
          /\ ((i + j) + 1) * Slack = (i + j) * Slack + Slack
          /\ ((i + j) + 1) * Slack <= R.n * Slack /\ R.n * Slack \in Nat
      BY <1>2, <3>2, SlackTimes
    <3>. QED
      BY <2>5, <3>3 DEF i, j
  <2>8. p \in Nat /\ y \in Nat /\ p + y - v = R.c /\ R.c \in Int
    BY <1>2
  <2>9. ASSUME pq + hq <= y + h + ThresholdDelta PROVE b <= R.c + z
    <3>. DEFINE r == R.c
    <3>1. r \in Int /\ p + y - v = r
      BY <2>8
    <3>. HIDE DEF a, v, c, h, b, p, y, pq, hq, s, t, z, r
    <3>2. b <= r + z
      BY <2>2, <2>3, <2>4, <2>5, <2>6, <2>7, <2>8, <2>9, <3>1, ThresholdAssumption
    <3>. QED
      BY <3>2 DEF r
  <2>10. CASE q < x
    <3>1. x - 1 \in 1 .. R.n - 1 /\ x - 1 \in 1 .. R.n /\ (x - 1) + 1 = x /\ q <= x - 1 /\ x <= x
      BY <1>2, <2>10
    <3>2. Leads(o, R.w[o][x - 1], f) /\ R.w[o][x - 1] \in Edges /\ R.p[o][x - 1] \in Nat
      <4>. HIDE DEF x
      <4>1. Leads(o, R.w[o][x - 1], R.w[o][(x - 1) + 1]) /\ R.w[o][x - 1] \in Edges /\ R.p[o][x - 1] \in Nat
        BY <1>1, <3>1 DEF Proper
      <4>. QED
        BY <3>1, <4>1
    <3>3. g.head[R.w[o][x - 1]] = g.head[e]
      <4>1. g.tail[f] = g.head[e]
        BY <1>1, <1>2, EdgeFacts
      <4>. QED
        BY <3>2, <4>1 DEF Leads
    <3>4. Get(ToGo(o, R.w[o][x - 1])) = h
      BY <3>3 DEF ToGo
    <3>5. pq + hq <= R.p[o][x - 1] + h
      <4>. HIDE DEF x
      <4>. QED
        BY <1>1, <3>1, <3>4, CostsAlong
    <3>6. R.p[o][x - 1] <= y
      <4>1. x - 1 <= x
        BY <1>2
      <4>. HIDE DEF x
      <4>. QED
        BY <1>1, <1>2, <3>1, <4>1, CostsAlong
    <3>. DEFINE u == R.p[o][x - 1]
    <3>7. u \in Nat /\ u <= y /\ pq + hq <= u + h
      BY <3>2, <3>5, <3>6
    <3>8. pq + hq <= y + h + ThresholdDelta
      <4>. HIDE DEF u, y, pq, hq, h
      <4>. QED
        BY <2>5, <2>6, <2>8, <3>7, ThresholdAssumption
    <3>. QED
      BY <2>9, <3>8
  <2>11. CASE q = x
    <3>1. R.w[o][q] = f /\ pq = y
      BY <2>11
    <3>2. hq <= v + h
      <4>1. /\ Goal(o) \in Int /\ ToGo(o, f) = Distance(g.x[g.head[f]], Goal(o))
            /\ ToGo(o, e) = Distance(g.x[g.head[e]], Goal(o))
        BY <1>1, GoalFacts
      <4>2. g.head[f] = g.tail[e] /\ Along(d, e) \in {e, g.opp[e]}
        BY <1>1, <1>2, EdgeFacts DEF Along
      <4>3. Get(Distance(g.x[g.tail[e]], Goal(o))) <= v + Get(Distance(g.x[g.head[e]], Goal(o)))
        BY <1>1, <1>2, <4>1, <4>2, EdgeSpan, Zenon
      <4>. QED
        BY <3>1, <4>1, <4>2, <4>3
    <3>3. 2 * v <= ThresholdDelta
      <4>1. Along(d, e) \in DOMAIN g.head
        BY <1>1, <1>2, EdgeFacts DEF Edges
      <4>. QED
        BY <1>1, <4>1 DEF EdgesWithinThreshold, Whole
    <3>4. pq + hq <= y + h + ThresholdDelta
      <4>. HIDE DEF y, pq, hq, h, v
      <4>. QED
        BY <2>5, <2>6, <2>8, <3>1, <3>2, <3>3, ThresholdAssumption
    <3>. QED
      BY <2>9, <3>4
  <2>. QED
    BY <1>2, <1>4, <2>10, <2>11
<1>. QED
  BY <1>3, <1>4

\* Where one tree stopped and the other goes on, a route at least as good was found.
LEMMA DeadBeaten ==
  ASSUME FInv, g.restrictions = {}, pc # "done", NEW R, Proper(R), NEW d \in Directions,
         NEW m \in 1 .. R.n, Opened(R, d, m), Dead(d, R.w[d][m]),
         NEW q \in 1 .. R.n, Opened(R, Other(d), q), Live(Other(d), R.w[Other(d)][q])
  PROVE  Beaten(R)
  BY MetBeaten, PrunedBeaten DEF Dead

\* The label that stops the search is not behind an edge of a cheaper route.
LEMMA StopBeaten ==
  ASSUME FInv, g.restrictions = {}, NEW R, Proper(R), NEW d \in Directions,
         NEW m \in 1 .. R.n, Opened(R, d, m), Live(d, R.w[d][m]),
         NEW i \in queue[d], Stop(d, i)
  PROVE  Beaten(R)
<1>. DEFINE e == R.w[d][m]
            l == R.w[d][R.n]
            o == Other(d)
<1>1. /\ GInv /\ FTree(d) /\ IInv /\ Asked /\ Turns /\ g \in Graphs /\ o \in Directions
  BY TreeFacts, Others DEF FInv, GInv
<1>2. pc = d /\ i \in Lowest(d) /\ best.edge # 0 /\ labels[d][i].sort > best.cost + ThresholdDelta
  BY DEF Stop, Pop, TooDear
<1>3. SUFFICES ASSUME NeverOverestimates(g), EdgesWithinThreshold PROVE best.cost <= R.c + R.n * Slack
  BY <1>2 DEF Beaten
<1>4. ~Waiting(d) /\ pc # "expand"
  BY <1>1, <1>2, PopsUnlessWaiting
<1>5. status[d][e].set = "temporary"
  BY <1>4 DEF Live
<1>6. /\ R.n \in Nat /\ R.n \in 1 .. R.n /\ 1 \in 1 .. R.n /\ e \in Edges /\ l \in Edges /\ R.p[d][m] \in Nat
      /\ R.p[d][R.n] \in Nat /\ R.p[o][1] \in Nat /\ R.c \in Int
  <2>1. R.n \in Nat /\ R.n \in 1 .. R.n /\ 1 \in 1 .. R.n
    BY DEF Proper
  <2>. QED
    BY <1>1, <2>1 DEF Proper
<1>. DEFINE j == status[d][e].idx
<1>7. j \in queue[d] /\ j \in DOMAIN labels[d] /\ i \in DOMAIN labels[d]
      /\ labels[d][i].sort \in Int /\ labels[d][j].sort \in Int /\ cursor[d] \in Int
  <2>1. j \in queue[d]
    BY <1>1, <1>5, <1>6, TreeFacts
  <2>. HIDE DEF j
  <2>. QED
    BY <1>1, <2>1, TreeFacts
<1>8. labels[d][i].sort <= labels[d][j].sort + Slack
  <2>. HIDE DEF j
  <2>1. Bucket(d, i) <= Bucket(d, j)
    BY <1>2, <1>7 DEF Lowest
  <2>2. \A x \in queue[d] : cursor[d] * BucketSize <= labels[d][x].sort
    BY <1>1, <1>3 DEF FTree, Banded
  <2>3. cursor[d] <= labels[d][i].sort \div BucketSize /\ cursor[d] <= labels[d][j].sort \div BucketSize
    BY <1>7, <2>2, BucketBounds
  <2>4. labels[d][i].sort \div BucketSize \in Int /\ labels[d][j].sort \div BucketSize \in Int
    BY <1>7, BucketBounds
  <2>5. Bucket(d, i) = labels[d][i].sort \div BucketSize /\ Bucket(d, j) = labels[d][j].sort \div BucketSize
    BY <1>7, <2>3, <2>4 DEF Bucket
  <2>6. labels[d][i].sort \div BucketSize <= labels[d][j].sort \div BucketSize
    BY <2>1, <2>5
  <2>. QED
    BY <1>7, <2>6, Buckets
<1>9. /\ Cost(d, e) \in Nat /\ labels[d][j].sort = Cost(d, e) + Get(ToGo(d, e))
      /\ Cost(d, e) <= R.p[d][m] + (m - 1) * Slack
  <2>1. m \in 1 .. m
    BY <1>6
  <2>2. Reached(d, e)
    BY <1>5 DEF Reached
  <2>. QED
    BY <1>1, <1>3, <1>6, <2>1, <2>2, ReachedFacts DEF Opened, Near, LabelOf
<1>10. R.p[d][m] + Get(ToGo(d, e)) <= R.p[d][R.n] + Get(ToGo(d, l))
  <2>1. m <= R.n
    BY <1>6
  <2>. QED
    BY <1>1, <1>3, <1>6, <2>1, CostsAlong
<1>11. R.p[d][R.n] + R.p[o][1] - Whole(Along(d, l)) = R.c /\ R.w[o][1] = g.opp[l]
  <2>1. R.n + 1 - R.n = 1
    BY <1>6
  <2>2. /\ R.w[o][R.n + 1 - R.n] = g.opp[l]
        /\ R.p[d][R.n] + R.p[o][R.n + 1 - R.n] - Whole(Along(d, l)) = R.c
    BY <1>6 DEF Proper
  <2>. QED
    BY <2>1, <2>2
<1>12. Get(ToGo(d, l)) <= Whole(Along(d, l))
  <2>1. PICK c \in Candidates(o) : R.w[o][1] = Along(o, c.edge)
    BY <1>1 DEF Proper
  <2>. DEFINE loc == IF o = "forward" THEN origin ELSE destination
  <2>2. c \in loc /\ loc \in Locations(g) /\ c.edge \in Edges
    BY <1>1, <2>1, CandidateFacts DEF Asked
  <2>3. Along(d, l) = c.edge
    <3>1. g.opp[g.opp[l]] = l /\ g.opp[g.opp[c.edge]] = c.edge /\ g.opp[l] = Along(o, c.edge)
      BY <1>1, <1>6, <1>11, <2>1, <2>2, EdgeFacts
    <3>. QED
      BY <3>1 DEF Along, Other, Directions
  <2>4. Goal(d) = Place(g, loc)
    BY DEF Goal, Other, Directions
  <2>5. ToGo(d, l) = Distance(g.x[g.head[l]], Goal(d)) /\ Goal(d) \in Int
    BY <1>1, GoalFacts
  <2>6. /\ c.pos \in 0 .. Parts
        /\ Distance(g.x[g.tail[c.edge]], Place(g, loc)) <= c.pos * g.len[c.edge]
        /\ Distance(Place(g, loc), g.x[g.head[c.edge]]) <= (Parts - c.pos) * g.len[c.edge]
    <3>. HIDE DEF loc
    <3>. QED
      BY <1>1, <2>2, PlaceAlong
  <2>7. /\ g.x[g.tail[c.edge]] \in Int /\ g.x[g.head[c.edge]] \in Int
    BY <1>1, <2>2, GoalFacts
  <2>8. g.head[l] = g.head[c.edge] \/ g.head[l] = g.tail[c.edge]
    BY <1>1, <1>6, <2>3, EdgeFacts DEF Along
  <2>9. c.edge \in DOMAIN g.head /\ Parts \in Nat /\ PartCost(g, c.edge) \in Nat /\ g.len[c.edge] \in Nat
    <3>1. c.edge \in DOMAIN g.head /\ Parts \in Nat
      BY <2>2, SearchAssumption DEF Edges
    <3>2. IsGraph(g)
      BY <1>1, SearchAssumption
    <3>3. g.len[c.edge] \in Nat
      BY <3>1, <3>2 DEF IsGraph
    <3>. QED
      BY <3>1, <3>2, <3>3, <1>1, <2>2, EdgeFacts
  <2>10. Distance(g.x[g.head[l]], Goal(d)) <= Parts * g.len[c.edge]
    <3>. DEFINE P == Place(g, loc)
                a == g.x[g.tail[c.edge]]
                b == g.x[g.head[c.edge]]
                n == g.len[c.edge]
                y == c.pos
    <3>1. P \in Int /\ a \in Int /\ b \in Int /\ n \in Nat /\ y \in 0 .. Parts /\ Parts \in Nat
          /\ Distance(a, P) <= y * n /\ Distance(P, b) <= (Parts - y) * n
      BY <2>4, <2>5, <2>6, <2>7, <2>9
    <3>. HIDE DEF P, a, b, n, y, loc
    <3>2. y * n <= Parts * n /\ (Parts - y) * n <= Parts * n
      <4>1. \A u, v \in Nat : u <= v => u * n <= v * n
        BY <3>1, SMT
      <4>2. y \in Nat /\ Parts - y \in Nat /\ y <= Parts /\ Parts - y <= Parts
        BY <3>1
      <4>. QED
        BY <3>1, <4>1, <4>2
    <3>3. y * n \in Nat /\ (Parts - y) * n \in Nat /\ Parts * n \in Nat
      BY <3>1, Product
    <3>4. Distance(a, P) \in Nat /\ Distance(P, b) \in Nat /\ Distance(b, P) = Distance(P, b)
      BY <3>1 DEF Distance
    <3>5. Distance(a, P) <= Parts * n /\ Distance(b, P) <= Parts * n
      BY <3>1, <3>2, <3>3, <3>4
    <3>. QED
      <4>1. Distance(g.x[g.tail[c.edge]], Goal(d)) <= Parts * g.len[c.edge]
            /\ Distance(g.x[g.head[c.edge]], Goal(d)) <= Parts * g.len[c.edge]
        BY <2>4, <3>5, Zenon DEF P, a, b, n
      <4>. QED
        BY <2>8, <4>1, Zenon
  <2>11. Get(Distance(g.x[g.head[l]], Goal(d))) <= PartCost(g, c.edge) * Parts + Get(Distance(Goal(d), Goal(d)))
    <3>. DEFINE a == g.x[g.head[l]]
                b == Goal(d)
    <3>1. a \in Int /\ b \in Int /\ Distance(a, b) <= Parts * g.len[c.edge]
      BY <1>1, <1>6, <2>5, <2>10, GoalFacts, Zenon
    <3>. HIDE DEF a, b
    <3>2. Get(Distance(a, b)) <= PartCost(g, c.edge) * Parts + Get(Distance(b, b))
      BY <1>1, <1>3, <2>9, <3>1, HeuristicConsistent
    <3>. QED
      BY <3>2 DEF a, b
  <2>12. Get(Distance(Goal(d), Goal(d))) = 0
    <3>1. Distance(Goal(d), Goal(d)) = 0
      BY <2>5 DEF Distance
    <3>. QED
      BY <3>1, SearchAssumption DEF Get
  <2>13. PartCost(g, c.edge) * Parts = Whole(c.edge)
    <3>. DEFINE u == PartCost(g, c.edge)
    <3>. HIDE DEF u
    <3>1. u * Parts = Parts * u /\ u * Parts + 0 = u * Parts
      BY <2>9, SMT DEF u
    <3>. QED
      BY <3>1 DEF u, Whole
  <2>14. Whole(c.edge) \in Nat
    BY <1>1, <2>2, EdgeFacts
  <2>. QED
    BY <2>3, <2>5, <2>11, <2>12, <2>13, <2>14
<1>13. 2 * Whole(Along(d, l)) <= ThresholdDelta /\ Whole(Along(d, l)) \in Nat
  <2>1. Along(d, l) \in DOMAIN g.head
    BY <1>1, <1>6, EdgeFacts DEF Edges
  <2>2. Whole(Along(d, l)) \in Nat
    BY <1>1, <1>6, EdgeFacts
  <2>. QED
    BY <1>1, <1>3, <2>1, <2>2 DEF EdgesWithinThreshold, Whole
<1>14. (m - 1) * Slack \in Nat /\ (m - 1) * Slack + Slack <= R.n * Slack /\ R.n * Slack \in Nat
  <2>1. m - 1 \in Nat /\ m \in Nat /\ (m - 1) + 1 = m /\ m <= R.n
    BY <1>6
  <2>2. m * Slack = (m - 1) * Slack + Slack
    BY <2>1, SlackTimes
  <2>. QED
    BY <1>6, <2>1, <2>2, SlackTimes
<1>15. Get(ToGo(d, e)) \in Nat /\ Get(ToGo(d, l)) \in Nat /\ Slack \in Nat /\ best.cost \in Int
  BY <1>1, <1>6, GoalFacts, SlackTimes, BestType
<1>. DEFINE si == labels[d][i].sort
            sj == labels[d][j].sort
            a == Cost(d, e)
            h == Get(ToGo(d, e))
            hn == Get(ToGo(d, l))
            p == R.p[d][m]
            pn == R.p[d][R.n]
            po == R.p[o][1]
            v == Whole(Along(d, l))
            s == (m - 1) * Slack
            z == R.n * Slack
            b == best.cost
            c == R.c
<1>16. /\ si > b + ThresholdDelta /\ si <= sj + Slack /\ sj = a + h /\ a <= p + s
       /\ p + h <= pn + hn /\ pn + po - v = c /\ hn <= v /\ 2 * v <= ThresholdDelta
       /\ s + Slack <= z
  BY <1>2, <1>8, <1>9, <1>10, <1>11, <1>12, <1>13, <1>14
<1>17. /\ si \in Int /\ a \in Nat /\ h \in Nat /\ hn \in Nat /\ p \in Nat /\ pn \in Nat /\ po \in Nat
       /\ v \in Nat /\ s \in Nat /\ z \in Nat /\ b \in Int /\ c \in Int /\ Slack \in Nat
  BY <1>6, <1>7, <1>9, <1>13, <1>14, <1>15
<1>. HIDE DEF si, sj, a, h, hn, p, pn, po, v, s, z, b, c
<1>18. b <= c + z
  BY <1>16, <1>17, ThresholdAssumption
<1>. QED
  BY <1>18 DEF b, c, z

----------------------------------------------------------------------------
\* A tree will go on along the route.
Alive(R, d) == \E m \in 1 .. R.n : Opened(R, d, m) /\ Live(d, R.w[d][m])

\* Until a connection is as cheap as the route, both trees will go on along it.
Safe(R) ==
  \/ pc \in {"origin", "destination"}
  \/ Beaten(R)
  \/ pc \notin {"done", "failed"} /\ \A d \in Directions : Alive(R, d)

\* In the first round the trees are about to go on, and a tree goes on as long as the other
\* does.
Prospects ==
  \A R : Proper(R) =>
    \A d \in Directions : /\ expand = Directions => Alive(R, d)
                          /\ Alive(R, Other(d)) => Beaten(R) \/ Alive(R, d)

\* Before the end of the search, a tree goes on along every route unless that route is beaten.
LEMMA Outlook ==
  FInv /\ g.restrictions = {} /\ pc \notin {"origin", "destination", "done", "failed"} => Prospects
<1>. SUFFICES ASSUME FInv, g.restrictions = {}, NEW R, Proper(R), NEW d \in Directions,
                     pc \notin {"origin", "destination", "done", "failed"}
              PROVE  /\ expand = Directions => Alive(R, d)
                     /\ Alive(R, Other(d)) => Beaten(R) \/ Alive(R, d)
  BY DEF Prospects
<1>1. ASSUME expand = Directions PROVE Alive(R, d)
  <2>. DEFINE e == R.w[d][1]
              i == status[d][e].idx
  <2>1. GInv /\ FTree(d) /\ IInv /\ FirstRound /\ labels[d] # <<>>
    BY SeededTrees DEF FInv, GInv
  <2>2. Opened(R, d, 1) /\ Stands(d, e)
    BY <2>1, FirstOpened
  <2>3. 1 \in 1 .. R.n /\ e \in Edges /\ R.n \in Nat
    BY DEF Proper
  <2>4. Reached(d, e)
    BY <2>2 DEF Stands, Settled, Reached
  <2>5. i \in DOMAIN labels[d] /\ labels[d][i].edge = e /\ (Settled(d, e) <=> i \notin queue[d])
    BY <2>1, <2>3, <2>4, ReachedFacts DEF LabelOf
  <2>6. i \in queue[d] \/ (i = cur[d] /\ Waiting(d))
    BY <1>1, <2>1, <2>5 DEF FirstRound
  <2>7. i # 0
    <3>1. 0 \notin DOMAIN labels[d]
      BY <2>1, TreeFacts
    <3>. QED
      BY <2>5, <3>1
  <2>8. Live(d, e)
    BY <2>2, <2>5, <2>6, <2>7 DEF Live, Current, Stands
  <2>. QED
    BY <2>2, <2>3, <2>8 DEF Alive
<1>2. ASSUME Alive(R, Other(d)) PROVE Beaten(R) \/ Alive(R, d)
  <2>1. PICK q \in 1 .. R.n : Opened(R, Other(d), q) /\ Live(Other(d), R.w[Other(d)][q])
    BY <1>2 DEF Alive
  <2>2. PICK m \in 1 .. R.n : Opened(R, d, m) /\ (Live(d, R.w[d][m]) \/ Dead(d, R.w[d][m]))
    BY Frontier
  <2>. QED
    BY <2>1, <2>2, DeadBeaten DEF Alive
<1>. QED
  BY <1>1, <1>2

\* A step concerns one tree; the other will go on as before.
LEMMA OneTreeMoves ==
  ASSUME GInv, [Next]_vars, pc \notin {"origin", "destination", "done", "failed"},
         pc' \notin {"done", "failed"}
  PROVE  \E t \in Directions :
           \A e : Live(Other(t), e) => Live(Other(t), e)'
<1>1. IInv /\ Asked /\ Turns /\ side \in Directions
  BY DEF GInv, IInv, TypeOK
<1>2. ASSUME NEW t \in Directions, Stays(Other(t)), NEW e, Live(Other(t), e),
             ~(pc = "expand" /\ side = Other(t)), ~(Choose /\ side' = Other(t))
      PROVE  Live(Other(t), e)'
  <2>1. Other(t) \in Directions
    BY Others
  <2>2. CASE status[Other(t)][e].set = "temporary"
    BY <1>2, <2>2 DEF Stays, Live
  <2>3. CASE Current(Other(t), e) /\ Waiting(Other(t))
    <3>1. Waiting(Other(t))'
      BY <1>2, <2>1, <2>3, StillWaiting
    <3>2. Current(Other(t), e)'
      BY <1>2, <2>3 DEF Stays, Current
    <3>. QED
      BY <3>1, <3>2 DEF Live
  <2>. QED
    BY <1>2, <2>2, <2>3 DEF Live
<1>3. ASSUME NEW t \in Directions, NEW i \in queue[t], Stop(t, i) \/ Connect(t, i) \/ PopOther(t, i)
      PROVE  \A e : Live(Other(t), e) => Live(Other(t), e)'
  <2>1. Pop(t, i) /\ labels' = labels /\ pc = t
    BY <1>3 DEF Stop, Connect, PopOther, Pop
  <2>2. Stays(Other(t))
    BY <1>1, <2>1, PopMoves
  <2>3. pc # "expand" /\ ~Choose
    BY <2>1 DEF Choose, Directions
  <2>. QED
    BY <1>2, <2>2, <2>3
<1>4. CASE Choose
  <2>1. UNCHANGED <<labels, queue, cursor, status, cur>> /\ side' \in Directions /\ pc # "expand"
    BY <1>4 DEF Choose, Directions
  <2>2. PICK t \in Directions : t = side'
    BY <2>1
  <2>3. Stays(Other(t)) /\ Other(t) # side'
    BY <2>1, <2>2, Others DEF Stays
  <2>. QED
    BY <1>2, <2>1, <2>3
<1>5. CASE ExpandBlocked \/ ExpandEdge \/ SkipBack \/ UTurn \/ EndExpand
  <2>1. Expanding /\ pc = "expand"
    BY <1>5 DEF ExpandBlocked, ExpandEdge, SkipBack, UTurn, EndExpand, Expanding
  <2>2. \/ \E e \in Edges, deadend \in BOOLEAN : ExpandInner(e, deadend)
        \/ UNCHANGED <<labels, queue, status>>
    <3>1. last.edge \in Edges /\ Back \in Edges /\ (k <= Len(Out) => Out[k] \in Edges)
      BY <1>1, <2>1, ExpandedLeave
    <3>. QED
      BY <1>5, <3>1 DEF ExpandBlocked, ExpandEdge, SkipBack, UTurn, EndExpand
  <2>3. UNCHANGED <<query, cursor, cur, side>>
    BY <2>1 DEF Expanding
  <2>4. Stays(Other(side))
    BY <1>1, <2>1, <2>2, <2>3, ExpandMoves DEF Stays
  <2>5. Other(side) # side /\ ~Choose
    BY <1>1, <2>1, Others DEF Choose
  <2>. QED
    BY <1>1, <1>2, <2>4, <2>5
<1>6. CASE UNCHANGED vars
  <2>1. \A e : Live(Other("forward"), e) => Live(Other("forward"), e)'
    BY <1>6 DEF vars, query, expansion, Live, Current, Waiting
  <2>. QED
    BY <2>1 DEF Directions
<1>7. \A t \in Directions : ~Exhausted(t)
  BY DEF Exhausted, Done
<1>8. ~SetOrigin /\ ~SetDestination
  BY DEF SetOrigin, SetDestination
<1>. QED
  BY <1>3, <1>4, <1>5, <1>6, <1>7, <1>8 DEF Next

----------------------------------------------------------------------------
\* Routes depend on the query only.
LEMMA ProperStays ==
  ASSUME GInv, [Next]_vars, NEW R
  PROVE  Proper(R)' <=> Proper(R)
<1>1. g' = g /\ origin' = origin /\ destination' = destination
  BY StepMoves DEF GInv
<1>2. /\ Edges' = Edges /\ \A d : Candidates(d)' = Candidates(d)
      /\ \A d, e : Along(d, e)' = Along(d, e)
      /\ \A e : Whole(e)' = Whole(e)
      /\ \A d, e, f : Turn(d, e, f)' = Turn(d, e, f)
  BY <1>1, SameQuery
<1>3. \A d, e, f : Leads(d, e, f)' <=> Leads(d, e, f)
  BY <1>1, <1>2 DEF Leads
<1>4. \A d, e : Whole(Along(d, e))' = Whole(Along(d, e))
  BY <1>2
<1>. QED
  BY <1>1, <1>2, <1>3, <1>4 DEF Proper

\* A tree does not fall back on a route.
LEMMA OpenedStays ==
  ASSUME FInv, FInv', [Next]_vars, g.restrictions = {}, NEW R, Proper(R), NEW d \in Directions,
         NEW m \in 1 .. R.n, Opened(R, d, m)
  PROVE  Opened(R, d, m)'
<1>1. GInv /\ GInv' /\ FTree(d) /\ (\A t \in Directions : FTree(t)) /\ IInv /\ Asked
  BY DEF FInv, GInv
<1>2. g' = g /\ origin' = origin /\ destination' = destination /\ Edges' = Edges
  BY <1>1, StepMoves, SameQuery
<1>3. \A t \in Directions : FTree(t)'
  BY <1>2 DEF FInv
<1>4. R.n \in Nat /\ \A j \in 1 .. R.n : R.w[d][j] \in Edges /\ R.p[d][j] \in Nat
  BY DEF Proper
<1>5. ASSUME NEW j \in 1 .. m - 1 PROVE Settled(d, R.w[d][j])'
  <2>1. PICK e \in Edges : e = R.w[d][j]
    BY <1>4
  <2>2. Settled(d, e)
    BY <2>1 DEF Opened
  <2>3. Settled(d, e)'
    BY <1>1, <2>2, EdgeMoves
  <2>. QED
    BY <2>1, <2>3
<1>6. ASSUME NEW j \in 1 .. m PROVE Near(R, d, j)'
  <2>1. j \in 1 .. R.n /\ j - 1 \in Nat
    BY <1>4
  <2>2. PICK e \in Edges : e = R.w[d][j]
    BY <1>4, <2>1
  <2>3. Reached(d, e) /\ (NeverOverestimates(g) => Cost(d, e) <= R.p[d][j] + (j - 1) * Slack)
    BY <2>2 DEF Opened, Near
  <2>4. Reached(d, e)' /\ Cost(d, e)' <= Cost(d, e)
    BY <1>1, <2>3, EdgeMoves
  <2>5. Cost(d, e) \in Nat
    BY <1>1, <2>3, ReachedFacts
  <2>6. Cost(d, e)' \in Nat
    BY <1>1, <1>2, <1>3, <2>4, ReachedCostsNext
  <2>7. (j - 1) * Slack \in Nat /\ R.p[d][j] \in Nat
    BY <1>4, <2>1, SlackTimes
  <2>. DEFINE a == Cost(d, e)
              b == R.p[d][j] + (j - 1) * Slack
              c == Cost(d, e)'
  <2>8. a \in Nat /\ b \in Nat /\ c \in Nat /\ c <= a /\ (NeverOverestimates(g) => a <= b)
    BY <2>3, <2>4, <2>5, <2>6, <2>7
  <2>9. NeverOverestimates(g) => c <= b
    <3>. HIDE DEF a, b, c
    <3>. QED
      BY <2>8
  <2>. QED
    BY <1>2, <2>2, <2>4, <2>9 DEF Near
<1>. QED
  BY <1>5, <1>6 DEF Opened

\* A beaten route stays beaten: the best route only gets cheaper.
LEMMA BeatenStays ==
  ASSUME FInv, FInv', [Next]_vars, g.restrictions = {}, NEW R, Proper(R), Beaten(R)
  PROVE  Beaten(R)'
<1>1. GInv /\ GInv' /\ (\A t \in Directions : FTree(t)) /\ g' = g
  BY StepMoves DEF FInv, GInv
<1>2. best'.edge # 0 /\ best'.cost <= best.cost /\ best.cost \in Int /\ best'.cost \in Int
  BY <1>1, BestMoves, BestTypeNext DEF Beaten
<1>3. R.c \in Int /\ R.n * Slack \in Nat
  BY SlackTimes DEF Proper
<1>. DEFINE b == R.c + R.n * Slack
<1>4. b \in Int
  BY <1>3
<1>5. best.cost <= b => best'.cost <= b
  <2>. HIDE DEF b
  <2>. QED
    BY <1>2, <1>4
<1>. QED
  BY <1>1, <1>2, <1>5 DEF Beaten

\* The same after a step.
LEMMA OutlookNext ==
  ASSUME FInv', g'.restrictions = {}, pc' \notin {"origin", "destination", "done", "failed"},
         NEW S, Proper(S)', NEW t \in Directions
  PROVE  /\ expand' = Directions => Alive(S, t)'
         /\ Alive(S, Other(t))' => Beaten(S)' \/ Alive(S, t)'
<1>1. (FInv /\ g.restrictions = {} /\ pc \notin {"origin", "destination", "done", "failed"}
         => Prospects)'
  BY Outlook, PTL
<1>2. Prospects'
  BY <1>1
<1>. QED
  BY <1>2 DEF Prospects

\* The stages of the search.
LEMMA StageMoves ==
  ASSUME IInv, [Next]_vars
  PROVE  \/ pc' = pc
         \/ pc = "origin" /\ pc' = "destination"
         \/ SetDestination /\ pc = "destination" /\ pc' = "forward"
         \/ \E t \in Directions : pc = t /\ (Exhausted(t) \/ \E i \in queue[t] : Stop(t, i))
         \/ pc \in Directions \cup {"choose", "expand"} /\ pc' \in Directions \cup {"choose", "expand"}
<1>1. side \in Directions
  BY DEF IInv, TypeOK
<1>2. CASE SetOrigin \/ SetDestination
  BY <1>2 DEF SetOrigin, SetDestination
<1>3. ASSUME NEW t \in Directions, Exhausted(t) PROVE pc = t
  BY <1>3 DEF Exhausted
<1>4. ASSUME NEW t \in Directions, NEW i \in queue[t], Stop(t, i) PROVE pc = t
  BY <1>4 DEF Stop, Pop
<1>5. ASSUME NEW t \in Directions, NEW i \in queue[t], Connect(t, i) \/ PopOther(t, i)
      PROVE  pc \in Directions \cup {"choose", "expand"} /\ pc' \in Directions \cup {"choose", "expand"}
  BY <1>5 DEF Connect, PopOther, Pop, Directions
<1>6. CASE Choose
  BY <1>6 DEF Choose, Directions
<1>7. CASE ExpandBlocked \/ ExpandEdge \/ SkipBack \/ UTurn \/ EndExpand
  BY <1>1, <1>7 DEF Expanding, ExpandBlocked, ExpandEdge, SkipBack, UTurn, EndExpand
<1>8. CASE UNCHANGED vars
  BY <1>8 DEF vars
<1>. QED
  BY <1>2, <1>3, <1>4, <1>5, <1>6, <1>7, <1>8 DEF Next

\* Every step keeps every route safe: the search stops only when the route is beaten.
LEMMA NextSafe ==
  ASSUME FInv, FInv', [Next]_vars, g.restrictions = {}, NEW R, Proper(R), Safe(R)
  PROVE  Safe(R)'
<1>1. GInv /\ IInv /\ Asked /\ Turns /\ g' = g /\ g'.restrictions = {}
  BY StepMoves DEF FInv, GInv
<1>2. Proper(R)'
  BY <1>1, ProperStays
<1>3. CASE pc \in {"origin", "destination"}
  <2>1. CASE pc' \in {"origin", "destination"}
    BY <2>1 DEF Safe
  <2>2. CASE pc' \notin {"origin", "destination"}
    <3>1. SetDestination
      BY <1>1, <1>3, <2>2, StageMoves DEF Directions
    <3>2. pc' = "forward" /\ expand' = expand
      BY <3>1 DEF SetDestination, Seed
    <3>3. expand' = Directions
      BY <1>1, <1>3, <3>2 DEF Turns
    <3>4. \A d \in Directions : Alive(R, d)'
      BY <1>1, <1>2, <3>2, <3>3, OutlookNext
    <3>. QED
      BY <3>2, <3>4 DEF Safe
  <2>. QED
    BY <2>1, <2>2
<1>4. CASE Beaten(R)
  BY <1>4, BeatenStays DEF Safe
<1>5. CASE pc \notin {"origin", "destination", "done", "failed"} /\ \A d \in Directions : Alive(R, d)
  <2>1. CASE pc' \notin {"done", "failed"}
    <3>1. PICK t \in Directions : \A e : Live(Other(t), e) => Live(Other(t), e)'
      BY <1>1, <1>5, <2>1, OneTreeMoves
    <3>2. Other(t) \in Directions
      BY Others
    <3>3. PICK m \in 1 .. R.n : Opened(R, Other(t), m) /\ Live(Other(t), R.w[Other(t)][m])
      BY <1>5, <3>2 DEF Alive
    <3>4. Opened(R, Other(t), m)' /\ Live(Other(t), R.w[Other(t)][m])'
      BY <3>1, <3>2, <3>3, OpenedStays
    <3>5. Alive(R, Other(t))'
      BY <3>4 DEF Alive
    <3>6. pc' \notin {"origin", "destination"}
      BY <1>1, <1>5, <2>1, StageMoves DEF Directions, Exhausted, Stop, Done
    <3>7. Beaten(R)' \/ Alive(R, t)'
      BY <1>1, <1>2, <2>1, <3>5, <3>6, OutlookNext
    <3>8. \A d \in Directions : d = t \/ d = Other(t)
      BY Others
    <3>. QED
      BY <2>1, <3>5, <3>7, <3>8 DEF Safe
  <2>2. CASE pc' \in {"done", "failed"}
    <3>1. PICK t \in Directions : pc = t /\ (Exhausted(t) \/ \E i \in queue[t] : Stop(t, i))
      BY <1>1, <1>5, <2>2, StageMoves DEF Directions
    <3>2. PICK m \in 1 .. R.n : Opened(R, t, m) /\ Live(t, R.w[t][m])
      BY <1>5 DEF Alive
    <3>3. R.w[t][m] \in Edges
      BY DEF Proper
    <3>4. ~Waiting(t) /\ pc # "expand"
      BY <1>1, <3>1, PopsUnlessWaiting
    <3>5. status[t][R.w[t][m]].set = "temporary"
      BY <3>2, <3>4 DEF Live
    <3>6. status[t][R.w[t][m]].idx \in queue[t]
      BY <1>1, <3>3, <3>5, TreeFacts
    <3>7. ~Exhausted(t)
      BY <3>6 DEF Exhausted
    <3>8. PICK i \in queue[t] : Stop(t, i)
      BY <3>1, <3>7
    <3>9. Beaten(R)
      BY <3>2, <3>8, StopBeaten
    <3>. QED
      BY <3>9, BeatenStays DEF Safe
  <2>. QED
    BY <2>1, <2>2
<1>. QED
  BY <1>3, <1>4, <1>5 DEF Safe

----------------------------------------------------------------------------
\* The inductive invariant of the search.
SInv == FInv /\ (g.restrictions = {} => \A R : Proper(R) => Safe(R))

\* A search starts in it.
LEMMA InitSInv == Init => SInv
<1>1. ASSUME Init, NEW R PROVE Safe(R)
  BY <1>1 DEF Init, Safe
<1>. QED
  BY <1>1, InitFInv DEF SInv

\* Every step keeps it.
LEMMA NextSInv == SInv /\ [Next]_vars => SInv'
<1>. SUFFICES ASSUME SInv, [Next]_vars PROVE SInv'
  OBVIOUS
<1>1. FInv /\ FInv' /\ GInv
  BY NextFInv DEF SInv, FInv
<1>2. g' = g
  BY <1>1, StepMoves DEF GInv
<1>3. ASSUME g.restrictions = {}, NEW R, Proper(R)' PROVE Safe(R)'
  <2>1. Proper(R)
    BY <1>1, <1>3, ProperStays
  <2>. QED
    BY <1>1, <1>3, <2>1, NextSafe DEF SInv
<1>. QED
  BY <1>1, <1>2, <1>3 DEF SInv

\* The search never leaves it.
LEMMA SInvHolds == Spec => []SInv
<1>. QED
  BY InitSInv, NextSInv, PTL DEF Spec

----------------------------------------------------------------------------
\* The beginning of a route: n edges from a candidate of the origin, and the cost of the way
\* to the end of each.
Prefix(n, w, P) ==
  /\ n \in Nat /\ n >= 1
  /\ \A i \in 1 .. n : w[i] \in Edges /\ w[i] \in g.access /\ P[i] \in Nat
  /\ \E c \in Candidates("forward") :
       w[1] = c.edge /\ P[1] = PartCost(g, c.edge) * (Parts - c.pos)
  /\ \A i \in 1 .. n - 1 :
       /\ Follows(g, w[i], w[i + 1])
       /\ P[i + 1] = P[i] + g.penalty[w[i]][w[i + 1]] + Whole(w[i + 1])

\* It goes on with each edge that follows.
LEMMA PrefixGrows ==
  ASSUME g \in Graphs, NEW n, NEW w, NEW P, Prefix(n, w, P), NEW f \in Edges,
         Follows(g, w[n], f)
  PROVE  \E v, C : /\ Prefix(n + 1, v, C) /\ v[n] = w[n] /\ v[n + 1] = f
                   /\ C[n + 1] = P[n] + g.penalty[w[n]][f] + Whole(f)
<1>. DEFINE v == [i \in 1 .. n + 1 |-> IF i = n + 1 THEN f ELSE w[i]]
            p == P[n] + g.penalty[w[n]][f] + Whole(f)
            C == [i \in 1 .. n + 1 |-> IF i = n + 1 THEN p ELSE P[i]]
<1>1. n \in Nat /\ n >= 1 /\ n + 1 \in Nat /\ n + 1 >= 1 /\ n \in 1 .. n /\ f \in g.access
  BY DEF Prefix, Follows
<1>2. p \in Nat
  <2>1. w[n] \in Edges /\ P[n] \in Nat
    BY <1>1 DEF Prefix
  <2>2. g.penalty[w[n]][f] \in Nat /\ Whole(f) \in Nat
    <3>1. Turn("forward", w[n], f) \in Nat /\ Whole(f) \in Nat
      BY <2>1, EdgeFacts DEF Directions
    <3>. QED
      BY <3>1 DEF Turn
  <2>. QED
    BY <2>1, <2>2
<1>3. /\ v[n + 1] = f /\ C[n + 1] = p
      /\ \A i \in 1 .. n : v[i] = w[i] /\ C[i] = P[i]
  <2>. HIDE DEF p
  <2>. QED
    BY <1>1
<1>. HIDE DEF p, v, C
<1>4. \A i \in 1 .. n + 1 : v[i] \in Edges /\ v[i] \in g.access /\ C[i] \in Nat
  <2>. SUFFICES ASSUME NEW i \in 1 .. n + 1 PROVE v[i] \in Edges /\ v[i] \in g.access /\ C[i] \in Nat
    OBVIOUS
  <2>1. i = n + 1 \/ i \in 1 .. n
    BY <1>1
  <2>. QED
    BY <1>1, <1>2, <1>3, <2>1 DEF Prefix
<1>5. \E c \in Candidates("forward") : v[1] = c.edge /\ C[1] = PartCost(g, c.edge) * (Parts - c.pos)
  <2>1. 1 \in 1 .. n
    BY <1>1
  <2>. QED
    BY <1>3, <2>1 DEF Prefix
<1>6. ASSUME NEW i \in 1 .. (n + 1) - 1
      PROVE  /\ Follows(g, v[i], v[i + 1])
             /\ C[i + 1] = C[i] + g.penalty[v[i]][v[i + 1]] + Whole(v[i + 1])
  <2>1. CASE i = n
    BY <1>1, <1>3, <2>1 DEF p
  <2>2. CASE i # n
    <3>1. i \in 1 .. n - 1 /\ i \in 1 .. n /\ i + 1 \in 1 .. n
      BY <1>1, <2>2
    <3>2. v[i] = w[i] /\ v[i + 1] = w[i + 1] /\ C[i] = P[i] /\ C[i + 1] = P[i + 1]
      BY <1>3, <3>1
    <3>. QED
      BY <3>1, <3>2 DEF Prefix
  <2>. QED
    BY <2>1, <2>2
<1>7. Prefix(n + 1, v, C)
  BY <1>1, <1>4, <1>5, <1>6 DEF Prefix
<1>. QED
  BY <1>1, <1>3, <1>7 DEF p

\* Seen from both ends it is a route, if it ends on a candidate of the destination.
LEMMA PrefixIsProper ==
  ASSUME g \in Graphs, Asked, NEW n, NEW w, NEW P, Prefix(n, w, P), n >= 2,
         NEW b \in Candidates("reverse"), b.edge = w[n]
  PROVE  \E R : /\ Proper(R) /\ R.n = n
                /\ R.c = P[n] + PartCost(g, b.edge) * b.pos - Whole(b.edge)
<1>. DEFINE c == P[n] + PartCost(g, b.edge) * b.pos - Whole(b.edge)
            y(i) == c - P[n + 1 - i] + Whole(w[n + 1 - i])
            W == [d \in Directions |->
                    [i \in 1 .. n |-> IF d = "forward" THEN w[i] ELSE g.opp[w[n + 1 - i]]]]
            V == [d \in Directions |->
                    [i \in 1 .. n |-> IF d = "forward" THEN P[i] ELSE y(i)]]
            R == [n |-> n, c |-> c, w |-> W, p |-> V]
<1>1. n \in Nat /\ n >= 1 /\ n \in 1 .. n /\ 1 \in 1 .. n
      /\ \A i \in 1 .. n : n + 1 - i \in 1 .. n /\ n + 1 - (n + 1 - i) = i
  BY DEF Prefix
<1>2. \A i \in 1 .. n : /\ w[i] \in Edges /\ w[i] \in g.access /\ P[i] \in Nat
                        /\ g.opp[w[i]] \in Edges /\ g.opp[g.opp[w[i]]] = w[i]
                        /\ g.tail[g.opp[w[i]]] = g.head[w[i]] /\ g.head[g.opp[w[i]]] = g.tail[w[i]]
                        /\ Whole(w[i]) \in Nat
  BY EdgeFacts DEF Prefix
<1>3. /\ PartCost(g, b.edge) * b.pos \in Nat /\ b.edge \in Edges /\ Whole(b.edge) \in Nat
      /\ b \in Candidates("reverse")
  <2>1. "reverse" \in Directions
    BY DEF Directions
  <2>2. PartCost(g, b.edge) * LeftOf("reverse", b) \in Nat /\ b.edge \in Edges
    BY <2>1, CandidateFacts
  <2>3. LeftOf("reverse", b) = b.pos
    BY DEF LeftOf
  <2>. QED
    BY <2>2, <2>3, EdgeFacts
<1>4. c \in Int
  <2>1. P[n] \in Nat
    BY <1>1, <1>2
  <2>. QED
    BY <1>3, <2>1
<1>. HIDE DEF c
<1>5. \A i \in 1 .. n : y(i) \in Int
  BY <1>1, <1>2, <1>4
<1>6. y(1) = PartCost(g, b.edge) * b.pos /\ y(1) \in Nat
  <2>1. n + 1 - 1 = n
    BY <1>1
  <2>2. P[n] \in Nat /\ w[n] = b.edge
    BY <1>1, <1>2
  <2>3. c = P[n] + PartCost(g, b.edge) * b.pos - Whole(b.edge)
    BY DEF c
  <2>. QED
    BY <1>3, <2>1, <2>2, <2>3
<1>7. ASSUME NEW j \in 1 .. n - 1
      PROVE  /\ Follows(g, w[j], w[j + 1]) /\ g.penalty[w[j]][w[j + 1]] \in Nat
             /\ P[j + 1] = P[j] + g.penalty[w[j]][w[j + 1]] + Whole(w[j + 1])
             /\ j \in 1 .. n /\ j + 1 \in 1 .. n
             /\ y(n + 1 - j) = y(n - j) + g.penalty[w[j]][w[j + 1]] + Whole(w[j])
  <2>1. j \in 1 .. n /\ j + 1 \in 1 .. n /\ n + 1 - (n + 1 - j) = j /\ n + 1 - (n - j) = j + 1
    BY <1>1
  <2>2. /\ Follows(g, w[j], w[j + 1])
        /\ P[j + 1] = P[j] + g.penalty[w[j]][w[j + 1]] + Whole(w[j + 1])
    BY DEF Prefix
  <2>3. g.penalty[w[j]][w[j + 1]] \in Nat
    <3>1. Turn("forward", w[j], w[j + 1]) \in Nat
      BY <1>2, <2>1, EdgeFacts DEF Directions
    <3>. QED
      BY <3>1 DEF Turn
  <2>. DEFINE t == g.penalty[w[j]][w[j + 1]]
              u == Whole(w[j])
              v == Whole(w[j + 1])
              q == P[j]
              r == P[j + 1]
  <2>4. t \in Nat /\ u \in Nat /\ v \in Nat /\ q \in Nat /\ r = q + t + v
        /\ y(n + 1 - j) = c - q + u /\ y(n - j) = c - r + v
    BY <1>2, <2>1, <2>2, <2>3
  <2>. HIDE DEF t, u, v, q, r, y
  <2>5. y(n + 1 - j) = y(n - j) + t + u
    BY <1>4, <2>4
  <2>. QED
    BY <2>1, <2>2, <2>3, <2>5 DEF t, u
<1>8. \A i \in 1 .. n : y(i) \in Nat
  <2>. HIDE DEF y
  <2>. DEFINE S == {x \in Nat : x + 1 \in 1 .. n => y(x + 1) \in Nat}
  <2>1. 0 \in S
    BY <1>6
  <2>2. ASSUME NEW x \in Nat, x \in S PROVE x + 1 \in S
    <3>. SUFFICES ASSUME (x + 1) + 1 \in 1 .. n PROVE y((x + 1) + 1) \in Nat
      OBVIOUS
    <3>1. PICK j \in 1 .. n - 1 : j = n - (x + 1)
      BY <1>1
    <3>2. n + 1 - j = (x + 1) + 1 /\ n - j = x + 1 /\ x + 1 \in 1 .. n /\ j \in 1 .. n
      BY <1>1, <3>1
    <3>3. y(x + 1) \in Nat
      BY <2>2, <3>2
    <3>4. y(n + 1 - j) = y(n - j) + g.penalty[w[j]][w[j + 1]] + Whole(w[j])
          /\ g.penalty[w[j]][w[j + 1]] \in Nat /\ Whole(w[j]) \in Nat
      BY <1>2, <1>7, <3>2
    <3>5. y((x + 1) + 1) = y(x + 1) + g.penalty[w[j]][w[j + 1]] + Whole(w[j])
      BY <3>2, <3>4
    <3>. QED
      BY <3>3, <3>4, <3>5
  <2>3. Nat \subseteq S
    <3>. HIDE DEF S
    <3>. QED
      BY <2>1, <2>2, SetInduction
  <2>. SUFFICES ASSUME NEW i \in 1 .. n PROVE y(i) \in Nat
    OBVIOUS
  <2>4. i - 1 \in Nat /\ (i - 1) + 1 = i
    BY <1>1
  <2>. QED
    BY <2>3, <2>4
<1>. HIDE DEF y
<1>9. /\ \A i \in 1 .. n : W["forward"][i] = w[i] /\ W["reverse"][i] = g.opp[w[n + 1 - i]]
      /\ \A i \in 1 .. n : V["forward"][i] = P[i] /\ V["reverse"][i] = y(i)
  BY DEF Directions
<1>10. R.n = n /\ R.c = c /\ R.w = W /\ R.p = V
  OBVIOUS
<1>. HIDE DEF W, V, R
<1>11. ASSUME NEW i \in 1 .. n
       PROVE  /\ W["forward"][i] \in Edges /\ V["forward"][i] \in Nat
              /\ W["reverse"][n + 1 - i] = g.opp[W["forward"][i]]
              /\ V["forward"][i] + V["reverse"][n + 1 - i] - Whole(W["forward"][i]) = c
              /\ W["reverse"][i] \in Edges /\ V["reverse"][i] \in Nat
              /\ W["forward"][n + 1 - i] = g.opp[W["reverse"][i]]
              /\ V["reverse"][i] + V["forward"][n + 1 - i] - Whole(g.opp[W["reverse"][i]]) = c
  <2>1. \A x \in 1 .. n : P[x] + y(n + 1 - x) - Whole(w[x]) = c
    <3>. SUFFICES ASSUME NEW x \in 1 .. n PROVE P[x] + y(n + 1 - x) - Whole(w[x]) = c
      OBVIOUS
    <3>1. y(n + 1 - x) = c - P[x] + Whole(w[x])
      BY <1>1 DEF y
    <3>. QED
      BY <1>2, <1>4, <3>1
  <2>2. PICK x \in 1 .. n : x = n + 1 - i /\ n + 1 - x = i
    BY <1>1
  <2>3. P[i] + y(x) - Whole(w[i]) = c /\ P[x] + y(i) - Whole(w[x]) = c
    BY <2>1, <2>2
  <2>4. y(i) + P[x] = P[x] + y(i)
    BY <1>2, <1>5
  <2>5. W["forward"][i] = w[i] /\ W["forward"][x] = w[x] /\ W["reverse"][i] = g.opp[w[x]] /\ W["reverse"][x] = g.opp[w[i]]
    BY <1>9, <2>2
  <2>6. V["forward"][i] = P[i] /\ V["forward"][x] = P[x] /\ V["reverse"][i] = y(i) /\ V["reverse"][x] = y(x)
    BY <1>9
  <2>7. g.opp[W["reverse"][i]] = w[x]
    BY <1>2, <2>5
  <2>. QED
    BY <1>2, <1>8, <2>2, <2>3, <2>4, <2>5, <2>6, <2>7
<1>12. \A d \in Directions : \E o \in Candidates(d) :
         R.w[d][1] = Along(d, o.edge) /\ R.p[d][1] = PartCost(g, o.edge) * LeftOf(d, o)
  <2>1. PICK o \in Candidates("forward") : w[1] = o.edge /\ P[1] = PartCost(g, o.edge) * (Parts - o.pos)
    BY DEF Prefix
  <2>2. W["forward"][1] = Along("forward", o.edge) /\ V["forward"][1] = PartCost(g, o.edge) * LeftOf("forward", o)
    BY <1>1, <1>9, <2>1 DEF Along, LeftOf
  <2>3. n + 1 - 1 = n
    BY <1>1
  <2>4. W["reverse"][1] = Along("reverse", b.edge) /\ V["reverse"][1] = PartCost(g, b.edge) * LeftOf("reverse", b)
    BY <1>1, <1>6, <1>9, <2>3 DEF Along, LeftOf
  <2>. QED
    BY <1>10, <2>2, <2>4 DEF Directions
<1>13. ASSUME NEW i \in 1 .. n - 1
       PROVE  /\ Leads("forward", W["forward"][i], W["forward"][i + 1])
              /\ V["forward"][i + 1] = V["forward"][i] + Turn("forward", W["forward"][i], W["forward"][i + 1])
                                       + Whole(Along("forward", W["forward"][i + 1]))
  <2>1. i \in 1 .. n /\ i + 1 \in 1 .. n /\ W["forward"][i] = w[i] /\ W["forward"][i + 1] = w[i + 1]
    BY <1>7, <1>9
  <2>2. Follows(g, w[i], w[i + 1])
    BY <1>7
  <2>3. Leads("forward", w[i], w[i + 1])
    BY <2>2 DEF Follows, Leads, Along
  <2>4. V["forward"][i] = P[i] /\ V["forward"][i + 1] = P[i + 1]
    BY <1>9, <2>1
  <2>. QED
    BY <1>7, <2>1, <2>3, <2>4 DEF Turn, Along
<1>14. ASSUME NEW i \in 1 .. n - 1
       PROVE  /\ Leads("reverse", W["reverse"][i], W["reverse"][i + 1])
              /\ V["reverse"][i + 1] = V["reverse"][i] + Turn("reverse", W["reverse"][i], W["reverse"][i + 1])
                                       + Whole(Along("reverse", W["reverse"][i + 1]))
  <2>1. PICK j \in 1 .. n - 1 : j = n - i
    BY <1>1
  <2>2. i \in 1 .. n /\ i + 1 \in 1 .. n /\ n + 1 - i = j + 1 /\ n + 1 - (i + 1) = j
        /\ n + 1 - j = i + 1 /\ n - j = i
    BY <1>1, <2>1
  <2>3. /\ j \in 1 .. n /\ j + 1 \in 1 .. n /\ Follows(g, w[j], w[j + 1])
        /\ y(i + 1) = y(i) + g.penalty[w[j]][w[j + 1]] + Whole(w[j])
    BY <1>7, <2>2
  <2>4. W["reverse"][i] = g.opp[w[j + 1]] /\ W["reverse"][i + 1] = g.opp[w[j]]
    BY <1>9, <2>2
  <2>5. g.opp[g.opp[w[j]]] = w[j] /\ g.opp[g.opp[w[j + 1]]] = w[j + 1]
    BY <1>2, <2>3
  <2>6. Along("reverse", g.opp[w[j]]) = w[j]
        /\ Turn("reverse", g.opp[w[j + 1]], g.opp[w[j]]) = g.penalty[w[j]][w[j + 1]]
    BY <2>5 DEF Along, Turn
  <2>7. Leads("reverse", g.opp[w[j + 1]], g.opp[w[j]])
    <3>1. g.tail[g.opp[w[j]]] = g.head[w[j]] /\ g.head[g.opp[w[j + 1]]] = g.tail[w[j + 1]]
          /\ w[j] \in g.access
      BY <1>2, <2>3
    <3>2. g.tail[w[j + 1]] = g.head[w[j]] /\ g.head[w[j]] \notin g.blocked /\ w[j + 1] # g.opp[w[j]]
      BY <2>3 DEF Follows
    <3>. QED
      BY <2>5, <2>6, <3>1, <3>2 DEF Leads
  <2>8. V["reverse"][i] = y(i) /\ V["reverse"][i + 1] = y(i + 1)
    BY <1>9, <2>2
  <2>. QED
    BY <2>3, <2>4, <2>6, <2>7, <2>8
<1>15. \A d \in Directions : \A i \in 1 .. R.n :
         /\ R.w[d][i] \in Edges /\ R.p[d][i] \in Nat
         /\ R.w[Other(d)][R.n + 1 - i] = g.opp[R.w[d][i]]
         /\ R.p[d][i] + R.p[Other(d)][R.n + 1 - i] - Whole(Along(d, R.w[d][i])) = R.c
  BY <1>10, <1>11 DEF Directions, Other, Along
<1>16. \A d \in Directions : \A i \in 1 .. R.n - 1 :
         /\ Leads(d, R.w[d][i], R.w[d][i + 1])
         /\ R.p[d][i + 1] = R.p[d][i] + Turn(d, R.w[d][i], R.w[d][i + 1])
                            + Whole(Along(d, R.w[d][i + 1]))
  BY <1>10, <1>13, <1>14 DEF Directions
<1>17. Proper(R)
  BY <1>1, <1>4, <1>10, <1>12, <1>15, <1>16 DEF Proper
<1>. QED
  BY <1>10, <1>17 DEF c

----------------------------------------------------------------------------
\* Candidates at the end of an edge are at a node, where all edges that enter or leave it are.
LEMMA CandidatesAtNodes ==
  ASSUME NEW gr \in Graphs, NEW loc \in Locations(gr), NEW c \in loc
  PROVE  /\ c.pos = Parts => \A f \in gr.access : gr.tail[f] = gr.head[c.edge] =>
                               [edge |-> f, pos |-> 0] \in loc
         /\ c.pos = 0 => \A f \in gr.access : gr.head[f] = gr.tail[c.edge] =>
                           [edge |-> f, pos |-> Parts] \in loc
<1>1. Parts \in Nat \ {0}
  BY SearchAssumption
<1>2. CASE \E m \in DOMAIN gr.x : loc = AtNode(gr, m)
  <2>1. PICK m \in DOMAIN gr.x : loc = AtNode(gr, m)
    BY <1>2
  <2>2. \/ c.pos = 0 /\ gr.tail[c.edge] = m
        \/ c.pos = Parts /\ gr.head[c.edge] = m
    BY <2>1 DEF AtNode
  <2>3. \A f \in gr.access : /\ gr.tail[f] = m => [edge |-> f, pos |-> 0] \in loc
                             /\ gr.head[f] = m => [edge |-> f, pos |-> Parts] \in loc
    BY <2>1, Zenon DEF AtNode
  <2>. QED
    BY <1>1, <2>2, <2>3
<1>3. CASE \E e \in gr.access, p \in 1 .. Parts - 1 : loc = OnEdge(gr, e, p)
  <2>1. PICK e \in gr.access, p \in 1 .. Parts - 1 : loc = OnEdge(gr, e, p)
    BY <1>3
  <2>2. c.pos = p \/ c.pos = Parts - p
    BY <2>1 DEF OnEdge
  <2>. QED
    BY <1>1, <2>2
<1>. QED
  BY <1>2, <1>3 DEF Locations

\* What the reference may say of an edge: it is not reached, it is behind the origin, or it
\* ends a way that costs no more.
Explained(e, cost) ==
  \/ cost >= Unreachable
  \/ \E o \in origin : o.pos = Parts /\ o.edge = e
  \/ \E n, w, P : Prefix(n, w, P) /\ w[n] = e /\ P[n] + n * Slack <= cost

\* What the reference computes for an edge is explained if it is for the edge before it.
LEMMA ExplainedGrows ==
  ASSUME g \in Graphs, Asked, NEW e \in Edges, NEW cost \in Nat, Explained(e, cost),
         NEW f \in Edges, Follows(g, e, f)
  PROVE  Explained(f, cost + g.penalty[e][f] + Whole(f) + Slack)
<1>. DEFINE t == g.penalty[e][f]
            v == Whole(f)
<1>1. t \in Nat /\ v \in Nat /\ Slack \in Nat /\ Unreachable \in Nat /\ Parts \in Nat /\ PartCost(g, f) \in Nat
  <2>1. Turn("forward", e, f) \in Nat
    BY EdgeFacts DEF Directions
  <2>. QED
    BY <2>1, EdgeFacts, SearchAssumption DEF Turn
<1>2. CASE cost >= Unreachable
  <2>1. cost + t + v + Slack >= Unreachable
    <3>. HIDE DEF t, v
    <3>. QED
      BY <1>1, <1>2
  <2>. QED
    BY <2>1 DEF Explained
<1>3. CASE \E o \in origin : o.pos = Parts /\ o.edge = e
  <2>1. PICK o \in origin : o.pos = Parts /\ o.edge = e
    BY <1>3
  <2>. DEFINE c == [edge |-> f, pos |-> 0]
              w == [i \in 1 .. 1 |-> f]
              P == [i \in 1 .. 1 |-> v]
  <2>2. c \in origin /\ f \in g.access
    BY <2>1, CandidatesAtNodes DEF Asked, Follows
  <2>3. c \in Candidates("forward") /\ c.edge = f /\ c.pos = 0
    BY <2>2, SearchAssumption DEF Candidates
  <2>4. v = PartCost(g, f) * (Parts - 0)
    <3>. DEFINE q == PartCost(g, f)
    <3>1. q \in Nat
      BY <1>1
    <3>. HIDE DEF q
    <3>2. Parts * q = q * (Parts - 0)
      BY <1>1, <3>1, SMT
    <3>. QED
      BY <3>2 DEF q, Whole
  <2>5. Prefix(1, w, P)
    <3>1. w[1] = f /\ P[1] = v
      OBVIOUS
    <3>2. 1 .. 1 - 1 = {} /\ \A i \in 1 .. 1 : i = 1
      OBVIOUS
    <3>. HIDE DEF w, P, v, c
    <3>. QED
      BY <1>1, <2>2, <2>3, <2>4, <3>1, <3>2 DEF Prefix
  <2>6. w[1] = f /\ P[1] = v
    OBVIOUS
  <2>7. v + 1 * Slack <= cost + t + v + Slack
    <3>. HIDE DEF t, v
    <3>. QED
      BY <1>1
  <2>8. P[1] + 1 * Slack <= cost + t + v + Slack
    BY <2>6, <2>7
  <2>. HIDE DEF w, P
  <2>. QED
    BY <2>5, <2>6, <2>8 DEF Explained
<1>4. CASE \E n, w, P : Prefix(n, w, P) /\ w[n] = e /\ P[n] + n * Slack <= cost
  <2>1. PICK n, w, P : Prefix(n, w, P) /\ w[n] = e /\ P[n] + n * Slack <= cost
    BY <1>4
  <2>2. PICK x, C : /\ Prefix(n + 1, x, C) /\ x[n + 1] = f
                    /\ C[n + 1] = P[n] + t + v
    BY <2>1, PrefixGrows
  <2>3. n \in Nat /\ P[n] \in Nat /\ n + 1 \in Nat
    BY <2>1 DEF Prefix
  <2>4. (n + 1) * Slack = n * Slack + Slack /\ n * Slack \in Nat
    BY <2>3, SlackTimes
  <2>. DEFINE q == P[n]
              s == n * Slack
              z == (n + 1) * Slack
  <2>5. q + t + v + z <= cost + t + v + Slack
    <3>1. q \in Nat /\ s \in Nat /\ z = s + Slack /\ q + s <= cost
      BY <2>1, <2>3, <2>4
    <3>. HIDE DEF q, s, z, t, v
    <3>. QED
      BY <1>1, <3>1
  <2>6. C[n + 1] + (n + 1) * Slack <= cost + t + v + Slack
    BY <2>2, <2>5
  <2>. QED
    BY <2>2, <2>6 DEF Explained
<1>. QED
  BY <1>2, <1>3, <1>4 DEF Explained

\* All ends of routes that the reference knows are explained.
LEMMA RouteEndsExplained ==
  ASSUME g \in Graphs, Asked
  PROVE  \A r \in RouteEnds(g, origin) : r.edge \in Edges /\ r.cost \in Nat /\ Explained(r.edge, r.cost)
<1>. DEFINE Q == {r \in [edge : Edges, cost : Nat] : Explained(r.edge, r.cost)}
<1>1. IsLocation(g, origin) /\ origin \in Locations(g)
  BY LocationsAreLocations DEF Asked
<1>2. /\ Slack \in Nat /\ Parts \in Nat /\ Unreachable \in Nat
  BY SearchAssumption DEF Slack
<1>3. ASSUME NEW e \in Edges, NEW c \in Nat, c >= Unreachable PROVE [edge |-> e, cost |-> c] \in Q
  BY <1>3 DEF Explained
<1>4. ASSUME NEW o \in origin
      PROVE  [edge |-> o.edge, cost |-> PartCost(g, o.edge) * (Parts - o.pos) + Slack] \in Q
  <2>. DEFINE v == PartCost(g, o.edge) * (Parts - o.pos)
  <2>1. o.edge \in Edges /\ o.edge \in g.access /\ o.pos \in 0 .. Parts
    BY <1>1, PlaceAlong DEF Edges
  <2>2. v \in Nat /\ v + Slack \in Nat
    <3>1. Parts - o.pos \in Nat /\ PartCost(g, o.edge) \in Nat
      BY <1>2, <2>1, EdgeFacts
    <3>2. v \in Nat
      BY <3>1, Product
    <3>. HIDE DEF v
    <3>. QED
      BY <1>2, <3>2
  <2>. HIDE DEF v
  <2>3. Explained(o.edge, v + Slack)
    <3>1. CASE o.pos = Parts
      BY <3>1 DEF Explained
    <3>2. CASE o.pos # Parts
      <4>. DEFINE w == [i \in 1 .. 1 |-> o.edge]
                  P == [i \in 1 .. 1 |-> v]
      <4>1. o \in Candidates("forward")
        BY <3>2 DEF Candidates
      <4>2. w[1] = o.edge /\ P[1] = v
        OBVIOUS
      <4>3. 1 .. 1 - 1 = {} /\ \A i \in 1 .. 1 : i = 1
        OBVIOUS
      <4>. HIDE DEF w, P
      <4>4. Prefix(1, w, P)
        BY <2>1, <2>2, <4>1, <4>2, <4>3 DEF Prefix, v
      <4>5. P[1] + 1 * Slack <= v + Slack
        BY <1>2, <2>2, <4>2
      <4>. QED
        BY <4>2, <4>4, <4>5 DEF Explained
    <3>. QED
      BY <3>1, <3>2
  <2>. QED
    BY <2>1, <2>2, <2>3 DEF v
<1>5. ASSUME NEW r \in Q, NEW f \in Edges, Follows(g, r.edge, f)
      PROVE  [edge |-> f, cost |-> r.cost + g.penalty[r.edge][f] + Parts * PartCost(g, f) + Slack] \in Q
  <2>1. r.edge \in Edges /\ r.cost \in Nat /\ Explained(r.edge, r.cost)
    OBVIOUS
  <2>. DEFINE z == r.cost + g.penalty[r.edge][f] + Whole(f) + Slack
  <2>2. Explained(f, z)
    BY <1>5, <2>1, ExplainedGrows
  <2>3. z \in Nat
    <3>1. Turn("forward", r.edge, f) \in Nat /\ Whole(f) \in Nat
      BY <2>1, EdgeFacts DEF Directions
    <3>. QED
      BY <1>2, <2>1, <3>1 DEF Turn
  <2>4. z = r.cost + g.penalty[r.edge][f] + Parts * PartCost(g, f) + Slack
    BY DEF Whole
  <2>. HIDE DEF z
  <2>. QED
    BY <2>2, <2>3, <2>4
<1>6. Q \in SUBSET [edge : Edges, cost : Nat]
  OBVIOUS
<1>7. RouteEnds(g, origin) \subseteq Q
  <2>. HIDE DEF Q
  <2>. QED
    BY <1>1, <1>3, <1>4, <1>5, <1>6, RouteEndsWithin DEF Edges
<1>. QED
  BY <1>7

\* The reference is the cost of a route, but for what the order within a bucket may take.
LEMMA ReferenceIsProper ==
  ASSUME g \in Graphs, Asked, Cheapest(g, origin, destination) < Unreachable
  PROVE  \E R : Proper(R) /\ R.c + R.n * Slack <= Cheapest(g, origin, destination)
<1>. DEFINE C == Cheapest(g, origin, destination)
<1>1. /\ IsLocation(g, origin) /\ origin \in Locations(g)
      /\ IsLocation(g, destination) /\ destination \in Locations(g)
  BY LocationsAreLocations DEF Asked
<1>2. Slack \in Nat /\ Parts \in Nat \ {0} /\ Unreachable \in Nat
  BY SearchAssumption DEF Slack
<1>3. \A o \in origin, d \in destination : Ends(o.edge) \cap Ends(d.edge) = {}
  BY DEF Asked, AreConnected
<1>4. PICK r \in RouteEnds(g, origin), d \in destination :
        /\ Follows(g, r.edge, d.edge)
        /\ C = r.cost + g.penalty[r.edge][d.edge] + PartCost(g, d.edge) * d.pos + Slack
  <2>1. /\ C \in Nat
        /\ \/ C = Unreachable
           \/ \E o \in origin, d \in destination : o.edge = d.edge
           \/ \E r \in RouteEnds(g, origin), d \in destination :
                /\ Follows(g, r.edge, d.edge)
                /\ C = r.cost + g.penalty[r.edge][d.edge] + PartCost(g, d.edge) * d.pos + Slack
    BY <1>1, CheapestIsARoute
  <2>2. ~\E o \in origin, x \in destination : o.edge = x.edge
    BY <1>3 DEF Ends
  <2>. HIDE DEF C
  <2>3. C # Unreachable
    BY <1>2, <2>1 DEF C
  <2>. QED
    BY <2>1, <2>2, <2>3
<1>. DEFINE e == r.edge
            f == d.edge
            t == g.penalty[e][f]
            u == PartCost(g, f) * d.pos
            v == Whole(f)
<1>5. e \in Edges /\ r.cost \in Nat /\ Explained(e, r.cost)
  BY RouteEndsExplained
<1>6. f \in Edges /\ f \in g.access /\ d.pos \in 0 .. Parts
  BY <1>1, PlaceAlong DEF Edges
<1>7. t \in Nat /\ u \in Nat /\ v \in Nat
  <2>1. Turn("forward", e, f) \in Nat /\ v \in Nat /\ PartCost(g, f) \in Nat /\ d.pos \in Nat
    BY <1>5, <1>6, EdgeFacts DEF Directions
  <2>. QED
    BY <2>1, Product DEF Turn
<1>8. r.cost < Unreachable
  <2>1. C < Unreachable /\ C = r.cost + t + u + Slack
    BY <1>4
  <2>. HIDE DEF C, t, u
  <2>. QED
    BY <1>2, <1>5, <1>7, <2>1
<1>9. g.tail[f] = g.head[e]
  BY <1>4 DEF Follows
<1>10. ~\E o \in origin : o.pos = Parts /\ o.edge = e
  BY <1>3, <1>9 DEF Ends
<1>11. PICK n, w, P : Prefix(n, w, P) /\ w[n] = e /\ P[n] + n * Slack <= r.cost
  <2>1. ~(r.cost >= Unreachable)
    BY <1>2, <1>5, <1>8
  <2>. QED
    BY <1>5, <1>10, <2>1 DEF Explained
<1>12. n \in Nat /\ n >= 1 /\ n \in 1 .. n /\ P[n] \in Nat /\ e \in g.access
  BY <1>11 DEF Prefix
<1>13. n * Slack \in Nat /\ (n + 1) * Slack = n * Slack + Slack
  BY <1>12, SlackTimes
<1>14. CASE d.pos # 0
  <2>1. d \in Candidates("reverse")
    BY <1>14 DEF Candidates
  <2>2. PICK x, D : Prefix(n + 1, x, D) /\ x[n + 1] = f /\ D[n + 1] = P[n] + t + v
    BY <1>4, <1>6, <1>11, PrefixGrows
  <2>3. n + 1 >= 2
    BY <1>12
  <2>4. PICK R : Proper(R) /\ R.n = n + 1 /\ R.c = D[n + 1] + u - v
    BY <2>1, <2>2, <2>3, PrefixIsProper
  <2>. DEFINE q == P[n]
              s == n * Slack
              z == (n + 1) * Slack
              y == D[n + 1]
  <2>5. y + u - v + z <= r.cost + t + u + Slack
    <3>1. q \in Nat /\ s \in Nat /\ z = s + Slack /\ q + s <= r.cost /\ y = q + t + v
      BY <1>11, <1>12, <1>13, <2>2
    <3>. HIDE DEF q, s, z, t, u, v, y
    <3>. QED
      BY <1>2, <1>5, <1>7, <3>1
  <2>6. R.c + R.n * Slack <= C
    BY <1>4, <2>4, <2>5
  <2>. QED
    BY <2>4, <2>6
<1>15. CASE d.pos = 0
  <2>. DEFINE b == [edge |-> e, pos |-> Parts]
  <2>1. b \in destination
    BY <1>1, <1>9, <1>12, <1>15, CandidatesAtNodes
  <2>2. b.edge = e /\ b.pos = Parts
    OBVIOUS
  <2>. HIDE DEF b
  <2>3. b \in Candidates("reverse")
    BY <1>2, <2>1, <2>2 DEF Candidates
  <2>4. n # 1
    <3>. SUFFICES ASSUME n = 1 PROVE FALSE
      OBVIOUS
    <3>1. PICK o \in Candidates("forward") : w[1] = o.edge
      BY <1>11 DEF Prefix
    <3>2. o \in origin /\ o.edge = b.edge
      BY <1>11, <2>2, <3>1 DEF Candidates
    <3>. QED
      BY <1>3, <2>1, <3>2 DEF Ends
  <2>5. n >= 2
    BY <1>12, <2>4
  <2>6. PICK R : Proper(R) /\ R.n = n /\ R.c = P[n] + PartCost(g, e) * Parts - Whole(e)
    BY <1>11, <2>2, <2>3, <2>5, PrefixIsProper
  <2>7. PartCost(g, e) * Parts = Whole(e) /\ Whole(e) \in Nat
    <3>. DEFINE q == PartCost(g, e)
    <3>1. q \in Nat /\ Whole(e) \in Nat
      BY <1>5, EdgeFacts
    <3>2. Parts * q = q * Parts
      <4>. HIDE DEF q
      <4>. QED
        BY <1>2, <3>1, SMT
    <3>. QED
      BY <3>1, <3>2 DEF Whole
  <2>8. R.c = P[n]
    BY <1>12, <2>6, <2>7
  <2>. DEFINE q == P[n]
              s == n * Slack
  <2>9. q + s <= r.cost + t + u + Slack
    <3>1. q \in Nat /\ s \in Nat /\ q + s <= r.cost
      BY <1>11, <1>12, <1>13
    <3>. HIDE DEF q, s, t, u
    <3>. QED
      BY <1>2, <1>5, <1>7, <3>1
  <2>10. R.c + R.n * Slack <= C
    BY <1>4, <2>6, <2>8, <2>9
  <2>. QED
    BY <2>6, <2>10
<1>. QED
  BY <1>14, <1>15

----------------------------------------------------------------------------
\* The labels behind a label end at a candidate, so the edges to it are defined.
LEMMA ChainDefined ==
  ASSUME IInv, NEW d \in Directions, TInv(d)
  PROVE  /\ Chain(d)[0] = <<>>
         /\ \A i \in DOMAIN labels[d] :
              Chain(d)[i] = Append(Chain(d)[labels[d][i].pred], Along(d, labels[d][i].edge))
<1>. DEFINE L == Len(labels[d])
            a(i) == Along(d, labels[d][i].edge)
            p(i) == labels[d][i].pred
<1>1. L \in Nat /\ DOMAIN labels[d] = 1 .. L /\ \A i \in 1 .. L : p(i) \in 0 .. L
  BY TreeFacts
<1>2. PICK r \in [DOMAIN labels[d] -> Nat], n \in Nat :
        \A i \in DOMAIN labels[d] : r[i] <= n + 1 /\ (p(i) # 0 => r[p(i)] < r[i])
  BY DEF TInv, Ranked
<1>. HIDE DEF a, p, L
<1>. DEFINE Upto(f, m) == /\ f[0] = <<>>
                          /\ \A i \in 1 .. L : r[i] < m => f[i] = Append(f[p(i)], a(i))
            S == {m \in Nat : \E f : Upto(f, m)}
<1>3. 0 \in S
  <2>. DEFINE f == [i \in 0 .. L |-> <<>>]
  <2>1. f[0] = <<>>
    BY <1>1
  <2>2. \A i \in 1 .. L : ~(r[i] < 0)
    BY <1>1
  <2>. HIDE DEF f
  <2>3. Upto(f, 0)
    BY <2>1, <2>2
  <2>. QED
    BY <2>3
<1>4. ASSUME NEW m \in Nat, m \in S PROVE m + 1 \in S
  <2>1. PICK f : Upto(f, m)
    BY <1>4
  <2>. DEFINE h == [i \in 0 .. L |-> IF i # 0 /\ r[i] = m THEN Append(f[p(i)], a(i)) ELSE f[i]]
  <2>2. h[0] = f[0] /\ \A i \in 1 .. L : h[i] = IF r[i] = m THEN Append(f[p(i)], a(i)) ELSE f[i]
    BY <1>1
  <2>. HIDE DEF h
  <2>3. ASSUME NEW i \in 1 .. L, r[i] < m + 1 PROVE h[i] = Append(h[p(i)], a(i))
    <3>1. r[i] \in Nat /\ p(i) \in 0 .. L
      BY <1>1
    <3>2. h[p(i)] = f[p(i)]
      <4>1. CASE p(i) = 0
        BY <2>2, <4>1
      <4>2. CASE p(i) # 0
        <5>1. p(i) \in 1 .. L
          BY <1>1, <3>1, <4>2
        <5>2. r[p(i)] < r[i] /\ r[p(i)] \in Nat
          BY <1>1, <1>2, <4>2, <5>1
        <5>3. r[p(i)] # m
          BY <2>3, <3>1, <5>2
        <5>. QED
          BY <2>2, <5>1, <5>3
      <4>. QED
        BY <4>1, <4>2
    <3>3. CASE r[i] = m
      BY <2>2, <3>2, <3>3
    <3>4. CASE r[i] # m
      <4>1. r[i] < m
        BY <2>3, <3>1, <3>4
      <4>. QED
        BY <2>1, <2>2, <3>2, <3>4, <4>1
    <3>. QED
      BY <3>3, <3>4
  <2>4. Upto(h, m + 1)
    BY <2>1, <2>2, <2>3
  <2>. HIDE DEF Upto
  <2>. QED
    BY <2>4
<1>5. n + 2 \in S
  <2>1. Nat \subseteq S
    <3>. HIDE DEF S
    <3>. QED
      BY <1>3, <1>4, SetInduction
  <2>. QED
    BY <2>1
<1>6. PICK f : Upto(f, n + 2)
  BY <1>5
<1>. DEFINE c == [i \in 0 .. L |-> f[i]]
            Is(h) == h = [i \in 0 .. L |-> IF i = 0 THEN <<>> ELSE Append(h[p(i)], a(i))]
<1>7. Is(c)
  <2>. DEFINE cc == [i \in 0 .. L |-> IF i = 0 THEN <<>> ELSE Append(c[p(i)], a(i))]
  <2>1. ASSUME NEW i \in 0 .. L PROVE c[i] = cc[i]
    <3>1. CASE i = 0
      BY <1>1, <1>6, <3>1
    <3>2. CASE i # 0
      <4>1. i \in 1 .. L /\ p(i) \in 0 .. L
        BY <1>1, <3>2
      <4>2. r[i] < n + 2
        <5>1. r[i] \in Nat /\ r[i] <= n + 1
          BY <1>1, <1>2, <4>1
        <5>. QED
          BY <5>1
      <4>3. c[i] = f[i] /\ c[p(i)] = f[p(i)]
        BY <1>1, <4>1
      <4>4. cc[i] = Append(c[p(i)], a(i))
        <5>. HIDE DEF c
        <5>. QED
          BY <1>1, <3>2, <4>1
      <4>. QED
        BY <1>6, <4>1, <4>2, <4>3, <4>4
    <3>. QED
      BY <3>1, <3>2
  <2>. QED
    BY <2>1
<1>. HIDE DEF c
<1>8. Is(CHOOSE h : Is(h))
  BY <1>7
<1>9. Chain(d) = CHOOSE h : Is(h)
  BY DEF Chain, a, p, L
<1>10. Is(Chain(d))
  BY <1>8, <1>9
<1>. DEFINE C == Chain(d)
<1>. HIDE DEF C
<1>11. C = [i \in 0 .. L |-> IF i = 0 THEN <<>> ELSE Append(C[p(i)], a(i))]
  BY <1>10 DEF C
<1>12. C[0] = <<>> /\ \A i \in 1 .. L : C[i] = Append(C[p(i)], a(i))
  <2>. DEFINE G == [i \in 0 .. L |-> IF i = 0 THEN <<>> ELSE Append(C[p(i)], a(i))]
  <2>1. 0 \in 0 .. L /\ \A i \in 1 .. L : i \in 0 .. L /\ i # 0
    BY <1>1
  <2>2. G[0] = <<>> /\ \A i \in 1 .. L : G[i] = Append(C[p(i)], a(i))
    BY <2>1
  <2>3. C = G
    BY <1>11
  <2>. HIDE DEF G
  <2>. QED
    BY <2>2, <2>3
<1>. QED
  BY <1>1, <1>12 DEF C, a, p

----------------------------------------------------------------------------
\* How edges come after one another in a tree: in the order of travel or against it.
Joint(d, a, b) == IF d = "forward" THEN g.tail[b] = g.head[a] ELSE g.tail[a] = g.head[b]

\* What the turn between them costs.
Penalty(d, a, b) == IF d = "forward" THEN g.penalty[a][b] ELSE g.penalty[b][a]

\* Whether three of them are no restricted turn.
Allows(d, a, b, c) == (IF d = "forward" THEN <<a, b, c>> ELSE <<c, b, a>>) \notin g.restrictions

\* Edges of a tree from a candidate on, with the cost of the way to the end of each.
Walk(d, s, P) ==
  /\ s \in Seq(Edges) /\ Len(s) >= 1
  /\ \A x \in 1 .. Len(s) : P[x] \in Nat
  /\ \E c \in Candidates(d) : s[1] = c.edge /\ P[1] = PartCost(g, c.edge) * LeftOf(d, c)
  /\ \A x \in 1 .. Len(s) - 1 :
       /\ Joint(d, s[x], s[x + 1])
       /\ P[x + 1] = P[x] + Penalty(d, s[x], s[x + 1]) + Whole(s[x + 1])
  /\ \A x \in 1 .. Len(s) - 2 : Allows(d, s[x], s[x + 1], s[x + 2])

\* A walk goes to each label, and costs what the label says.
WalksTo(d, i) ==
  \E P : /\ Walk(d, Chain(d)[i], P)
         /\ Chain(d)[i][Len(Chain(d)[i])] = Along(d, labels[d][i].edge)
         /\ P[Len(Chain(d)[i])] = labels[d][i].cost

\* A walk goes on with an edge that comes after its last one and meets no restriction there.
LEMMA WalkGrows ==
  ASSUME g \in Graphs, NEW d \in Directions, NEW s, NEW P, Walk(d, s, P), NEW e \in Edges,
         Joint(d, s[Len(s)], e), Len(s) >= 2 => Allows(d, s[Len(s) - 1], s[Len(s)], e)
  PROVE  \E C : /\ Walk(d, Append(s, e), C)
                /\ C[Len(s) + 1] = P[Len(s)] + Penalty(d, s[Len(s)], e) + Whole(e)
<1>. DEFINE n == Len(s)
            t == Append(s, e)
            z == P[n] + Penalty(d, s[n], e) + Whole(e)
            C == [x \in 1 .. n + 1 |-> IF x = n + 1 THEN z ELSE P[x]]
<1>1. s \in Seq(Edges) /\ n \in Nat /\ n >= 1 /\ n \in 1 .. n /\ \A x \in 1 .. n : s[x] \in Edges /\ P[x] \in Nat
  BY DEF Walk
<1>2. t \in Seq(Edges) /\ Len(t) = n + 1 /\ t[n + 1] = e /\ \A x \in 1 .. n : t[x] = s[x]
  BY <1>1
<1>3. z \in Nat
  <2>1. g.penalty \in [Edges -> [Edges -> Nat]]
    BY SearchAssumption DEF IsGraph, Edges
  <2>2. Penalty(d, s[n], e) \in Nat
    BY <1>1, <2>1 DEF Penalty
  <2>3. Whole(e) \in Nat
    BY EdgeFacts
  <2>. QED
    BY <1>1, <2>2, <2>3
<1>. HIDE DEF z
<1>4. C[n + 1] = z /\ \A x \in 1 .. n : C[x] = P[x]
  BY <1>1
<1>. HIDE DEF C, t, n
<1>5. \A x \in 1 .. Len(t) : C[x] \in Nat
  <2>1. \A x \in 1 .. n + 1 : x = n + 1 \/ x \in 1 .. n
    BY <1>1
  <2>. QED
    BY <1>1, <1>2, <1>3, <1>4, <2>1
<1>6. \E c \in Candidates(d) : t[1] = c.edge /\ C[1] = PartCost(g, c.edge) * LeftOf(d, c)
  <2>1. t[1] = s[1] /\ C[1] = P[1]
    BY <1>1, <1>2, <1>4
  <2>. QED
    BY <2>1 DEF Walk
<1>7. ASSUME NEW x \in 1 .. Len(t) - 1
      PROVE  /\ Joint(d, t[x], t[x + 1])
             /\ C[x + 1] = C[x] + Penalty(d, t[x], t[x + 1]) + Whole(t[x + 1])
  <2>1. CASE x = n
    <3>1. t[x] = s[n] /\ t[x + 1] = e /\ C[x] = P[n] /\ C[x + 1] = z
      BY <1>1, <1>2, <1>4, <2>1
    <3>. QED
      BY <3>1 DEF z, n
  <2>2. CASE x # n
    <3>1. x \in 1 .. n - 1 /\ x \in 1 .. n /\ x + 1 \in 1 .. n
      BY <1>1, <1>2, <2>2
    <3>2. t[x] = s[x] /\ t[x + 1] = s[x + 1] /\ C[x] = P[x] /\ C[x + 1] = P[x + 1]
      BY <1>2, <1>4, <3>1
    <3>. QED
      BY <3>1, <3>2 DEF Walk, n
  <2>. QED
    BY <2>1, <2>2
<1>8. ASSUME NEW x \in 1 .. Len(t) - 2 PROVE Allows(d, t[x], t[x + 1], t[x + 2])
  <2>1. CASE x = n - 1
    <3>1. n >= 2 /\ x \in 1 .. n /\ x + 1 = n /\ x + 2 = n + 1
      BY <1>1, <1>2, <2>1
    <3>2. t[x] = s[n - 1] /\ t[x + 1] = s[n] /\ t[x + 2] = e
      BY <1>1, <1>2, <2>1, <3>1
    <3>. QED
      BY <3>1, <3>2 DEF n
  <2>2. CASE x # n - 1
    <3>1. x \in 1 .. n - 2 /\ x \in 1 .. n /\ x + 1 \in 1 .. n /\ x + 2 \in 1 .. n
      BY <1>1, <1>2, <2>2
    <3>2. t[x] = s[x] /\ t[x + 1] = s[x + 1] /\ t[x + 2] = s[x + 2]
      BY <1>2, <3>1
    <3>. QED
      BY <3>1, <3>2 DEF Walk, n
  <2>. QED
    BY <2>1, <2>2
<1>9. Walk(d, t, C)
  <2>1. t \in Seq(Edges) /\ Len(t) >= 1
    BY <1>1, <1>2
  <2>. QED
    BY <1>5, <1>6, <1>7, <1>8, <2>1 DEF Walk
<1>. QED
  BY <1>4, <1>9 DEF n, t, z

----------------------------------------------------------------------------
\* A candidate alone is a walk.
LEMMA WalkStarts ==
  ASSUME g \in Graphs, Asked, NEW d \in Directions, NEW c \in Candidates(d)
  PROVE  \E P : /\ Walk(d, Append(<<>>, c.edge), P)
                /\ P[1] = PartCost(g, c.edge) * LeftOf(d, c)
<1>. DEFINE v == PartCost(g, c.edge) * LeftOf(d, c)
            P == [x \in 1 .. 1 |-> v]
            s == Append(<<>>, c.edge)
<1>1. c.edge \in Edges /\ v \in Nat
  BY CandidateFacts
<1>. HIDE DEF v
<1>2. s \in Seq(Edges) /\ Len(s) = 1 /\ s[1] = c.edge
  BY <1>1
<1>3. P[1] = v
  OBVIOUS
<1>4. 1 .. 1 - 1 = {} /\ 1 .. 1 - 2 = {} /\ \A x \in 1 .. 1 : x = 1
  OBVIOUS
<1>. HIDE DEF s, P
<1>5. Walk(d, s, P)
  <2>1. \A x \in 1 .. Len(s) : P[x] \in Nat
    BY <1>1, <1>2, <1>3, <1>4
  <2>2. \E b \in Candidates(d) : s[1] = b.edge /\ P[1] = PartCost(g, b.edge) * LeftOf(d, b)
    BY <1>2, <1>3 DEF v
  <2>. QED
    BY <1>2, <1>4, <2>1, <2>2 DEF Walk
<1>. QED
  BY <1>3, <1>5 DEF v, s

\* One step of a walk, from the predecessor to a label.
LEMMA WalkFollowsPred ==
  ASSUME GInv, NEW d \in Directions, NEW i \in DOMAIN labels[d], labels[d][i].pred # 0,
         WalksTo(d, labels[d][i].pred)
  PROVE  WalksTo(d, i)
<1>. DEFINE j == labels[d][i].pred
            s == Chain(d)[j]
            e == Along(d, labels[d][i].edge)
            a == Along(d, labels[d][j].edge)
            n == Len(s)
<1>1. IInv /\ TInv(d) /\ g \in Graphs /\ DOMAIN labels[d] = 1 .. Len(labels[d]) /\ Len(labels[d]) \in Nat
  BY TreeFacts DEF GInv
<1>2. /\ j \in DOMAIN labels[d] /\ g.tail[labels[d][i].edge] = g.head[labels[d][j].edge]
      /\ labels[d][i].turn = Turn(d, labels[d][j].edge, labels[d][i].edge)
      /\ labels[d][i].cost = labels[d][j].cost + labels[d][i].turn + Whole(e)
  BY <1>1 DEF TInv, LabelsAddUp, AddsUp
<1>3. PICK P : Walk(d, s, P) /\ s[n] = a /\ P[n] = labels[d][j].cost
  BY DEF WalksTo
<1>4. /\ labels[d][i].edge \in Edges /\ labels[d][j].edge \in Edges /\ e \in Edges /\ a \in Edges
  <2>1. \A x \in DOMAIN labels[d] : labels[d][x].edge \in Edges
    BY <1>1, TreeFacts
  <2>2. \A x \in Edges : Along(d, x) \in Edges
    BY <1>1, EdgeFacts
  <2>. QED
    BY <1>2, <2>1, <2>2
<1>5. Chain(d)[i] = Append(s, e) /\ s = Append(Chain(d)[labels[d][j].pred], a)
  BY <1>1, <1>2, ChainDefined, Zenon
<1>6. Joint(d, a, e) /\ Penalty(d, a, e) = labels[d][i].turn
  <2>1. \A x \in Edges : /\ g.opp[x] \in Edges /\ g.opp[g.opp[x]] = x
                         /\ g.tail[g.opp[x]] = g.head[x] /\ g.head[g.opp[x]] = g.tail[x]
    BY <1>1, EdgeFacts
  <2>. QED
    BY <1>2, <1>4, <2>1, Zenon DEF Joint, Penalty, Turn, Along
<1>7. ASSUME n >= 2 PROVE Allows(d, s[n - 1], s[n], e)
  <2>. DEFINE m == labels[d][j].pred
              t == Chain(d)[m]
  <2>1. m \in 0 .. Len(labels[d])
    BY <1>1, <1>2, TreeFacts
  <2>2. CASE m = 0
    <3>1. t = <<>>
      BY <1>1, <2>2, ChainDefined
    <3>2. s = <<a>>
      BY <1>5, <3>1
    <3>. QED
      BY <1>7, <3>2
  <2>3. CASE m # 0
    <3>1. m \in DOMAIN labels[d]
      BY <1>1, <2>1, <2>3
    <3>2. labels[d][m].edge \in Edges /\ Along(d, labels[d][m].edge) \in Edges
      <4>1. \A x \in DOMAIN labels[d] : labels[d][x].edge \in Edges
        BY <1>1, TreeFacts
      <4>2. \A x \in Edges : Along(d, x) \in Edges
        BY <1>1, EdgeFacts
      <4>. QED
        BY <3>1, <4>1, <4>2
    <3>3. Triple(d, labels[d][m].edge, labels[d][j].edge, labels[d][i].edge) \notin g.restrictions
      BY <1>1, <1>2, <3>1 DEF TInv, Unrestricted
    <3>4. Allows(d, Along(d, labels[d][m].edge), a, e)
      BY <3>3, Zenon DEF Triple, Allows, Along
    <3>5. s[n - 1] = Along(d, labels[d][m].edge)
      <4>1. t = Append(Chain(d)[labels[d][m].pred], Along(d, labels[d][m].edge))
        <5>1. \A x \in DOMAIN labels[d] :
                Chain(d)[x] = Append(Chain(d)[labels[d][x].pred], Along(d, labels[d][x].edge))
          BY <1>1, ChainDefined, Zenon
        <5>. QED
          BY <3>1, <5>1, Zenon
      <4>. DEFINE u == Chain(d)[labels[d][m].pred]
                  b == Along(d, labels[d][m].edge)
      <4>2. s \in Seq(Edges) /\ t = Append(u, b) /\ s = Append(t, a)
        BY <1>3, <1>5, <4>1, Zenon DEF Walk
      <4>. HIDE DEF s, t, u, b
      <4>3. Len(s) = Len(t) + 1 /\ s[Len(t)] = t[Len(t)] /\ t[Len(t)] = b
        BY <4>2
      <4>. QED
        BY <4>3 DEF b
    <3>. QED
      BY <1>3, <3>4, <3>5, Zenon
  <2>. QED
    BY <2>2, <2>3, Zenon
<1>8. PICK C : Walk(d, Append(s, e), C) /\ C[n + 1] = P[n] + Penalty(d, s[n], e) + Whole(e)
  <2>1. Joint(d, s[Len(s)], e) /\ Walk(d, s, P) /\ e \in Edges
    BY <1>3, <1>4, <1>6
  <2>2. Len(s) >= 2 => Allows(d, s[Len(s) - 1], s[Len(s)], e)
    BY <1>7
  <2>. HIDE DEF s, e
  <2>3. \E C : /\ Walk(d, Append(s, e), C)
               /\ C[Len(s) + 1] = P[Len(s)] + Penalty(d, s[Len(s)], e) + Whole(e)
    BY <1>1, <2>1, <2>2, WalkGrows
  <2>. QED
    BY <2>3
<1>9. Len(Append(s, e)) = n + 1 /\ Append(s, e)[n + 1] = e
  <2>1. s \in Seq(Edges)
    BY <1>3 DEF Walk
  <2>. QED
    BY <1>4, <2>1
<1>10. C[n + 1] = labels[d][i].cost
  BY <1>2, <1>3, <1>6, <1>8
<1>. QED
  BY <1>5, <1>8, <1>9, <1>10, Zenon DEF WalksTo

\* There is a walk to each label of a tree, as each one's predecessor was popped before it.
LEMMA LabelsAreWalks ==
  ASSUME GInv, NEW d \in Directions
  PROVE  \A i \in DOMAIN labels[d] : WalksTo(d, i)
<1>1. IInv /\ Asked /\ TInv(d) /\ g \in Graphs /\ 0 \notin DOMAIN labels[d]
  BY TreeFacts DEF GInv
<1>2. PICK r \in [DOMAIN labels[d] -> Nat], n \in Nat :
        \A i \in DOMAIN labels[d] : labels[d][i].pred # 0 => r[labels[d][i].pred] < r[i]
  BY <1>1 DEF TInv, Ranked
<1>. DEFINE S == {m \in Nat : \A i \in DOMAIN labels[d] : r[i] < m => WalksTo(d, i)}
<1>3. 0 \in S
  <2>1. \A i \in DOMAIN labels[d] : ~(r[i] < 0)
    OBVIOUS
  <2>. QED
    BY <2>1
<1>4. ASSUME NEW m \in Nat, m \in S PROVE m + 1 \in S
  <2>. SUFFICES ASSUME NEW i \in DOMAIN labels[d], r[i] < m + 1 PROVE WalksTo(d, i)
    OBVIOUS
  <2>1. CASE labels[d][i].pred # 0
    <3>1. labels[d][i].pred \in DOMAIN labels[d]
      BY <1>1, <2>1 DEF TInv, LabelsAddUp, AddsUp
    <3>2. r[labels[d][i].pred] < r[i] /\ r[i] \in Nat /\ r[labels[d][i].pred] \in Nat
      BY <1>2, <2>1, <3>1
    <3>3. r[labels[d][i].pred] < m
      BY <3>2
    <3>4. WalksTo(d, labels[d][i].pred)
      BY <1>4, <3>1, <3>3
    <3>. QED
      BY <2>1, <3>4, WalkFollowsPred
  <2>2. CASE labels[d][i].pred = 0
    <3>1. PICK c \in Candidates(d) : Starts(d, labels[d][i], c)
      BY <1>1, <2>2 DEF TInv, LabelsAddUp, AddsUp
    <3>2. PICK P : /\ Walk(d, Append(<<>>, c.edge), P)
                   /\ P[1] = PartCost(g, c.edge) * LeftOf(d, c)
      BY <1>1, <3>1, WalkStarts
    <3>3. c.edge \in Edges /\ Along(d, labels[d][i].edge) = c.edge /\ labels[d][i].cost = P[1]
      <4>1. c.edge \in Edges /\ labels[d][i].edge = Along(d, c.edge) /\ labels[d][i].cost = P[1]
        BY <1>1, <3>1, <3>2, CandidateFacts DEF Starts
      <4>2. Along(d, Along(d, c.edge)) = c.edge
        BY <1>1, <4>1, EdgeFacts
      <4>. QED
        BY <4>1, <4>2
    <3>4. Chain(d)[i] = Append(<<>>, c.edge)
      BY <1>1, <2>2, <3>3, ChainDefined
    <3>5. Len(Append(<<>>, c.edge)) = 1 /\ Append(<<>>, c.edge)[1] = c.edge
      OBVIOUS
    <3>. QED
      BY <3>2, <3>3, <3>4, <3>5 DEF WalksTo
  <2>. QED
    BY <2>1, <2>2
<1>5. Nat \subseteq S
  <2>. HIDE DEF S
  <2>. QED
    BY <1>3, <1>4, SetInduction
<1>. SUFFICES ASSUME NEW i \in DOMAIN labels[d] PROVE WalksTo(d, i)
  OBVIOUS
<1>6. r[i] \in Nat /\ r[i] + 1 \in Nat /\ r[i] < r[i] + 1
  OBVIOUS
<1>7. r[i] + 1 \in S
  BY <1>5, <1>6
<1>. QED
  BY <1>6, <1>7

----------------------------------------------------------------------------
\* What recost_forward computes, given the cost of the way to the end of each edge.
LEMMA RouteCostIs ==
  ASSUME NEW s \in Seq(Edges), Len(s) >= 1, NEW from, NEW to, NEW P,
         P[1] = PartCost(g, s[1]) * (Parts - from),
         \A x \in 1 .. Len(s) - 1 :
           P[x + 1] = P[x] + g.penalty[s[x]][s[x + 1]] + Whole(s[x + 1])
  PROVE  RouteCost(s, from, to) = P[Len(s)] - PartCost(g, s[Len(s)]) * (Parts - to)
<1>. DEFINE n == Len(s)
            z == PartCost(g, s[1]) * (Parts - from)
            t(x) == g.penalty[s[x - 1]][s[x]]
            v(x) == Parts * PartCost(g, s[x])
            Is(h) == h = [x \in 1 .. n |-> IF x = 1 THEN z ELSE h[x - 1] + t(x) + v(x)]
            f == [x \in 1 .. n |-> P[x]]
            C == CHOOSE h : Is(h)
<1>1. n \in Nat /\ n >= 1
  OBVIOUS
<1>2. RouteCost(s, from, to) = C[n] - PartCost(g, s[n]) * (Parts - to)
  BY DEF RouteCost
<1>3. P[1] = z /\ \A x \in 2 .. n : P[x] = P[x - 1] + t(x) + v(x)
  <2>. SUFFICES ASSUME NEW x \in 2 .. n PROVE P[x] = P[x - 1] + t(x) + v(x)
    OBVIOUS
  <2>1. PICK y \in 1 .. n - 1 : y = x - 1 /\ y + 1 = x
    BY <1>1
  <2>2. P[y + 1] = P[y] + g.penalty[s[y]][s[y + 1]] + Whole(s[y + 1])
    BY <2>1
  <2>. QED
    BY <2>1, <2>2 DEF Whole
<1>. HIDE DEF z, t, v, n
<1>4. Is(f)
  <2>. DEFINE h == [x \in 1 .. n |-> IF x = 1 THEN z ELSE f[x - 1] + t(x) + v(x)]
  <2>1. ASSUME NEW x \in 1 .. n PROVE f[x] = h[x]
    <3>1. CASE x = 1
      BY <1>1, <1>3, <3>1
    <3>2. CASE x # 1
      <4>1. x \in 2 .. n /\ x - 1 \in 1 .. n
        BY <1>1, <3>2
      <4>2. f[x] = P[x] /\ f[x - 1] = P[x - 1]
        BY <4>1
      <4>. HIDE DEF f
      <4>3. h[x] = f[x - 1] + t(x) + v(x)
        BY <3>2
      <4>. QED
        BY <1>3, <4>1, <4>2, <4>3
    <3>. QED
      BY <3>1, <3>2
  <2>. QED
    BY <2>1
<1>5. Is(C)
  <2>. HIDE DEF f
  <2>. QED
    BY <1>4
<1>. HIDE DEF C
<1>6. C[1] = z /\ \A x \in 2 .. n : C[x] = C[x - 1] + t(x) + v(x)
  <2>. DEFINE G == [x \in 1 .. n |-> IF x = 1 THEN z ELSE C[x - 1] + t(x) + v(x)]
  <2>1. 1 \in 1 .. n /\ \A x \in 2 .. n : x \in 1 .. n /\ x # 1
    BY <1>1
  <2>2. G[1] = z /\ \A x \in 2 .. n : G[x] = C[x - 1] + t(x) + v(x)
    BY <2>1
  <2>3. C = G
    BY <1>5
  <2>. HIDE DEF G
  <2>. QED
    BY <2>2, <2>3
<1>. DEFINE S == {x \in Nat : x + 1 \in 1 .. n => C[x + 1] = P[x + 1]}
<1>7. 0 \in S
  BY <1>3, <1>6
<1>8. ASSUME NEW x \in Nat, x \in S PROVE x + 1 \in S
  <2>. SUFFICES ASSUME (x + 1) + 1 \in 1 .. n PROVE C[(x + 1) + 1] = P[(x + 1) + 1]
    OBVIOUS
  <2>1. PICK y \in 2 .. n : y = (x + 1) + 1 /\ y - 1 = x + 1 /\ x + 1 \in 1 .. n
    BY <1>1
  <2>2. C[x + 1] = P[x + 1]
    BY <1>8, <2>1
  <2>3. C[y] = C[y - 1] + t(y) + v(y) /\ P[y] = P[y - 1] + t(y) + v(y)
    BY <1>3, <1>6
  <2>. QED
    BY <2>1, <2>2, <2>3
<1>9. Nat \subseteq S
  <2>. HIDE DEF S
  <2>. QED
    BY <1>7, <1>8, SetInduction
<1>10. n - 1 \in Nat /\ (n - 1) + 1 = n /\ n \in 1 .. n
  BY <1>1
<1>11. C[n] = P[n]
  BY <1>9, <1>10
<1>. QED
  BY <1>2, <1>11 DEF n

\* Two walks that end on the same edge make a route.
LEMMA WalksMeet ==
  ASSUME g \in Graphs, Asked, NEW s, NEW P, Walk("forward", s, P), NEW t, NEW C, Walk("reverse", t, C),
         s[Len(s)] = t[Len(t)], NEW u \in Seq(Edges), Len(u) = Len(s) + Len(t) - 1,
         \A x \in 1 .. Len(s) : u[x] = s[x],
         \A y \in 0 .. Len(t) - 1 : u[Len(s) + y] = t[Len(t) - y]
  PROVE  /\ IsRoute(u, P[Len(s)] + C[Len(t)] - Whole(s[Len(s)]))
         /\ (Len(s) >= 2 /\ Len(t) >= 2 =>
               <<s[Len(s) - 1], s[Len(s)], t[Len(t) - 1]>> \notin g.restrictions)
            => NoRestricted(u)
<1>. DEFINE n == Len(s)
            m == Len(t)
            e == s[n]
            D(x) == P[n] + C[m] - C[m - (x - n)] + Whole(t[m - (x - n)]) - Whole(e)
            V == [x \in 1 .. n + m - 1 |-> IF x <= n THEN P[x] ELSE D(x)]
<1>1. /\ s \in Seq(Edges) /\ t \in Seq(Edges) /\ n \in Nat /\ n >= 1 /\ m \in Nat /\ m >= 1
      /\ n \in 1 .. n /\ m \in 1 .. m /\ 1 \in 1 .. n /\ 1 \in 1 .. m
      /\ \A x \in 1 .. n : s[x] \in Edges /\ P[x] \in Nat /\ Whole(s[x]) \in Nat
      /\ \A y \in 1 .. m : t[y] \in Edges /\ C[y] \in Nat /\ Whole(t[y]) \in Nat
  <2>1. /\ s \in Seq(Edges) /\ t \in Seq(Edges) /\ n \in Nat /\ n >= 1 /\ m \in Nat /\ m >= 1
        /\ \A x \in 1 .. n : s[x] \in Edges /\ P[x] \in Nat
        /\ \A y \in 1 .. m : t[y] \in Edges /\ C[y] \in Nat
    BY DEF Walk
  <2>. QED
    BY <2>1, EdgeFacts
<1>2. /\ \A x \in 1 .. n - 1 :
           /\ g.tail[s[x + 1]] = g.head[s[x]]
           /\ P[x + 1] = P[x] + g.penalty[s[x]][s[x + 1]] + Whole(s[x + 1])
      /\ \A y \in 1 .. m - 1 :
           /\ g.tail[t[y]] = g.head[t[y + 1]]
           /\ C[y + 1] = C[y] + g.penalty[t[y + 1]][t[y]] + Whole(t[y + 1])
      /\ \A x \in 1 .. n - 2 : <<s[x], s[x + 1], s[x + 2]>> \notin g.restrictions
      /\ \A y \in 1 .. m - 2 : <<t[y + 2], t[y + 1], t[y]>> \notin g.restrictions
  BY DEF Walk, Joint, Penalty, Allows
<1>3. PICK o \in Candidates("forward") : s[1] = o.edge /\ P[1] = PartCost(g, o.edge) * (Parts - o.pos)
  BY DEF Walk, LeftOf
<1>4. PICK b \in Candidates("reverse") : t[1] = b.edge /\ C[1] = PartCost(g, b.edge) * b.pos
  BY DEF Walk, LeftOf
<1>5. o \in origin /\ b \in destination
  BY DEF Candidates
<1>6. Len(u) = n + m - 1 /\ Len(u) \in Nat /\ Len(u) >= 1 /\ u # <<>>
  BY <1>1
<1>7. /\ \A x \in 1 .. n : u[x] = s[x]
      /\ \A x \in n .. n + m - 1 : u[x] = t[m - (x - n)] /\ m - (x - n) \in 1 .. m
  <2>1. ASSUME NEW x \in n .. n + m - 1 PROVE u[x] = t[m - (x - n)] /\ m - (x - n) \in 1 .. m
    <3>1. x - n \in 0 .. m - 1 /\ n + (x - n) = x
      <4>1. n \in Nat /\ m \in Nat
        BY <1>1
      <4>. HIDE DEF n, m
      <4>. QED
        BY <4>1
    <3>2. u[n + (x - n)] = t[m - (x - n)]
      BY <3>1
    <3>3. m - (x - n) \in 1 .. m
      BY <1>1, <3>1
    <3>. QED
      BY <3>1, <3>2, <3>3
  <2>. QED
    BY <2>1
<1>. HIDE DEF n, m, e
<1>8. u[1] = o.edge /\ u[Len(u)] = b.edge
  <2>1. n + m - 1 \in n .. n + m - 1 /\ m - ((n + m - 1) - n) = 1
    BY <1>1, SMTT(30)
  <2>. QED
    BY <1>1, <1>3, <1>4, <1>6, <1>7, <2>1
<1>9. /\ \A x \in 1 .. n : V[x] = P[x]
      /\ \A x \in n .. n + m - 1 : V[x] = D(x)
  <2>1. \A x \in 1 .. n : V[x] = P[x]
    <3>. HIDE DEF D
    <3>1. \A x \in 1 .. n : x \in 1 .. n + m - 1 /\ x <= n
      BY <1>1
    <3>. QED
      BY <3>1
  <2>2. ASSUME NEW x \in n .. n + m - 1, x # n PROVE V[x] = D(x)
    <3>. HIDE DEF D
    <3>1. x \in 1 .. n + m - 1 /\ ~(x <= n)
      BY <1>1, <2>2
    <3>. QED
      BY <3>1
  <2>3. D(n) = P[n]
    <3>1. m - (n - n) = m
      BY <1>1
    <3>2. t[m] = e
      BY DEF n, m, e
    <3>3. D(n) = P[n] + C[m] - C[m] + Whole(e) - Whole(e)
      BY <3>1, <3>2
    <3>4. P[n] \in Nat /\ C[m] \in Nat /\ Whole(e) \in Nat
      BY <1>1 DEF e
    <3>. HIDE DEF D
    <3>. QED
      BY <3>3, <3>4
  <2>. HIDE DEF V, D
  <2>. QED
    BY <1>1, <2>1, <2>2, <2>3
<1>. HIDE DEF V
<1>10. ASSUME NEW x \in 1 .. Len(u) - 1
       PROVE  /\ g.tail[u[x + 1]] = g.head[u[x]]
              /\ V[x + 1] = V[x] + g.penalty[u[x]][u[x + 1]] + Whole(u[x + 1])
  <2>1. CASE x < n
    <3>1. x \in 1 .. n - 1 /\ x \in 1 .. n /\ x + 1 \in 1 .. n
      BY <1>1, <1>6, <2>1
    <3>2. u[x] = s[x] /\ u[x + 1] = s[x + 1] /\ V[x] = P[x] /\ V[x + 1] = P[x + 1]
      BY <1>7, <1>9, <3>1
    <3>. QED
      BY <1>2, <3>1, <3>2
  <2>2. CASE ~(x < n)
    <3>1. PICK y \in 1 .. m - 1 : y = m - ((x + 1) - n) /\ y + 1 = m - (x - n)
      BY <1>1, <1>6, <2>2
    <3>2. x \in n .. n + m - 1 /\ x + 1 \in n .. n + m - 1 /\ y \in 1 .. m /\ y + 1 \in 1 .. m
      BY <1>1, <1>6, <2>2, <3>1
    <3>3. u[x] = t[y + 1] /\ u[x + 1] = t[y] /\ V[x] = D(x) /\ V[x + 1] = D(x + 1)
      <4>. HIDE DEF D
      <4>. QED
        BY <1>7, <1>9, <3>1, <3>2
    <3>4. /\ D(x) = P[n] + C[m] - C[y + 1] + Whole(t[y + 1]) - Whole(e)
          /\ D(x + 1) = P[n] + C[m] - C[y] + Whole(t[y]) - Whole(e)
      BY <3>1
    <3>5. g.tail[t[y]] = g.head[t[y + 1]] /\ C[y + 1] = C[y] + g.penalty[t[y + 1]][t[y]] + Whole(t[y + 1])
      BY <1>2
    <3>6. g.penalty[t[y + 1]][t[y]] \in Nat
      <4>1. g.penalty \in [Edges -> [Edges -> Nat]]
        BY SearchAssumption DEF IsGraph, Edges
      <4>. QED
        BY <1>1, <3>2, <4>1
    <3>. DEFINE z == g.penalty[t[y + 1]][t[y]]
                p == P[n]
                c == C[m]
                h == Whole(e)
                c0 == C[y]
                c1 == C[y + 1]
                h0 == Whole(t[y])
                h1 == Whole(t[y + 1])
                d0 == D(x)
                d1 == D(x + 1)
    <3>7. /\ z \in Nat /\ p \in Nat /\ c \in Nat /\ h \in Nat /\ c0 \in Nat /\ c1 \in Nat /\ h0 \in Nat /\ h1 \in Nat
          /\ c1 = c0 + z + h1 /\ d0 = p + c - c1 + h1 - h /\ d1 = p + c - c0 + h0 - h
      <4>. HIDE DEF D
      <4>. QED
        BY <1>1, <3>2, <3>4, <3>5, <3>6 DEF e
    <3>. HIDE DEF z, p, c, h, c0, c1, h0, h1, d0, d1, D
    <3>8. d1 = d0 + z + h0
      BY <3>7
    <3>. QED
      BY <3>3, <3>5, <3>8 DEF z, h0, d0, d1
  <2>. QED
    BY <2>1, <2>2
<1>11. RouteCost(u, o.pos, b.pos) = V[Len(u)] - PartCost(g, u[Len(u)]) * (Parts - b.pos)
  <2>1. V[1] = PartCost(g, u[1]) * (Parts - o.pos)
    BY <1>1, <1>3, <1>8, <1>9
  <2>2. \A x \in 1 .. Len(u) - 1 : V[x + 1] = V[x] + g.penalty[u[x]][u[x + 1]] + Whole(u[x + 1])
    BY <1>10
  <2>3. PICK W : W = V
    OBVIOUS
  <2>4. PICK a, c : a = o.pos /\ c = b.pos
    OBVIOUS
  <2>5. RouteCost(u, a, c) = W[Len(u)] - PartCost(g, u[Len(u)]) * (Parts - c)
    <3>1. W[1] = PartCost(g, u[1]) * (Parts - a) /\ Len(u) >= 1
      BY <1>6, <2>1, <2>3, <2>4
    <3>2. \A x \in 1 .. Len(u) - 1 : W[x + 1] = W[x] + g.penalty[u[x]][u[x + 1]] + Whole(u[x + 1])
      BY <2>2, <2>3
    <3>. QED
      BY <3>1, <3>2, RouteCostIs
  <2>. QED
    BY <2>3, <2>4, <2>5
<1>12. V[Len(u)] - PartCost(g, u[Len(u)]) * (Parts - b.pos) = P[n] + C[m] - Whole(e)
  <2>1. n + m - 1 \in n .. n + m - 1 /\ m - ((n + m - 1) - n) = 1
    BY <1>1
  <2>2. V[Len(u)] = P[n] + C[m] - C[1] + Whole(t[1]) - Whole(e)
    BY <1>6, <1>9, <2>1
  <2>3. C[1] = PartCost(g, b.edge) * b.pos /\ Whole(t[1]) = Parts * PartCost(g, b.edge)
    BY <1>4 DEF Whole
  <2>. DEFINE q == PartCost(g, b.edge)
              y == b.pos
  <2>4. q \in Nat /\ y \in 0 .. Parts /\ Parts \in Nat
    <3>1. "reverse" \in Directions
      BY DEF Directions
    <3>2. b.edge \in Edges /\ b.pos \in 0 .. Parts
      BY <3>1, CandidateFacts
    <3>. QED
      BY <3>2, EdgeFacts
  <2>5. q * (Parts - y) = Parts * q - q * y /\ q * y \in Nat /\ Parts * q \in Nat
    <3>. HIDE DEF q, y
    <3>1. y \in Int /\ q * (Parts - y) = Parts * q - q * y
      BY <2>4, SMT
    <3>. QED
      BY <2>4, <3>1, Product
  <2>. DEFINE p == P[n]
              c == C[m]
              h == Whole(e)
              a == q * y
              w == Parts * q
  <2>6. p \in Nat /\ c \in Nat /\ h \in Nat /\ V[Len(u)] = p + c - a + w - h
    BY <1>1, <2>2, <2>3 DEF e
  <2>7. PartCost(g, u[Len(u)]) * (Parts - b.pos) = w - a
    BY <1>8, <2>5
  <2>8. a \in Nat /\ w \in Nat
    BY <2>5
  <2>. HIDE DEF p, c, h, a, w
  <2>9. (p + c - a + w - h) - (w - a) = p + c - h
    BY <2>6, <2>8
  <2>. QED
    BY <2>6, <2>7, <2>9 DEF p, c, h
<1>13. IsRoute(u, P[n] + C[m] - Whole(e))
  BY <1>5, <1>6, <1>8, <1>10, <1>11, <1>12 DEF IsRoute
<1>14. ASSUME n >= 2 /\ m >= 2 => <<s[n - 1], e, t[m - 1]>> \notin g.restrictions,
              NEW x \in 1 .. Len(u) - 2
       PROVE  <<u[x], u[x + 1], u[x + 2]>> \notin g.restrictions
  <2>1. CASE x < n - 1
    <3>1. x \in 1 .. n - 2 /\ x \in 1 .. n /\ x + 1 \in 1 .. n /\ x + 2 \in 1 .. n
      BY <1>1, <2>1
    <3>. QED
      BY <1>2, <1>7, <3>1
  <2>2. CASE x = n - 1
    <3>1. n >= 2 /\ m >= 2 /\ x \in 1 .. n /\ x + 1 = n /\ x + 2 \in n .. n + m - 1 /\ m - ((x + 2) - n) = m - 1
      BY <1>1, <1>6, <2>2
    <3>2. u[x] = s[n - 1] /\ u[x + 1] = e /\ u[x + 2] = t[m - 1]
      BY <1>1, <1>7, <2>2, <3>1 DEF e
    <3>. QED
      BY <1>14, <3>1, <3>2
  <2>3. CASE x > n - 1
    <3>1. PICK y \in 1 .. m - 2 : /\ y = m - ((x + 2) - n) /\ y + 1 = m - ((x + 1) - n)
                                  /\ y + 2 = m - (x - n)
      BY <1>1, <1>6, <2>3
    <3>2. x \in n .. n + m - 1 /\ x + 1 \in n .. n + m - 1 /\ x + 2 \in n .. n + m - 1
      BY <1>1, <1>6, <2>3
    <3>3. u[x] = t[y + 2] /\ u[x + 1] = t[y + 1] /\ u[x + 2] = t[y]
      BY <1>7, <3>1, <3>2
    <3>. QED
      BY <1>2, <3>3
  <2>4. x < n - 1 \/ x = n - 1 \/ x > n - 1
    <3>1. n \in Int /\ x \in Int
      BY <1>1
    <3>. QED
      BY <3>1
  <2>. QED
    BY <2>1, <2>2, <2>3, <2>4
<1>. QED
  BY <1>13, <1>14 DEF NoRestricted, n, m, e

----------------------------------------------------------------------------
\* Labels of both trees for an edge are the halves of a route.
LEMMA LabelsMeet ==
  ASSUME GInv, NEW i \in DOMAIN labels["forward"], NEW j \in DOMAIN labels["reverse"],
         labels["reverse"][j].edge = g.opp[labels["forward"][i].edge]
  PROVE  LET u == Halves(i, j)[1] \o Halves(i, j)[2]
             e == labels["forward"][i].edge IN
           /\ IsRoute(u, labels["forward"][i].cost + labels["reverse"][j].cost - Whole(e))
           /\ ~(OnRestriction(e) /\ BridgeRestricted(i, j)) => NoRestricted(u)
<1>1. /\ "forward" \in Directions /\ "reverse" \in Directions /\ IInv /\ Asked /\ g \in Graphs
      /\ TInv("forward") /\ TInv("reverse")
  BY TreeFacts DEF GInv, Directions
<1>2. PICK e \in Edges : e = labels["forward"][i].edge
  BY <1>1, TreeFacts
<1>3. Along("forward", labels["forward"][i].edge) = e /\ Along("reverse", labels["reverse"][j].edge) = e
  <2>1. g.opp[g.opp[e]] = e
    BY <1>1, EdgeFacts
  <2>. QED
    BY <1>2, <2>1 DEF Along
<1>4. PICK s, P : s = Chain("forward")[i] /\ Walk("forward", s, P) /\ s[Len(s)] = e /\ P[Len(s)] = labels["forward"][i].cost
  BY <1>1, <1>3, LabelsAreWalks DEF WalksTo
<1>5. PICK t, C : t = Chain("reverse")[j] /\ Walk("reverse", t, C) /\ t[Len(t)] = e /\ C[Len(t)] = labels["reverse"][j].cost
  BY <1>1, <1>3, LabelsAreWalks DEF WalksTo
<1>6. PICK p : p = labels["reverse"][j].pred
  OBVIOUS
<1>7. PICK v : v = Chain("reverse")[p]
  OBVIOUS
<1>8. t = Append(v, e) /\ v \in Seq(Edges)
  <2>1. t = Append(v, e)
    BY <1>1, <1>3, <1>5, <1>6, <1>7, ChainDefined
  <2>2. CASE p = 0
    <3>1. v = <<>>
      BY <1>1, <1>7, <2>2, ChainDefined
    <3>. QED
      BY <2>1, <3>1
  <2>3. CASE p # 0
    <3>1. p \in DOMAIN labels["reverse"]
      BY <1>1, <1>6, <2>3, TreeFacts
    <3>2. WalksTo("reverse", p)
      BY <1>1, <3>1, LabelsAreWalks
    <3>3. v \in Seq(Edges)
      BY <1>7, <3>2 DEF WalksTo, Walk
    <3>. QED
      BY <2>1, <3>3
  <2>. QED
    BY <2>2, <2>3
<1>9. Halves(i, j) = <<s, Reverse(v)>>
  BY <1>4, <1>6, <1>7 DEF Halves
<1>10. PICK z : z = Reverse(v)
  OBVIOUS
<1>11. /\ z \in Seq(Edges) /\ Len(z) = Len(v) /\ Len(t) = Len(v) + 1 /\ Len(v) \in Nat
       /\ \A y \in 1 .. Len(v) : z[y] = v[(Len(v) - y) + 1] /\ t[y] = v[y]
  <2>1. Len(t) = Len(v) + 1 /\ Len(v) \in Nat /\ \A y \in 1 .. Len(v) : v[y] \in Edges /\ t[y] = v[y]
    BY <1>8
  <2>2. z = [y \in 1 .. Len(v) |-> v[(Len(v) - y) + 1]]
    BY <1>10 DEF Reverse
  <2>3. \A y \in 1 .. Len(v) : (Len(v) - y) + 1 \in 1 .. Len(v)
    BY <2>1
  <2>4. \A y \in 1 .. Len(v) : v[(Len(v) - y) + 1] \in Edges
    BY <2>1, <2>3
  <2>5. z \in [1 .. Len(v) -> Edges]
    BY <2>2, <2>4
  <2>6. z \in Seq(Edges) /\ Len(z) = Len(v)
    BY <2>1, <2>2, <2>5
  <2>. QED
    BY <2>1, <2>2, <2>6
<1>12. PICK u : u = s \o z
  OBVIOUS
<1>13. s \in Seq(Edges) /\ Len(s) \in Nat /\ Len(s) >= 1
  BY <1>4 DEF Walk
<1>14. /\ u \in Seq(Edges) /\ Len(u) = Len(s) + Len(t) - 1
       /\ \A x \in 1 .. Len(s) : u[x] = s[x]
       /\ \A y \in 1 .. Len(v) : u[Len(s) + y] = z[y]
  <2>1. /\ u \in Seq(Edges) /\ Len(u) = Len(s) + Len(z)
        /\ \A x \in 1 .. Len(s) : u[x] = s[x]
        /\ \A y \in 1 .. Len(z) : u[Len(s) + y] = z[y]
    <3>1. z \in Seq(Edges) /\ s \in Seq(Edges) /\ Len(z) \in Nat /\ Len(s) \in Nat
      BY <1>11, <1>13
    <3>2. u \in Seq(Edges) /\ Len(u) = Len(s) + Len(z)
      BY <1>12, <3>1
    <3>3. \A x \in 1 .. Len(s) : u[x] = s[x]
      BY <1>12, <3>1
    <3>4. ASSUME NEW y \in 1 .. Len(z) PROVE u[Len(s) + y] = z[y]
      <4>1. Len(s) + y \in 1 .. Len(s) + Len(z) /\ ~(Len(s) + y <= Len(s)) /\ (Len(s) + y) - Len(s) = y
        BY <3>1
      <4>. QED
        BY <1>12, <3>1, <4>1
    <3>. QED
      BY <3>2, <3>3, <3>4
  <2>2. Len(s) + Len(z) = Len(s) + Len(t) - 1
    BY <1>11, <1>13
  <2>. QED
    BY <1>11, <2>1, <2>2
<1>15. \A y \in 0 .. Len(t) - 1 : u[Len(s) + y] = t[Len(t) - y]
  <2>. SUFFICES ASSUME NEW y \in 0 .. Len(t) - 1 PROVE u[Len(s) + y] = t[Len(t) - y]
    OBVIOUS
  <2>1. CASE y = 0
    <3>1. Len(s) + y = Len(s) /\ Len(t) - y = Len(t) /\ Len(s) \in 1 .. Len(s)
      BY <1>11, <1>13, <2>1
    <3>. QED
      BY <1>4, <1>5, <1>14, <3>1
  <2>2. CASE y # 0
    <3>1. y \in 1 .. Len(v) /\ (Len(v) - y) + 1 \in 1 .. Len(v) /\ Len(t) - y = (Len(v) - y) + 1
      BY <1>11, <2>2
    <3>2. u[Len(s) + y] = z[y] /\ z[y] = v[(Len(v) - y) + 1]
      BY <1>11, <1>14, <3>1
    <3>3. t[(Len(v) - y) + 1] = v[(Len(v) - y) + 1]
      BY <1>11, <3>1
    <3>. QED
      BY <3>1, <3>2, <3>3
  <2>. QED
    BY <2>1, <2>2
<1>16. /\ IsRoute(u, P[Len(s)] + C[Len(t)] - Whole(s[Len(s)]))
       /\ (Len(s) >= 2 /\ Len(t) >= 2 =>
             <<s[Len(s) - 1], s[Len(s)], t[Len(t) - 1]>> \notin g.restrictions)
          => NoRestricted(u)
  <2>1. s[Len(s)] = t[Len(t)] /\ Walk("forward", s, P) /\ Walk("reverse", t, C)
    BY <1>4, <1>5
  <2>2. /\ u \in Seq(Edges) /\ Len(u) = Len(s) + Len(t) - 1
        /\ \A x \in 1 .. Len(s) : u[x] = s[x]
    BY <1>14
  <2>. QED
    BY <1>1, <1>15, <2>1, <2>2, WalksMeet
<1>17. ASSUME Len(s) >= 2, Len(t) >= 2, <<s[Len(s) - 1], s[Len(s)], t[Len(t) - 1]>> \in g.restrictions
       PROVE  OnRestriction(e) /\ BridgeRestricted(i, j)
  <2>. DEFINE h == Len(s)
              near == {x \in DOMAIN u : \A y \in x .. h : OnRestriction(u[y])}
              far == {x \in DOMAIN u : x > h /\ \A y \in h .. x : OnRestriction(u[y])}
  <2>1. BridgeRestricted(i, j) <=>
          \E x \in far : \/ \E y \in (near \cup far) : y < x /\ u[y] = u[x]
                         \/ /\ x - 2 \in near \cup far
                            /\ <<u[x - 2], u[x - 1], u[x]>> \in g.restrictions
    <3>1. Halves(i, j)[1] = s /\ Halves(i, j)[1] \o Halves(i, j)[2] = u
      BY <1>9, <1>10, <1>12
    <3>. QED
      BY <3>1 DEF BridgeRestricted
  <2>2. h \in Nat /\ DOMAIN u = 1 .. Len(u) /\ Len(u) = h + Len(t) - 1 /\ Len(t) \in Nat
    BY <1>11, <1>13, <1>14
  <2>3. u[h - 1] = s[h - 1] /\ u[h] = s[h] /\ u[h + 1] = t[Len(t) - 1] /\ s[h] = e
    <3>1. h - 1 \in 1 .. h /\ h \in 1 .. h /\ 1 \in 0 .. Len(t) - 1
      BY <1>17, <2>2
    <3>. QED
      BY <1>4, <1>14, <1>15, <3>1
  <2>4. OnRestriction(u[h - 1]) /\ OnRestriction(u[h]) /\ OnRestriction(u[h + 1])
    BY <1>17, <2>3 DEF OnRestriction
  <2>. HIDE DEF h
  <2>5. h + 1 \in far
    <3>1. h + 1 \in DOMAIN u /\ h + 1 > h /\ \A y \in h .. h + 1 : y = h \/ y = h + 1
      BY <1>17, <2>2 DEF h
    <3>. QED
      BY <2>4, <3>1
  <2>6. h - 1 \in near
    <3>1. h - 1 \in DOMAIN u /\ \A y \in h - 1 .. h : y = h - 1 \/ y = h
      BY <1>17, <2>2 DEF h
    <3>. QED
      BY <2>4, <3>1
  <2>7. (h + 1) - 2 = h - 1 /\ (h + 1) - 1 = h
    BY <2>2
  <2>8. <<u[h - 1], u[h], u[h + 1]>> \in g.restrictions
    BY <1>17, <2>3 DEF h
  <2>. HIDE DEF near, far
  <2>. QED
    BY <2>1, <2>3, <2>4, <2>5, <2>6, <2>7, <2>8
<1>18. Halves(i, j)[1] \o Halves(i, j)[2] = u
  BY <1>9, <1>10, <1>12
<1>. QED
  BY <1>2, <1>4, <1>5, <1>16, <1>17, <1>18

----------------------------------------------------------------------------
\* A connection that becomes the best one is a route over labels of both trees.
LEMMA ConnectionIsRoute ==
  ASSUME GInv, [Next]_vars, best' # best
  PROVE  IsRoute(FormPath', best'.cost) /\ NoRestricted(FormPath')
<1>1. PICK d \in Directions : \E q \in queue[d] : Connect(d, q) /\ best' # best
  BY DEF Next, vars, SetOrigin, SetDestination, Seed, Exhausted, Stop, PopOther,
         Choose, Expanding, ExpandBlocked, ExpandEdge, SkipBack, UTurn, EndExpand
<1>2. PICK q \in queue[d] : Connect(d, q)
  BY <1>1
<1>3. /\ IInv /\ Asked /\ TInv(d) /\ TInv(Other(d)) /\ Other(d) \in Directions /\ g \in Graphs
      /\ q \in DOMAIN labels[d] /\ labels[d][q].edge \in Edges
  BY TreeFacts, Others DEF GInv
<1>4. /\ Pop(d, q) /\ Connects(d, q) /\ Meets(d, q) /\ labels' = labels
      /\ g' = g /\ origin' = origin /\ destination' = destination
      /\ best' = [edge |-> Along(d, labels[d][q].edge), cost |-> ConnectionCost(d, q)]
  BY <1>2 DEF Connect, Connects, query
<1>5. PICK x : x = OppStatus(d, q).idx
  OBVIOUS
<1>6. x \in DOMAIN labels[Other(d)] /\ labels[Other(d)][x].edge = g.opp[labels[d][q].edge]
      /\ labels[Other(d)][x] = Opposite(d, q)
  <2>1. OppStatus(d, q).set # "unreached"
    BY <1>4 DEF Meets
  <2>. QED
    BY <1>3, <1>5, <2>1, OppositeFacts DEF GInv, Opposite
<1>7. /\ status[d][labels[d][q].edge].idx = q
      /\ status[Other(d)][g.opp[labels[d][q].edge]].idx = x
  BY <1>3, <1>5 DEF TInv, QueuedIsTemporary, OppStatus
<1>8. \A t \in Directions, f \in Edges : status'[t][f].idx = status[t][f].idx
  <2>1. Pops(d, q) /\ Stays(Other(d))
    BY <1>3, <1>4, PopMoves
  <2>2. \A t \in Directions : t = d \/ t = Other(d)
    BY Others
  <2>. QED
    BY <2>1, <2>2 DEF Pops, Stays
<1>9. PICK i, j, e : /\ i = IF d = "forward" THEN q ELSE x
                     /\ j = IF d = "forward" THEN x ELSE q
                     /\ e = Along(d, labels[d][q].edge)
  OBVIOUS
<1>10. /\ i \in DOMAIN labels["forward"] /\ j \in DOMAIN labels["reverse"]
       /\ labels["forward"][i].edge = e /\ labels["reverse"][j].edge = g.opp[e]
       /\ status["forward"][e].idx = i /\ status["reverse"][g.opp[e]].idx = j
       /\ e \in Edges /\ g.opp[e] \in Edges
  <2>1. \A f \in Edges : g.opp[f] \in Edges /\ g.opp[g.opp[f]] = f
    BY <1>3, EdgeFacts
  <2>2. CASE d = "forward"
    BY <1>3, <1>6, <1>7, <1>9, <2>1, <2>2, SMTT(30) DEF Along, Other
  <2>3. CASE d = "reverse"
    BY <1>3, <1>6, <1>7, <1>9, <2>1, <2>3 DEF Along, Other
  <2>. QED
    BY <2>2, <2>3 DEF Directions
<1>11. best'.edge = e /\ best'.cost = ConnectionCost(d, q)
  BY <1>4, <1>9
<1>12. ConnectionCost(d, q) = labels["forward"][i].cost + labels["reverse"][j].cost - Whole(e)
  <2>1. /\ labels[d][q].cost \in Nat /\ Opposite(d, q).cost \in Nat
        /\ ConnectionCost(d, q) = labels[d][q].cost + Opposite(d, q).cost - Whole(e)
    BY <1>4, <1>9, ConnectionAdds
  <2>2. Whole(e) \in Nat
    BY <1>3, <1>10, EdgeFacts
  <2>. DEFINE a == labels[d][q].cost
              b == Opposite(d, q).cost
              v == labels["forward"][i].cost
              w == labels["reverse"][j].cost
              y == Whole(e)
              z == ConnectionCost(d, q)
  <2>3. (v = a /\ w = b) \/ (v = b /\ w = a)
    BY <1>3, <1>6, <1>9, Zenon DEF Directions, Other
  <2>4. a \in Nat /\ b \in Nat /\ y \in Nat /\ z = a + b - y
    BY <2>1, <2>2
  <2>. HIDE DEF a, b, v, w, y, z
  <2>5. z = v + w - y
    BY <2>3, <2>4
  <2>. QED
    BY <2>5 DEF v, w, y, z
<1>13. ~(OnRestriction(e) /\ BridgeRestricted(i, j))
  <2>1. \A f \in Edges : g.opp[g.opp[f]] = f
    BY <1>3, EdgeFacts
  <2>2. OnRestriction(e) <=> OnRestriction(labels[d][q].edge)
    <3>1. e = labels[d][q].edge \/ (e = g.opp[labels[d][q].edge] /\ g.opp[e] = labels[d][q].edge)
      BY <1>3, <1>9, <2>1 DEF Along
    <3>2. \A a, b : {a, b} = {b, a}
      OBVIOUS
    <3>3. {e, g.opp[e]} = {labels[d][q].edge, g.opp[labels[d][q].edge]}
      BY <3>1, <3>2
    <3>. QED
      BY <3>3 DEF OnRestriction
  <2>3. ~(OnRestriction(labels[d][q].edge)
          /\ IF d = "forward" THEN BridgeRestricted(q, x) ELSE BridgeRestricted(x, q))
    BY <1>4, <1>5 DEF Connects
  <2>. QED
    BY <1>9, <2>2, <2>3
<1>. DEFINE u == Halves(i, j)[1] \o Halves(i, j)[2]
<1>14. IsRoute(u, best'.cost) /\ NoRestricted(u)
  BY <1>10, <1>11, <1>12, <1>13, LabelsMeet
<1>15. FormPath' = u
  <2>1. status'["forward"][best'.edge].idx = i /\ status'["reverse"][g'.opp[best'.edge]].idx = j
    BY <1>4, <1>8, <1>10, <1>11 DEF Directions
  <2>2. \A a, b : Halves(a, b)' = Halves(a, b)
    BY <1>4 DEF Halves, Chain, Along
  <2>3. FormPath' = (Halves(i, j)[1] \o Halves(i, j)[2])'
    BY <2>1 DEF FormPath
  <2>. QED
    BY <2>2, <2>3
<1>. HIDE DEF u
<1>. QED
  BY <1>14, <1>15

----------------------------------------------------------------------------
\* What FormPath returns where nothing is restricted.
LEMMA BestIsRoute ==
  ASSUME FInv, g.restrictions = {}, best.edge # 0
  PROVE  IsRoute(FormPath, best.cost)
<1>1. /\ GInv /\ IInv /\ Asked /\ g \in Graphs /\ "forward" \in Directions /\ "reverse" \in Directions
      /\ FTree("forward") /\ FTree("reverse") /\ best.edge \in Edges
      /\ Stands("forward", best.edge) /\ Stands("reverse", g.opp[best.edge])
      /\ best.cost = Joined("forward", best.edge)
  BY TreeFacts DEF FInv, GInv, BestStands, Directions
<1>2. PICK e \in Edges : e = best.edge
  BY <1>1
<1>3. PICK f \in Edges : f = g.opp[e]
  BY <1>1, EdgeFacts
<1>4. PICK i, j : i = status["forward"][e].idx /\ j = status["reverse"][f].idx
  OBVIOUS
<1>5. /\ i \in DOMAIN labels["forward"] /\ j \in DOMAIN labels["reverse"]
      /\ labels["forward"][i].edge = e /\ labels["reverse"][j].edge = f
  <2>1. Reached("forward", e) /\ Reached("reverse", f)
    BY <1>1, <1>2, <1>3 DEF Stands, Settled, Reached
  <2>. QED
    BY <1>1, <1>4, <2>1, ReachedFacts DEF LabelOf
<1>6. best.cost = labels["forward"][i].cost + labels["reverse"][j].cost - Whole(e)
  BY <1>1, <1>2, <1>3, <1>4 DEF Joined, Cost, LabelOf, Along, Other
<1>7. FormPath = Halves(i, j)[1] \o Halves(i, j)[2]
  BY <1>2, <1>3, <1>4 DEF FormPath
<1>. QED
  BY <1>1, <1>3, <1>5, <1>6, <1>7, LabelsMeet

\* How the search ends.
PathInv ==
  /\ pc = "failed" => best.edge = 0
  /\ pc = "done" /\ g.restrictions = {} => IsRoute(path, best.cost)

\* Every step keeps it: FormPath ends the search with the best route, the end of the queues
\* without one.
LEMMA NextPathInv ==
  ASSUME FInv, PathInv, [Next]_vars
  PROVE  PathInv'
<1>1. IInv /\ g' = g /\ origin' = origin /\ destination' = destination /\ side \in Directions
  BY StepMoves DEF FInv, GInv, IInv, TypeOK
<1>2. ASSUME NEW v, NEW c PROVE IsRoute(v, c)' <=> IsRoute(v, c)
  <2>1. \A a, b : RouteCost(v, a, b)' = RouteCost(v, a, b)
    BY <1>1 DEF RouteCost
  <2>. QED
    BY <1>1, <2>1, SMTT(30) DEF IsRoute
<1>3. \/ pc' \notin {"done", "failed"}
      \/ UNCHANGED vars
      \/ best' = best /\ pc' = "done" /\ best.edge # 0 /\ path' = FormPath
      \/ best' = best /\ pc' = "failed" /\ best.edge = 0
  <2>1. CASE SetOrigin \/ SetDestination \/ Choose
    BY <2>1 DEF SetOrigin, SetDestination, Choose
  <2>2. ASSUME NEW d \in Directions, Exhausted(d)
        PROVE  \/ best' = best /\ pc' = "done" /\ best.edge # 0 /\ path' = FormPath
               \/ best' = best /\ pc' = "failed" /\ best.edge = 0
    BY <2>2 DEF Exhausted, Done
  <2>3. ASSUME NEW d \in Directions, NEW i \in queue[d], Stop(d, i)
        PROVE  best' = best /\ pc' = "done" /\ best.edge # 0 /\ path' = FormPath
    BY <2>3 DEF Stop, TooDear, Done
  <2>4. ASSUME NEW d \in Directions, NEW i \in queue[d], Connect(d, i) \/ PopOther(d, i)
        PROVE  pc' \notin {"done", "failed"}
    BY <2>4 DEF Connect, PopOther, Directions
  <2>5. CASE ExpandBlocked \/ ExpandEdge \/ SkipBack \/ UTurn \/ EndExpand
    BY <1>1, <2>5 DEF Expanding, ExpandBlocked, ExpandEdge, SkipBack, UTurn, EndExpand, Directions
  <2>. QED
    BY <2>1, <2>2, <2>3, <2>4, <2>5 DEF Next
<1>4. CASE pc' \notin {"done", "failed"}
  BY <1>4 DEF PathInv
<1>5. CASE UNCHANGED vars
  <2>1. path' = path /\ best' = best /\ pc' = pc
    BY <1>5 DEF vars
  <2>2. PICK v, c : v = path /\ c = best.cost
    OBVIOUS
  <2>. QED
    BY <1>1, <1>2, <2>1, <2>2 DEF PathInv
<1>6. CASE best' = best /\ pc' = "done" /\ best.edge # 0 /\ path' = FormPath
  <2>1. PICK v, c : v = FormPath /\ c = best.cost
    OBVIOUS
  <2>2. g.restrictions = {} => IsRoute(v, c)
    BY <1>6, <2>1, BestIsRoute
  <2>. QED
    BY <1>1, <1>2, <1>6, <2>1, <2>2 DEF PathInv
<1>7. CASE best' = best /\ pc' = "failed" /\ best.edge = 0
  BY <1>7 DEF PathInv
<1>. QED
  BY <1>3, <1>4, <1>5, <1>6, <1>7

\* The search never leaves both invariants.
LEMMA PathInvHolds == Spec => [](SInv /\ PathInv)
<1>1. Init => SInv /\ PathInv
  BY InitSInv DEF PathInv, Init
<1>2. SInv /\ PathInv /\ [Next]_vars => SInv' /\ PathInv'
  BY NextSInv, NextPathInv DEF SInv
<1>. QED
  BY <1>1, <1>2, PTL DEF Spec

----------------------------------------------------------------------------
\* A route that is cheaper than what cannot be reached is beaten by what the search returns.
LEMMA ReferenceIsBeaten ==
  ASSUME SInv, pc \in {"done", "failed"}, g.restrictions = {},
         Cheapest(g, origin, destination) < Unreachable
  PROVE  /\ best.edge # 0
         /\ NeverOverestimates(g) /\ EdgesWithinThreshold =>
              best.cost <= Cheapest(g, origin, destination)
<1>1. g \in Graphs /\ Asked /\ GInv /\ IsLocation(g, origin) /\ IsLocation(g, destination)
  BY DEF SInv, FInv, GInv, IInv, TypeOK
<1>2. PICK R : Proper(R) /\ R.c + R.n * Slack <= Cheapest(g, origin, destination)
  BY <1>1, ReferenceIsProper
<1>3. Beaten(R)
  BY <1>2 DEF SInv, Safe
<1>4. R.c \in Int /\ R.n * Slack \in Nat /\ best.cost \in Int /\ Cheapest(g, origin, destination) \in Nat
  BY <1>1, <1>2, SlackTimes, BestType, CheapestIsARoute DEF Proper
<1>. DEFINE a == R.c + R.n * Slack
            c == Cheapest(g, origin, destination)
            b == best.cost
<1>5. a \in Int /\ c \in Int /\ b \in Int /\ a <= c
  BY <1>2, <1>4
<1>6. b <= a => b <= c
  <2>. HIDE DEF a, b, c
  <2>. QED
    BY <1>5
<1>. QED
  BY <1>3, <1>6 DEF Beaten

\* The search fails only if there is no route.
THEOREM NoRouteIsMissed == Spec => []NoRouteMissed
<1>1. SInv /\ PathInv => NoRouteMissed
  <2>. SUFFICES ASSUME SInv, PathInv, pc = "failed", g.restrictions = {},
                       ~(Cheapest(g, origin, destination) >= Unreachable)
                PROVE  FALSE
    BY DEF NoRouteMissed
  <2>1. Cheapest(g, origin, destination) \in Nat /\ Unreachable \in Nat
    BY CheapestIsARoute, SearchAssumption DEF SInv, FInv, GInv, IInv, TypeOK
  <2>2. Cheapest(g, origin, destination) < Unreachable
    BY <2>1
  <2>. QED
    BY <2>2, ReferenceIsBeaten DEF PathInv
<1>. QED
  BY <1>1, PathInvHolds, PTL

\* GetBestPath returns a cheapest route, if no edge costs more than half of kThresholdDelta: with
\* no restriction in the network and estimates that are lower bounds, every route is behind labels
\* that the threshold, the pruning and the connections leave alive until a route at least as good
\* was found.
THEOREM BestRouteIsFound ==
  ASSUME EdgesWithinThreshold
  PROVE  Spec => []BestRoute
<1>1. SInv /\ PathInv => BestRoute
  BY ReferenceIsBeaten DEF BestRoute, PathInv
<1>. QED
  BY <1>1, PathInvHolds, PTL

\* Where nothing is restricted, FormPath returns a route from the origin to the destination that
\* costs what the search says.
THEOREM RouteReturnedHolds ==
  Spec => [](pc = "done" /\ g.restrictions = {} => IsRoute(path, best.cost))
<1>1. PathInv => (pc = "done" /\ g.restrictions = {} => IsRoute(path, best.cost))
  BY DEF PathInv
<1>. QED
  BY <1>1, PathInvHolds, PTL

\* Every connection that SetForwardConnection or SetReverseConnection takes for the best one is a
\* route over labels of both trees that costs what it says and meets no restriction.
THEOREM ConnectionsAlwaysHold == Spec => ConnectionsHold
<1>1. GInv /\ [Next]_vars => GInv'
  BY NextGInv
<1>2. GInv /\ [Next]_vars => [best' # best => IsRoute(FormPath', best'.cost) /\ NoRestricted(FormPath')]_vars
  BY ConnectionIsRoute
<1>. QED
  BY <1>1, <1>2, InitGInv, PTL DEF Spec, ConnectionsHold
====
