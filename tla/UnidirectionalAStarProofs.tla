----------------------- MODULE UnidirectionalAStarProofs -----------------------
(***************************************************************************)
(* What the route search keeps for every road network, every pair of       *)
(* locations and every costing: labels add up along their predecessors,    *)
(* temporary labels are in the queue, restrictions are obeyed, the search  *)
(* ends; without restrictions it misses no route and arrives with a        *)
(* cheapest one.                                                           *)
(*                                                                         *)
(* IInv: predecessors are labels that have left the queue, updates change  *)
(* only labels in the queue.  EInv counts the iterations.  RInv says what  *)
(* was labelled and in which buckets: every way on from an expanded label  *)
(* was taken, by a label that costs no more or came out of the queue       *)
(* before it.                                                              *)
(*                                                                         *)
(* First come facts about road networks: where locations are, what         *)
(* Cheapest computes, buckets, and the heuristic along an edge.            *)
(***************************************************************************)
EXTENDS UnidirectionalAStar, FiniteSetTheorems, WellFoundedInduction, SequenceTheorems, TLAPS

\* A location is a set of candidates on edges of the network.
IsLocation(gr, loc) ==
  /\ loc # {}
  /\ loc \subseteq [edge : DOMAIN gr.head, pos : 0 .. Parts]

----------------------------------------------------------------------------
\* Products of natural numbers are natural numbers: costs are not negative.
LEMMA Product == \A a, b \in Nat : a * b \in Nat
  BY SMT

\* EdgeCost: the cost of a part of an edge is a natural number, whatever the canopy.
LEMMA PartCostType ==
  ASSUME NEW gr \in Graphs, NEW e \in DOMAIN gr.head
  PROVE  PartCost(gr, e) \in Nat
<1>1. gr.len[e] \in Nat /\ gr.canopy[e] \in Nat
  BY SearchAssumption DEF IsGraph
<1>2. 10 - (IF gr.canopy[e] < 9 THEN gr.canopy[e] ELSE 9) \in Nat
  BY <1>1
<1>. QED
  BY <1>1, <1>2, Product DEF PartCost

\* Locations, as correlate_node and correlate_edge make them, are on the network.
LEMMA LocationsAreLocations ==
  ASSUME NEW gr \in Graphs, NEW loc \in Locations(gr)
  PROVE  IsLocation(gr, loc)
<1>1. /\ gr.access \subseteq DOMAIN gr.head
      /\ \A e \in DOMAIN gr.head : gr.opp[e] \in DOMAIN gr.head
      /\ Parts \in Nat \ {0}
  BY SearchAssumption DEF IsGraph
<1>2. CASE \E m \in DOMAIN gr.x : loc = AtNode(gr, m)
  BY <1>1, <1>2 DEF Locations, AtNode, IsLocation
<1>3. CASE \E e \in gr.access, p \in 1 .. Parts - 1 : loc = OnEdge(gr, e, p)
  <2>1. PICK e \in gr.access, p \in 1 .. Parts - 1 : loc = OnEdge(gr, e, p)
    BY <1>3
  <2>2. p \in 0 .. Parts /\ Parts - p \in 0 .. Parts
    BY <1>1
  <2>. QED
    BY <1>1, <2>1, <2>2 DEF Locations, OnEdge, IsLocation
<1>. QED
  BY <1>2, <1>3 DEF Locations

\* Locations have a place on the line of the nodes.
LEMMA PlaceType ==
  ASSUME NEW gr \in Graphs, NEW loc, IsLocation(gr, loc)
  PROVE  Place(gr, loc) \in Int
<1>. DEFINE c == CHOOSE c \in loc : TRUE
<1>1. c.edge \in DOMAIN gr.head /\ c.pos \in 0 .. Parts
  BY DEF IsLocation
<1>2. gr.x[gr.tail[c.edge]] \in Int /\ gr.x[gr.head[c.edge]] \in Int
  BY <1>1, SearchAssumption DEF IsGraph
<1>3. Parts \in Nat \ {0}
  BY SearchAssumption
<1>4. \A a, b, p \in Int : ((Parts - p) * a + p * b) \div Parts \in Int
  BY <1>3
<1>. HIDE DEF c
<1>5. ((Parts - c.pos) * gr.x[gr.tail[c.edge]] + c.pos * gr.x[gr.head[c.edge]]) \div Parts \in Int
  BY <1>1, <1>2, <1>3, <1>4
<1>. QED
  BY <1>5 DEF Place, c

\* A location has finitely many candidates, as a network has finitely many edges.
LEMMA LocationsAreFinite ==
  ASSUME NEW gr \in Graphs, NEW loc, IsLocation(gr, loc)
  PROVE  IsFiniteSet(loc)
<1>. DEFINE E == DOMAIN gr.head
            P == 0 .. Parts
            f == [p \in E \X P |-> [edge |-> p[1], pos |-> p[2]]]
<1>1. IsFiniteSet(E) /\ IsFiniteSet(P)
  BY SearchAssumption, FS_Interval DEF IsGraph
<1>2. IsFiniteSet(E \X P)
  BY <1>1, FS_Product
<1>3. \A c \in [edge : E, pos : P] : \E p \in E \X P : f[p] = c
  <2>. SUFFICES ASSUME NEW c \in [edge : E, pos : P] PROVE \E p \in E \X P : f[p] = c
    OBVIOUS
  <2>1. <<c.edge, c.pos>> \in E \X P /\ f[<<c.edge, c.pos>>] = c
    OBVIOUS
  <2>. QED
    BY <2>1
<1>4. f \in Surjection(E \X P, [edge : E, pos : P])
  BY <1>3 DEF Surjection
<1>5. IsFiniteSet([edge : E, pos : P])
  BY <1>2, <1>4, FS_Surjection
<1>. QED
  BY <1>5, FS_Subset DEF IsLocation

----------------------------------------------------------------------------
\* A set of natural numbers has a least one.
LEMMA LeastOf ==
  ASSUME NEW S \in SUBSET Nat, S # {}
  PROVE  Min(S) \in S /\ \A y \in S : Min(S) <= y
<1>1. \E x \in S : \A y \in S : ~ (<<y, x>> \in OpToRel(<, Nat))
  BY NatLessThanWellFounded, WFMin, Zenon
<1>2. PICK x \in S : \A y \in S : ~(y < x)
  BY <1>1 DEF OpToRel
<1>3. x \in S /\ \A y \in S : x <= y
  BY <1>2
<1>. QED
  BY <1>3 DEF Min

\* Induction over the natural numbers in a set.
LEMMA SetInduction ==
  ASSUME NEW S, 0 \in S, \A i \in Nat : i \in S => i + 1 \in S
  PROVE  Nat \subseteq S
<1>. DEFINE T == {i \in Nat : i \notin S}
<1>. SUFFICES ASSUME T # {} PROVE FALSE
  OBVIOUS
<1>1. T \in SUBSET Nat
  OBVIOUS
<1>2. Min(T) \in T /\ \A y \in T : Min(T) <= y
  <2>. HIDE DEF T
  <2>. QED
    BY <1>1, LeastOf
<1>3. PICK x \in T : \A y \in T : x <= y
  BY <1>2
<1>4. x - 1 \in Nat /\ x - 1 \in S
  BY <1>3
<1>. QED
  BY <1>3, <1>4

----------------------------------------------------------------------------
\* The ends of routes of one edge.
Starts(gr, from) ==
  {[edge |-> e, cost |-> Min({Unreachable} \cup
      {PartCost(gr, e) * (Parts - c.pos) + Slack : c \in {o \in from : o.edge = e}})] :
     e \in DOMAIN gr.head}

\* The reference is a recursive function: what it is for no edge and for one more.
LEMMA RouteEndsDefined ==
  ASSUME NEW gr \in Graphs, NEW from
  PROVE  \E ends : /\ ends[0] = Starts(gr, from)
                   /\ \A i \in 1 .. Cardinality(DOMAIN gr.head) :
                        ends[i] = OneMore(gr, ends[i - 1])
                   /\ RouteEnds(gr, from) = ends[Cardinality(DOMAIN gr.head)]
<1>. DEFINE N == Cardinality(DOMAIN gr.head)
            Z == Starts(gr, from)
            Is(f, m) == f = [i \in 0 .. m |-> IF i = 0 THEN Z ELSE OneMore(gr, f[i - 1])]
            S == {m \in Nat : \E f : Is(f, m)}
<1>1. N \in Nat
  BY SearchAssumption, FS_CardinalityType DEF IsGraph
<1>2. 0 \in S
  <2>. DEFINE f == [i \in 0 .. 0 |-> Z]
  <2>1. f = [i \in 0 .. 0 |-> IF i = 0 THEN Z ELSE OneMore(gr, f[i - 1])]
    OBVIOUS
  <2>. QED
    BY <2>1
<1>3. ASSUME NEW m \in Nat, m \in S PROVE m + 1 \in S
  <2>1. PICK f : Is(f, m)
    BY <1>3
  <2>. DEFINE h == [i \in 0 .. m + 1 |-> IF i = 0 THEN Z ELSE OneMore(gr, f[i - 1])]
  <2>2. \A i \in 0 .. m : h[i] = f[i]
    BY <2>1
  <2>. DEFINE hh == [i \in 0 .. m + 1 |-> IF i = 0 THEN Z ELSE OneMore(gr, h[i - 1])]
  <2>3. \A i \in 0 .. m + 1 : hh[i] = h[i]
    <3>. HIDE DEF Z
    <3>. SUFFICES ASSUME NEW i \in 0 .. m + 1 PROVE hh[i] = h[i]
      OBVIOUS
    <3>1. CASE i = 0
      BY <3>1
    <3>2. CASE i # 0
      <4>1. i - 1 \in 0 .. m
        BY <3>2
      <4>2. h[i - 1] = f[i - 1]
        BY <2>2, <4>1
      <4>. HIDE DEF h
      <4>3. hh[i] = OneMore(gr, h[i - 1])
        BY <3>2
      <4>4. h[i] = OneMore(gr, f[i - 1])
        BY <3>2 DEF h
      <4>. QED
        BY <4>2, <4>3, <4>4
    <3>. QED
      BY <3>1, <3>2
  <2>4. h = hh
    BY <2>3
  <2>5. Is(h, m + 1)
    BY <2>4
  <2>. HIDE DEF h, Is
  <2>6. \E z : Is(z, m + 1)
    BY <2>5
  <2>. QED
    BY <2>6
<1>4. N \in S
  BY <1>1, <1>2, <1>3, SetInduction
<1>. DEFINE ends == CHOOSE f : Is(f, N)
<1>5. Is(ends, N)
  BY <1>4
<1>6. RouteEnds(gr, from) = ends[N]
  BY DEF RouteEnds, Starts
<1>7. ends[0] = Z /\ \A i \in 1 .. N : ends[i] = OneMore(gr, ends[i - 1])
  <2>. HIDE DEF ends, N, Z
  <2>. QED
    BY <1>1, <1>5
<1>. QED
  BY <1>6, <1>7

\* What holds of the ends of routes of one edge, and of one more edge if it holds of the
\* others, holds of the ends of all cheapest routes.
LEMMA RouteEndsWithin ==
  ASSUME NEW gr \in Graphs, NEW from, IsLocation(gr, from),
         NEW Q \in SUBSET [edge : DOMAIN gr.head, cost : Nat],
         \A e \in DOMAIN gr.head : \A c \in Nat :
           c >= Unreachable => [edge |-> e, cost |-> c] \in Q,
         \A o \in from :
           [edge |-> o.edge, cost |-> PartCost(gr, o.edge) * (Parts - o.pos) + Slack] \in Q,
         \A r \in Q : \A f \in DOMAIN gr.head :
           Follows(gr, r.edge, f) =>
             [edge |-> f, cost |-> r.cost + gr.penalty[r.edge][f]
                                   + Parts * PartCost(gr, f) + Slack] \in Q
  PROVE  RouteEnds(gr, from) \subseteq Q
<1>. DEFINE E == DOMAIN gr.head
            N == Cardinality(E)
<1>1. N \in Nat
  BY SearchAssumption, FS_CardinalityType DEF IsGraph
<1>2. /\ Unreachable \in Nat /\ Slack \in Nat /\ Parts \in Nat
      /\ \A e \in E : PartCost(gr, e) \in Nat /\ Parts * PartCost(gr, e) \in Nat
      /\ \A e, f \in E : gr.penalty[e][f] \in Nat
      /\ \A o \in from : o.edge \in E /\ PartCost(gr, o.edge) * (Parts - o.pos) \in Nat
  <2>1. Unreachable \in Nat /\ Slack \in Nat /\ Parts \in Nat
    BY SearchAssumption DEF Slack
  <2>2. \A e \in E : PartCost(gr, e) \in Nat /\ Parts * PartCost(gr, e) \in Nat
    BY <2>1, PartCostType, Product
  <2>3. \A o \in from : o.edge \in E /\ Parts - o.pos \in Nat
    BY <2>1 DEF IsLocation
  <2>4. \A e, f \in E : gr.penalty[e][f] \in Nat
    BY SearchAssumption DEF IsGraph
  <2>. QED
    BY <2>1, <2>2, <2>3, <2>4, Product
<1>3. PICK ends : /\ ends[0] = Starts(gr, from)
                  /\ \A i \in 1 .. N : ends[i] = OneMore(gr, ends[i - 1])
                  /\ RouteEnds(gr, from) = ends[N]
  BY RouteEndsDefined
<1>. DEFINE Good(R) == R \subseteq Q /\ \A e \in E : \E x \in R : x.edge = e
            S == {i \in Nat : i <= N => Good(ends[i])}
<1>4. Good(Starts(gr, from))
  <2>. DEFINE costs(e) == {Unreachable} \cup {PartCost(gr, e) * (Parts - c.pos) + Slack :
                             c \in {o \in from : o.edge = e}}
              end(e) == [edge |-> e, cost |-> Min(costs(e))]
  <2>1. ASSUME NEW e \in E PROVE end(e) \in Q
    <3>1. costs(e) \in SUBSET Nat /\ costs(e) # {}
      BY <1>2
    <3>2. Min(costs(e)) \in costs(e)
      <4>. HIDE DEF costs
      <4>. QED
        BY <3>1, LeastOf
    <3>. DEFINE least == Min(costs(e))
    <3>. HIDE DEF least
    <3>3. [edge |-> e, cost |-> least] \in Q
      <4>1. CASE least = Unreachable
        BY <1>2, <4>1
      <4>2. CASE least # Unreachable
        <5>1. PICK c \in from : c.edge = e /\ least = PartCost(gr, e) * (Parts - c.pos) + Slack
          BY <3>2, <4>2 DEF least
        <5>. QED
          BY <5>1
      <4>. QED
        BY <4>1, <4>2
    <3>. QED
      BY <3>3 DEF least
  <2>2. Starts(gr, from) = {end(e) : e \in E}
    BY DEF Starts
  <2>3. \A e \in E : end(e).edge = e
    OBVIOUS
  <2>. HIDE DEF end
  <2>. QED
    BY <2>1, <2>2, <2>3
<1>5. ASSUME NEW R, Good(R) PROVE Good(OneMore(gr, R))
  <2>. DEFINE old(f) == {r.cost : r \in {x \in R : x.edge = f}}
              new(f) == {r.cost + gr.penalty[r.edge][f] + Parts * PartCost(gr, f) + Slack :
                           r \in {x \in R : Follows(gr, x.edge, f)}}
              end(f) == [edge |-> f, cost |-> Min(old(f) \cup new(f))]
  <2>1. ASSUME NEW f \in E PROVE end(f) \in Q
    <3>1. \A r \in R : r \in Q /\ r.edge \in E /\ r.cost \in Nat /\ r = [edge |-> r.edge, cost |-> r.cost]
      BY <1>5
    <3>2. old(f) \in SUBSET Nat /\ old(f) # {}
      BY <1>5, <3>1
    <3>3. new(f) \in SUBSET Nat
      BY <1>2, <3>1
    <3>4. Min(old(f) \cup new(f)) \in old(f) \cup new(f)
      <4>. HIDE DEF old, new
      <4>. QED
        BY <3>2, <3>3, LeastOf
    <3>. DEFINE least == Min(old(f) \cup new(f))
    <3>. HIDE DEF least
    <3>5. [edge |-> f, cost |-> least] \in Q
      <4>1. CASE least \in old(f)
        <5>1. PICK r \in R : r.edge = f /\ least = r.cost
          BY <4>1
        <5>. QED
          BY <3>1, <5>1
      <4>2. CASE least \in new(f)
        <5>1. PICK r \in R : /\ Follows(gr, r.edge, f)
                             /\ least = r.cost + gr.penalty[r.edge][f]
                                        + Parts * PartCost(gr, f) + Slack
          BY <4>2
        <5>. QED
          BY <3>1, <5>1
      <4>. QED
        BY <3>4, <4>1, <4>2 DEF least
    <3>. QED
      BY <3>5 DEF least
  <2>2. OneMore(gr, R) = {end(f) : f \in E}
    BY DEF OneMore
  <2>3. \A f \in E : end(f).edge = f
    OBVIOUS
  <2>. HIDE DEF end
  <2>. QED
    BY <2>1, <2>2, <2>3
<1>6. 0 \in S
  BY <1>3, <1>4
<1>7. ASSUME NEW i \in Nat, i \in S PROVE i + 1 \in S
  <2>. SUFFICES ASSUME i + 1 <= N PROVE Good(ends[i + 1])
    OBVIOUS
  <2>1. Good(ends[i])
    BY <1>1, <1>7
  <2>2. ends[i + 1] = OneMore(gr, ends[i])
    <3>1. i + 1 \in 1 .. N /\ (i + 1) - 1 = i
      BY <1>1
    <3>. QED
      BY <1>3, <3>1
  <2>. HIDE DEF Good
  <2>. QED
    BY <1>5, <2>1, <2>2
<1>8. Good(ends[N])
  <2>1. Nat \subseteq S
    BY <1>6, <1>7, SetInduction
  <2>. QED
    BY <1>1, <2>1
<1>. QED
  BY <1>3, <1>8

\* Ends of routes are edges and costs.
LEMMA RouteEndsType ==
  ASSUME NEW gr \in Graphs, NEW from, IsLocation(gr, from)
  PROVE  RouteEnds(gr, from) \subseteq [edge : DOMAIN gr.head, cost : Nat]
<1>. DEFINE Q == [edge : DOMAIN gr.head, cost : Nat]
<1>1. Slack \in Nat /\ Parts \in Nat
  BY SearchAssumption DEF Slack
<1>2. \A e \in DOMAIN gr.head : PartCost(gr, e) \in Nat /\ Parts * PartCost(gr, e) \in Nat
  BY <1>1, PartCostType, Product
<1>3. \A e, f \in DOMAIN gr.head : gr.penalty[e][f] \in Nat
  BY SearchAssumption DEF IsGraph
<1>4. \A o \in from : o.edge \in DOMAIN gr.head /\ PartCost(gr, o.edge) * (Parts - o.pos) \in Nat
  <2>1. \A o \in from : o.edge \in DOMAIN gr.head /\ Parts - o.pos \in Nat
    BY <1>1 DEF IsLocation
  <2>. QED
    BY <1>2, <2>1, Product
<1>5. \A o \in from :
        [edge |-> o.edge, cost |-> PartCost(gr, o.edge) * (Parts - o.pos) + Slack] \in Q
  BY <1>1, <1>4
<1>6. \A r \in Q : \A f \in DOMAIN gr.head :
        [edge |-> f, cost |-> r.cost + gr.penalty[r.edge][f] + Parts * PartCost(gr, f) + Slack] \in Q
  BY <1>1, <1>2, <1>3
<1>. QED
  BY <1>5, <1>6, RouteEndsWithin

\* What can be reached at all is reached on one edge or along several.
LEMMA CheapestIsARoute ==
  ASSUME NEW gr \in Graphs, NEW from, IsLocation(gr, from), NEW to, IsLocation(gr, to)
  PROVE  /\ Cheapest(gr, from, to) \in Nat
         /\ \/ Cheapest(gr, from, to) = Unreachable
            \/ \E o \in from, d \in to :
                 /\ o.edge = d.edge /\ o.pos <= d.pos
                 /\ Cheapest(gr, from, to) = PartCost(gr, o.edge) * (d.pos - o.pos) + Slack
            \/ \E r \in RouteEnds(gr, from), d \in to :
                 /\ Follows(gr, r.edge, d.edge)
                 /\ Cheapest(gr, from, to) = r.cost + gr.penalty[r.edge][d.edge]
                                             + PartCost(gr, d.edge) * d.pos + Slack
<1>. DEFINE
       direct == {PartCost(gr, p[1].edge) * (p[2].pos - p[1].pos) + Slack :
                   p \in {q \in from \X to : q[1].edge = q[2].edge /\ q[1].pos <= q[2].pos}}
       along == {p[1].cost + gr.penalty[p[1].edge][p[2].edge]
                + PartCost(gr, p[2].edge) * p[2].pos + Slack :
                  p \in {q \in RouteEnds(gr, from) \X to : Follows(gr, q[1].edge, q[2].edge)}}
       all == {Unreachable} \cup direct \cup along
<1>1. Slack \in Nat /\ Parts \in Nat /\ Unreachable \in Nat
  BY SearchAssumption DEF Slack
<1>2. \A e \in DOMAIN gr.head : PartCost(gr, e) \in Nat
  BY PartCostType
<1>3. \A o \in from \cup to : o.edge \in DOMAIN gr.head /\ o.pos \in Nat
  BY <1>1 DEF IsLocation
<1>4. direct \in SUBSET Nat
  <2>1. ASSUME NEW o \in from, NEW d \in to, o.pos <= d.pos
        PROVE  PartCost(gr, o.edge) * (d.pos - o.pos) + Slack \in Nat
    <3>1. d.pos - o.pos \in Nat
      BY <1>3, <2>1
    <3>2. PartCost(gr, o.edge) * (d.pos - o.pos) \in Nat
      BY <1>2, <1>3, <3>1, Product
    <3>. QED
      BY <1>1, <3>2
  <2>. QED
    BY <2>1
<1>5. along \in SUBSET Nat
  <2>1. ASSUME NEW r \in RouteEnds(gr, from), NEW d \in to
        PROVE  r.cost + gr.penalty[r.edge][d.edge] + PartCost(gr, d.edge) * d.pos + Slack \in Nat
    <3>1. r \in [edge : DOMAIN gr.head, cost : Nat]
      BY RouteEndsType
    <3>2. gr.penalty[r.edge][d.edge] \in Nat
      BY <1>3, <3>1, SearchAssumption DEF IsGraph
    <3>3. PartCost(gr, d.edge) * d.pos \in Nat
      BY <1>2, <1>3, Product
    <3>. QED
      BY <1>1, <3>1, <3>2, <3>3
  <2>. QED
    BY <2>1
<1>6. Cheapest(gr, from, to) = Min(all)
  BY DEF Cheapest
<1>7. Min(all) \in all /\ Min(all) \in Nat
  <2>. HIDE DEF direct, along
  <2>. QED
    BY <1>1, <1>4, <1>5, LeastOf
<1>8. Min(all) = Unreachable \/ Min(all) \in direct \/ Min(all) \in along
  <2>. HIDE DEF direct, along
  <2>. QED
    BY <1>7
<1>. HIDE DEF all
<1>9. CASE Min(all) \in direct
  BY <1>6, <1>7, <1>9
<1>10. CASE Min(all) \in along
  BY <1>6, <1>7, <1>10
<1>. QED
  BY <1>6, <1>7, <1>8, <1>9, <1>10

----------------------------------------------------------------------------
\* A multiple of the number of parts, divided by it, and a number that the
\* parts divide.
LEMMA Divided ==
  /\ \A P \in Nat \ {0} : \A y \in Int : (P * y) \div P = y
  /\ \A P \in Nat \ {0} : \A y \in Int : y % P = 0 => y = P * (y \div P)
  BY SMT

\* Products keep the order.
LEMMA Ordered ==
  /\ \A c \in Nat : \A a, b \in Int : a <= b => c * a <= c * b
  /\ \A P \in Nat \ {0} : \A a, b \in Int : P * a <= P * b => a <= b
  BY SMT

\* Costs of one bucket differ by less than its size, and buckets are in the order of costs.
LEMMA Buckets ==
  \A a, b \in Int :
    /\ (a \div BucketSize) \in Int
    /\ a <= b => a \div BucketSize <= b \div BucketSize
    /\ a \div BucketSize <= b \div BucketSize => a <= b + Slack
<1>. SUFFICES ASSUME NEW a \in Int, NEW b \in Int
     PROVE  /\ (a \div BucketSize) \in Int
            /\ a <= b => a \div BucketSize <= b \div BucketSize
            /\ a \div BucketSize <= b \div BucketSize => a <= b + Slack
  OBVIOUS
<1>. DEFINE s == a \div BucketSize
            t == b \div BucketSize
            B == BucketSize
<1>1. B \in Nat \ {0}
  BY SearchAssumption
<1>2. \A c \in Int : /\ (c \div B) \in Int
                    /\ B * (c \div B) <= c
                    /\ c < B * (c \div B) + B
  <2>. HIDE DEF B
  <2>. QED
    BY <1>1, SMT
<1>3. /\ s \in Int /\ t \in Int
      /\ B * s <= a /\ a < B * s + B /\ B * t <= b /\ b < B * t + B
  BY <1>2
<1>. HIDE DEF s, t, B
<1>4. ASSUME a <= b PROVE s <= t
  <2>. SUFFICES ASSUME t + 1 <= s PROVE FALSE
    BY <1>3
  <2>1. B * (t + 1) <= B * s
    <3>1. t + 1 \in Int /\ B \in Nat
      BY <1>1, <1>3
    <3>. QED
      BY <1>3, <3>1, Ordered
  <2>2. B * (t + 1) = B * t + B
    BY <1>1, <1>3, SMT
  <2>3. B * t \in Int /\ B * s \in Int
    BY <1>1, <1>3
  <2>. QED
    BY <1>1, <1>3, <1>4, <2>1, <2>2, <2>3
<1>5. ASSUME s <= t PROVE a <= b + Slack
  <2>1. B * s <= B * t
    BY <1>1, <1>3, <1>5, Ordered
  <2>2. B * t \in Int /\ B * s \in Int
    BY <1>1, <1>3
  <2>3. Slack = B - 1
    BY DEF Slack, B
  <2>. QED
    BY <1>1, <1>3, <2>1, <2>2, <2>3
<1>. QED
  BY <1>3, <1>4, <1>5 DEF s, t

----------------------------------------------------------------------------
\* The place of a candidate.
At(gr, c) == (Parts - c.pos) * (gr.x[gr.tail[c.edge]] \div Parts)
             + c.pos * (gr.x[gr.head[c.edge]] \div Parts)

\* Nodes are where parts meet.
LEMMA NodesBetweenParts ==
  ASSUME NEW gr \in Graphs, NEW e \in DOMAIN gr.head
  PROVE  LET a == gr.x[gr.tail[e]] \div Parts
             b == gr.x[gr.head[e]] \div Parts IN
           /\ a \in Int /\ b \in Int
           /\ gr.x[gr.tail[e]] = Parts * a /\ gr.x[gr.head[e]] = Parts * b
           /\ b - a <= gr.len[e] /\ a - b <= gr.len[e]
<1>. DEFINE s == gr.x[gr.tail[e]]
            t == gr.x[gr.head[e]]
            a == s \div Parts
            b == t \div Parts
<1>1. /\ Parts \in Nat \ {0} /\ s \in Int /\ t \in Int /\ s % Parts = 0 /\ t % Parts = 0
      /\ gr.len[e] \in Nat /\ Distance(t, s) <= Parts * gr.len[e]
  BY SearchAssumption DEF IsGraph
<1>. DEFINE l == gr.len[e]
<1>. HIDE DEF s, t, l
<1>2. a \in Int /\ b \in Int /\ s = Parts * a /\ t = Parts * b
  BY <1>1, Divided
<1>. HIDE DEF a, b
<1>3. Parts * (b - a) = t - s /\ Parts * (a - b) = s - t
  BY <1>1, <1>2
<1>4. Parts * (b - a) <= Parts * l /\ Parts * (a - b) <= Parts * l
  <2>1. Parts * l \in Int
    BY <1>1 DEF l
  <2>. QED
    BY <1>1, <1>3, <2>1 DEF Distance, l
<1>5. b - a <= l /\ a - b <= l
  <2>1. b - a \in Int /\ a - b \in Int /\ l \in Int
    BY <1>1, <1>2 DEF l
  <2>. QED
    BY <1>1, <1>4, <2>1, Ordered
<1>. QED
  BY <1>2, <1>5 DEF a, b, s, t, l

\* All candidates of a location are at the same place.
LEMMA SamePlace ==
  ASSUME NEW gr \in Graphs, NEW loc \in Locations(gr), NEW c \in loc, NEW d \in loc
  PROVE  At(gr, c) = At(gr, d)
<1>1. Parts \in Nat \ {0} /\ gr.access \subseteq DOMAIN gr.head
  BY SearchAssumption DEF IsGraph
<1>2. CASE \E m \in DOMAIN gr.x : loc = AtNode(gr, m)
  <2>1. PICK m \in DOMAIN gr.x : loc = AtNode(gr, m)
    BY <1>2
  <2>2. ASSUME NEW o \in loc PROVE At(gr, o) = Parts * (gr.x[m] \div Parts)
    <3>1. o.edge \in DOMAIN gr.head
      BY <1>1, <2>1 DEF AtNode
    <3>. DEFINE a == gr.x[gr.tail[o.edge]] \div Parts
                b == gr.x[gr.head[o.edge]] \div Parts
    <3>2. a \in Int /\ b \in Int
      BY <3>1, NodesBetweenParts
    <3>3. (o.pos = 0 /\ gr.tail[o.edge] = m) \/ (o.pos = Parts /\ gr.head[o.edge] = m)
      BY <2>1 DEF AtNode
    <3>4. At(gr, o) = (Parts - o.pos) * a + o.pos * b
      BY DEF At
    <3>5. (o.pos = 0 /\ a = gr.x[m] \div Parts) \/ (o.pos = Parts /\ b = gr.x[m] \div Parts)
      BY <3>3
    <3>. HIDE DEF a, b
    <3>. QED
      BY <1>1, <3>2, <3>4, <3>5
  <2>. QED
    BY <2>2
<1>3. CASE \E e \in gr.access, p \in 1 .. Parts - 1 : loc = OnEdge(gr, e, p)
  <2>1. PICK e \in gr.access, p \in 1 .. Parts - 1 : loc = OnEdge(gr, e, p)
    BY <1>3
  <2>. DEFINE f == gr.opp[e]
              a == gr.x[gr.tail[e]] \div Parts
              b == gr.x[gr.head[e]] \div Parts
  <2>2. e \in DOMAIN gr.head /\ gr.tail[f] = gr.head[e] /\ gr.head[f] = gr.tail[e]
    BY <1>1, SearchAssumption DEF IsGraph
  <2>3. a \in Int /\ b \in Int
    BY <2>2, NodesBetweenParts
  <2>4. ASSUME NEW o \in loc PROVE At(gr, o) = (Parts - p) * a + p * b
    <3>1. (o.edge = e /\ o.pos = p) \/ (o.edge = f /\ o.pos = Parts - p)
      BY <2>1 DEF OnEdge
    <3>2. CASE o.edge = e /\ o.pos = p
      BY <3>2 DEF At
    <3>3. CASE o.edge = f /\ o.pos = Parts - p
      <4>1. At(gr, o) = (Parts - (Parts - p)) * b + (Parts - p) * a
        BY <2>2, <3>3 DEF At
      <4>. HIDE DEF a, b
      <4>. QED
        BY <1>1, <2>3, <4>1
    <3>. QED
      BY <3>1, <3>2, <3>3
  <2>. QED
    BY <2>4
<1>. QED
  BY <1>2, <1>3 DEF Locations

\* The place of a location is that of each of its candidates.
LEMMA PlaceIsAt ==
  ASSUME NEW gr \in Graphs, NEW loc \in Locations(gr), NEW c \in loc
  PROVE  Place(gr, loc) = At(gr, c)
<1>. DEFINE o == CHOOSE o \in loc : TRUE
<1>1. o \in loc
  OBVIOUS
<1>2. o.edge \in DOMAIN gr.head /\ o.pos \in 0 .. Parts /\ Parts \in Nat \ {0}
  BY <1>1, LocationsAreLocations, SearchAssumption DEF IsLocation
<1>. DEFINE a == gr.x[gr.tail[o.edge]] \div Parts
            b == gr.x[gr.head[o.edge]] \div Parts
            p == o.pos
<1>3. /\ a \in Int /\ b \in Int
      /\ gr.x[gr.tail[o.edge]] = Parts * a /\ gr.x[gr.head[o.edge]] = Parts * b
  BY <1>2, NodesBetweenParts
<1>4. Place(gr, loc) = ((Parts - p) * gr.x[gr.tail[o.edge]] + p * gr.x[gr.head[o.edge]]) \div Parts
  BY DEF Place
<1>5. At(gr, o) = (Parts - p) * a + p * b
  BY DEF At
<1>6. At(gr, o) = At(gr, c)
  BY <1>1, SamePlace
<1>. HIDE DEF a, b, o
<1>7. Place(gr, loc) = ((Parts - p) * (Parts * a) + p * (Parts * b)) \div Parts
  BY <1>3, <1>4
<1>8. p \in Int
  BY <1>2
<1>. HIDE DEF p
<1>9. (Parts - p) * (Parts * a) + p * (Parts * b) = Parts * ((Parts - p) * a + p * b)
  BY <1>2, <1>3, <1>8, SMT
<1>10. (Parts - p) * a + p * b \in Int
  BY <1>2, <1>3, <1>8
<1>. QED
  BY <1>2, <1>5, <1>6, <1>7, <1>9, <1>10, Divided

\* Where the place of a candidate is along its edge.
LEMMA PlaceAlong ==
  ASSUME NEW gr \in Graphs, NEW loc \in Locations(gr), NEW c \in loc
  PROVE  /\ c.edge \in DOMAIN gr.head /\ c.pos \in 0 .. Parts /\ c.edge \in gr.access
         /\ Place(gr, loc) \in Int
         /\ Distance(gr.x[gr.tail[c.edge]], Place(gr, loc)) <= c.pos * gr.len[c.edge]
         /\ Distance(Place(gr, loc), gr.x[gr.head[c.edge]]) <= (Parts - c.pos) * gr.len[c.edge]
         /\ c.pos = 0 => Place(gr, loc) = gr.x[gr.tail[c.edge]]
         /\ c.pos = Parts => Place(gr, loc) = gr.x[gr.head[c.edge]]
<1>1. c.edge \in DOMAIN gr.head /\ c.pos \in 0 .. Parts
  BY LocationsAreLocations DEF IsLocation
<1>2. c.edge \in gr.access
  BY DEF Locations, AtNode, OnEdge
<1>. DEFINE a == gr.x[gr.tail[c.edge]] \div Parts
            b == gr.x[gr.head[c.edge]] \div Parts
            p == c.pos
            l == gr.len[c.edge]
<1>3. /\ a \in Int /\ b \in Int
      /\ gr.x[gr.tail[c.edge]] = Parts * a /\ gr.x[gr.head[c.edge]] = Parts * b
      /\ b - a <= l /\ a - b <= l
  BY <1>1, NodesBetweenParts
<1>4. Place(gr, loc) = (Parts - p) * a + p * b
  BY PlaceIsAt DEF At
<1>5. l \in Nat /\ Parts \in Nat /\ p \in Nat /\ Parts - p \in Nat
  BY <1>1, SearchAssumption DEF IsGraph
<1>. HIDE DEF a, b, l, p
<1>6. Parts * a - ((Parts - p) * a + p * b) = p * (a - b)
  BY <1>3, <1>5, SMT
<1>7. ((Parts - p) * a + p * b) - Parts * a = p * (b - a)
  BY <1>3, <1>5, SMT
<1>8. Parts * b - ((Parts - p) * a + p * b) = (Parts - p) * (b - a)
  BY <1>3, <1>5, SMT
<1>9. ((Parts - p) * a + p * b) - Parts * b = (Parts - p) * (a - b)
  BY <1>3, <1>5, SMT
<1>10. /\ p * (a - b) <= p * l /\ p * (b - a) <= p * l
       /\ (Parts - p) * (a - b) <= (Parts - p) * l /\ (Parts - p) * (b - a) <= (Parts - p) * l
  <2>1. a - b \in Int /\ b - a \in Int
    BY <1>3
  <2>. QED
    BY <1>3, <1>5, <2>1, Ordered
<1>. DEFINE w == (Parts - p) * a + p * b
            s == Parts * a
            t == Parts * b
<1>11. w \in Int /\ s \in Int /\ t \in Int
  BY <1>3, <1>5
<1>12. s - w <= p * l /\ w - s <= p * l /\ t - w <= (Parts - p) * l /\ w - t <= (Parts - p) * l
  BY <1>6, <1>7, <1>8, <1>9, <1>10
<1>13. (p = 0 => w = s) /\ (p = Parts => w = t)
  BY <1>3, <1>5
<1>14. Place(gr, loc) = w /\ gr.x[gr.tail[c.edge]] = s /\ gr.x[gr.head[c.edge]] = t
  BY <1>3, <1>4
<1>. HIDE DEF w, s, t
<1>15. Distance(s, w) <= p * l /\ Distance(w, t) <= (Parts - p) * l
  BY <1>5, <1>11, <1>12 DEF Distance
<1>. QED
  BY <1>1, <1>2, <1>11, <1>13, <1>14, <1>15 DEF p, l

\* Distances and estimates are natural numbers.
LEMMA GetType == \A d \in Nat : Get(d) \in Nat
  BY SearchAssumption, Product DEF Get

LEMMA DistanceType == \A a, b \in Int : Distance(a, b) \in Nat
  BY DEF Distance

\* The heuristic takes no more off than what a way along an edge costs.
LEMMA HeuristicConsistent ==
  ASSUME NEW gr \in Graphs, NeverOverestimates(gr), NEW e \in DOMAIN gr.head,
         NEW j \in Nat, NEW a \in Int, NEW b \in Int, NEW p \in Int,
         Distance(a, b) <= j * gr.len[e]
  PROVE  Get(Distance(a, p)) <= PartCost(gr, e) * j + Get(Distance(b, p))
<1>. DEFINE l == gr.len[e]
            q == PartCost(gr, e)
<1>1. l \in Nat /\ q \in Nat /\ Parts \in Nat \ {0} /\ CostFactor \in Nat
  BY SearchAssumption, PartCostType DEF IsGraph
<1>2. CostFactor * (Parts * l) <= Parts * q
  BY DEF NeverOverestimates, Get
<1>. HIDE DEF l, q
<1>3. CostFactor * l <= q
  <2>1. CostFactor * (Parts * l) = Parts * (CostFactor * l)
    BY <1>1, SMT
  <2>2. CostFactor * l \in Int
    BY <1>1
  <2>. QED
    BY <1>1, <1>2, <2>1, <2>2, Ordered
<1>4. CostFactor * (j * l) <= q * j
  <2>1. CostFactor * (j * l) = j * (CostFactor * l)
    BY <1>1, SMT
  <2>2. q * j = j * q
    BY <1>1, SMT
  <2>3. CostFactor * l \in Int
    BY <1>1
  <2>. QED
    BY <1>1, <1>3, <2>1, <2>2, <2>3, Ordered
<1>5. Distance(a, p) <= j * l + Distance(b, p)
  <2>1. j * l \in Int
    BY <1>1
  <2>2. Distance(a, b) <= j * l
    BY DEF l
  <2>. QED
    BY <2>1, <2>2 DEF Distance
<1>. DEFINE u == Distance(a, p)
            v == Distance(b, p)
            m == j * l
<1>6. u \in Int /\ v \in Int /\ m \in Int /\ u <= m + v
  BY <1>1, <1>5, DistanceType
<1>. HIDE DEF u, v, m
<1>7. CostFactor * u <= CostFactor * m + CostFactor * v
  <2>1. CostFactor * u <= CostFactor * (m + v)
    <3>1. m + v \in Int
      BY <1>6
    <3>. QED
      BY <1>1, <1>6, <3>1, Ordered
  <2>2. CostFactor * (m + v) = CostFactor * m + CostFactor * v
    BY <1>1, <1>6, SMT
  <2>. QED
    BY <2>1, <2>2
<1>8. /\ CostFactor * u \in Int /\ CostFactor * m \in Int
      /\ CostFactor * v \in Int /\ q * j \in Int
  BY <1>1, <1>6
<1>9. CostFactor * u <= q * j + CostFactor * v
  BY <1>4, <1>7, <1>8 DEF m
<1>. QED
  BY <1>9 DEF q, u, v, Get

\* So it does along a whole edge, and from or to a candidate on one.
LEMMA HeuristicSteps ==
  ASSUME NEW gr \in Graphs, NeverOverestimates(gr), NEW p \in Int
  PROVE  /\ \A e \in DOMAIN gr.head :
              Get(Distance(gr.x[gr.tail[e]], p)) <=
                Parts * PartCost(gr, e) + Get(Distance(gr.x[gr.head[e]], p))
         /\ \A loc \in Locations(gr) : \A c \in loc :
              /\ Get(Distance(gr.x[gr.tail[c.edge]], Place(gr, loc))) <= PartCost(gr, c.edge) * c.pos
              /\ Get(Distance(Place(gr, loc), p)) <=
                   PartCost(gr, c.edge) * (Parts - c.pos)
                   + Get(Distance(gr.x[gr.head[c.edge]], p))
<1>1. Parts \in Nat
  BY SearchAssumption
<1>2. ASSUME NEW e \in DOMAIN gr.head
      PROVE  Get(Distance(gr.x[gr.tail[e]], p)) <=
                Parts * PartCost(gr, e) + Get(Distance(gr.x[gr.head[e]], p))
  <2>1. gr.x[gr.tail[e]] \in Int /\ gr.x[gr.head[e]] \in Int
    BY SearchAssumption DEF IsGraph
  <2>2. Distance(gr.x[gr.tail[e]], gr.x[gr.head[e]]) <= Parts * gr.len[e]
    <3>1. Distance(gr.x[gr.head[e]], gr.x[gr.tail[e]]) <= Parts * gr.len[e]
      BY SearchAssumption DEF IsGraph
    <3>2. Distance(gr.x[gr.head[e]], gr.x[gr.tail[e]]) = Distance(gr.x[gr.tail[e]], gr.x[gr.head[e]])
      BY <2>1 DEF Distance
    <3>. QED
      BY <3>1, <3>2
  <2>3. Get(Distance(gr.x[gr.tail[e]], p)) <=
          PartCost(gr, e) * Parts + Get(Distance(gr.x[gr.head[e]], p))
    BY <1>1, <2>1, <2>2, HeuristicConsistent
  <2>4. PartCost(gr, e) * Parts = Parts * PartCost(gr, e)
    <3>1. PartCost(gr, e) \in Nat
      BY PartCostType
    <3>. QED
      BY <1>1, <3>1, SMT
  <2>. QED
    BY <2>3, <2>4
<1>3. ASSUME NEW loc \in Locations(gr), NEW c \in loc
      PROVE  /\ Get(Distance(gr.x[gr.tail[c.edge]], Place(gr, loc))) <= PartCost(gr, c.edge) * c.pos
             /\ Get(Distance(Place(gr, loc), p)) <=
                   PartCost(gr, c.edge) * (Parts - c.pos)
                   + Get(Distance(gr.x[gr.head[c.edge]], p))
  <2>. DEFINE e == c.edge
              w == Place(gr, loc)
  <2>1. /\ e \in DOMAIN gr.head /\ c.pos \in Nat /\ Parts - c.pos \in Nat /\ w \in Int
        /\ Distance(gr.x[gr.tail[e]], w) <= c.pos * gr.len[e]
        /\ Distance(w, gr.x[gr.head[e]]) <= (Parts - c.pos) * gr.len[e]
    BY <1>1, PlaceAlong
  <2>2. gr.x[gr.tail[e]] \in Int /\ gr.x[gr.head[e]] \in Int
    BY <2>1, SearchAssumption DEF IsGraph
  <2>. HIDE DEF e, w
  <2>3. Get(Distance(gr.x[gr.tail[e]], w)) <= PartCost(gr, e) * c.pos + Get(Distance(w, w))
    BY <2>1, <2>2, HeuristicConsistent
  <2>4. Get(Distance(w, w)) = 0
    BY <2>1, SearchAssumption DEF Get, Distance
  <2>5. Get(Distance(gr.x[gr.tail[e]], w)) <= PartCost(gr, e) * c.pos
    <3>1. PartCost(gr, e) * c.pos \in Nat
      BY <2>1, PartCostType, Product
    <3>. QED
      BY <2>3, <2>4, <3>1
  <2>6. Get(Distance(w, p)) <=
           PartCost(gr, e) * (Parts - c.pos) + Get(Distance(gr.x[gr.head[e]], p))
    BY <2>1, <2>2, HeuristicConsistent
  <2>. QED
    BY <2>5, <2>6 DEF e, w
<1>. QED
  BY <1>2, <1>3

\* And between two candidates on the same edge.
LEMMA HeuristicBetween ==
  ASSUME NEW gr \in Graphs, NeverOverestimates(gr), NEW from \in Locations(gr),
         NEW to \in Locations(gr), NEW c \in from, NEW d \in to, c.edge = d.edge, c.pos <= d.pos
  PROVE  Get(Distance(Place(gr, from), Place(gr, to))) <= PartCost(gr, c.edge) * (d.pos - c.pos)
<1>. DEFINE e == c.edge
            a == gr.x[gr.tail[e]] \div Parts
            b == gr.x[gr.head[e]] \div Parts
            l == gr.len[e]
            p == c.pos
            q == d.pos
            j == q - p
<1>1. /\ e \in DOMAIN gr.head /\ p \in Nat /\ q \in Nat /\ j \in Nat /\ Parts \in Nat
      /\ Place(gr, from) \in Int /\ Place(gr, to) \in Int
  BY PlaceAlong, SearchAssumption
<1>2. a \in Int /\ b \in Int /\ b - a <= l /\ a - b <= l /\ l \in Nat
  BY <1>1, NodesBetweenParts, SearchAssumption DEF IsGraph
<1>. DEFINE s == Place(gr, from)
            t == Place(gr, to)
<1>3. s = (Parts - p) * a + p * b
  BY PlaceIsAt DEF At
<1>4. t = (Parts - q) * a + q * b
  BY PlaceIsAt DEF At
<1>5. s \in Int /\ t \in Int
  BY <1>1
<1>. HIDE DEF a, b, l, p, q, s, t
<1>6. t - s = j * (b - a) /\ s - t = j * (a - b)
  BY <1>1, <1>2, <1>3, <1>4, SMT
<1>7. j * (b - a) <= j * l /\ j * (a - b) <= j * l /\ j * l \in Int
  <2>1. b - a \in Int /\ a - b \in Int /\ l \in Int
    BY <1>2
  <2>2. j \in Nat
    BY <1>1
  <2>. HIDE DEF j
  <2>. QED
    BY <1>2, <2>1, <2>2, Ordered
<1>8. Distance(s, t) <= j * l
  <2>. HIDE DEF j
  <2>. QED
    BY <1>5, <1>6, <1>7 DEF Distance
<1>9. Get(Distance(s, t)) <= PartCost(gr, e) * j + Get(Distance(t, t))
  <2>. HIDE DEF j, e
  <2>. QED
    BY <1>1, <1>5, <1>8, HeuristicConsistent DEF l
<1>10. Get(Distance(t, t)) = 0
  BY <1>5, SearchAssumption DEF Get, Distance
<1>11. PartCost(gr, e) * j \in Nat
  BY <1>1, PartCostType, Product
<1>. QED
  <2>1. Get(Distance(s, t)) <= PartCost(gr, e) * j
    <3>. HIDE DEF e, j
    <3>. QED
      BY <1>9, <1>10, <1>11
  <2>. QED
    BY <2>1 DEF s, t, p, q

----------------------------------------------------------------------------
\* The label that is expanded has left the queue and is not one of the destination.
ExpandedIsPopped ==
  pc = "expand" => cur \in DOMAIN labels \ queue /\ "dest" \notin labels[cur].ends

\* An edge that was labelled after the origin has an index, even when it was reset.
LabelledEdges ==
  \A i \in DOMAIN labels :
    "origin" \notin labels[i].ends => status[labels[i].edge].idx \in DOMAIN labels

\* The inductive invariant.
IInv ==
  /\ TypeOK
  /\ IsLocation(g, origin) /\ IsLocation(g, destination)
  /\ ExpandedIsPopped
  /\ LabelledEdges
  /\ LabelsAddUp
  /\ TemporaryIsQueued
  /\ RestrictionsObeyed

----------------------------------------------------------------------------
\* Distances to the destination are natural numbers.
LEMMA ToDestinationType ==
  ASSUME g \in Graphs, IsLocation(g, destination), NEW e \in Edges
  PROVE  ToDestination(e) \in Nat
<1>1. Place(g, destination) \in Int
  BY PlaceType
<1>2. g.x[g.head[e]] \in Int
  BY SearchAssumption DEF IsGraph, Edges
<1>. QED
  BY <1>1, <1>2 DEF ToDestination, Distance

\* A label made from natural numbers is a label, and its sort cost is its cost and the
\* heuristic.
LEMMA EdgeLabelType ==
  ASSUME g \in Graphs, IsLocation(g, destination),
         NEW e \in Edges, NEW i \in Nat, NEW c \in Nat, NEW p \in Nat, NEW done \in Nat,
         NEW ends \in SUBSET {"origin", "dest"}
  PROVE  /\ EdgeLabel(e, i, c, p, done, ends) \in Label
         /\ EdgeLabel(e, i, c, p, done, ends).edge = e
         /\ EdgeLabel(e, i, c, p, done, ends).pred = i
         /\ EdgeLabel(e, i, c, p, done, ends).cost = c + PartCost(g, e) * done
         /\ EdgeLabel(e, i, c, p, done, ends).sort =
              EdgeLabel(e, i, c, p, done, ends).cost + Get(EdgeLabel(e, i, c, p, done, ends).dist)
         /\ EdgeLabel(e, i, c, p, done, ends).ends = ends
<1>. DEFINE cost == c + PartCost(g, e) * done
            dist == IF "dest" \in ends THEN 0 ELSE ToDestination(e)
            path == p + g.len[e] * done
<1>1. PartCost(g, e) * done \in Nat
  BY PartCostType, Product DEF Edges
<1>2. cost \in Nat
  BY <1>1
<1>3. dist \in Nat
  BY ToDestinationType
<1>4. Get(dist) \in Nat
  BY <1>3, Product, SearchAssumption DEF Get
<1>5. g.len[e] \in Nat
  BY SearchAssumption DEF IsGraph, Edges
<1>6. path \in Nat
  BY <1>5, Product
<1>7. EdgeLabel(e, i, c, p, done, ends) =
        [edge |-> e, pred |-> i, cost |-> cost, sort |-> cost + Get(dist), dist |-> dist,
         path |-> path, ends |-> ends]
  BY DEF EdgeLabel
<1>. HIDE DEF dist, path
<1>8. cost + Get(dist) \in Int
  BY <1>2, <1>4
<1>. QED
  BY <1>2, <1>3, <1>6, <1>7, <1>8 DEF Label

----------------------------------------------------------------------------
\* The search starts in the invariant.
LEMMA InitIInv == Init => IInv
<1>. SUFFICES ASSUME Init PROVE IInv
  OBVIOUS
<1>1. IsLocation(g, origin) /\ IsLocation(g, destination)
  BY LocationsAreLocations DEF Init
<1>2. Place(g, origin) \in Int /\ Place(g, destination) \in Int
  BY <1>1, PlaceType DEF Init
<1>3. mindist \in Nat
  BY <1>2 DEF Init, Distance
<1>4. cursor \in Int
  <2>1. Get(mindist) \in Nat
    BY <1>3, Product, SearchAssumption DEF Get
  <2>. QED
    BY <2>1, SearchAssumption DEF Init
<1>5. TypeOK
  <2>1. labels = <<>> /\ labels \in Seq(Label) /\ Len(labels) = 0
    BY DEF Init
  <2>2. status \in [Edges -> [set : {"unreached", "temporary", "permanent"}, idx : Nat]]
    BY DEF Init
  <2>3. \A e \in Edges : status[e].set = "unreached"
    BY DEF Init
  <2>4. /\ g \in Graphs /\ todo \subseteq origin /\ queue = {}
        /\ best = 0 /\ result = 0 /\ nc \in Nat /\ n \in Nat /\ pc = "origin"
        /\ could = FALSE
    BY DEF Init
  <2>5. queue \subseteq DOMAIN labels /\ best \in 0 .. Len(labels) /\ result \in 0 .. Len(labels)
    BY <2>1, <2>4
  <2>6. could \in BOOLEAN
    BY <2>4
  <2>. QED
    BY <1>3, <1>4, <2>1, <2>2, <2>3, <2>4, <2>5, <2>6 DEF TypeOK
<1>6. LabelsAddUp /\ TemporaryIsQueued /\ RestrictionsObeyed /\ ExpandedIsPopped /\ LabelledEdges
  BY DEF Init, LabelsAddUp, TemporaryIsQueued, RestrictionsObeyed, ExpandedIsPopped,
         LabelledEdges
<1>. QED
  BY <1>1, <1>5, <1>6 DEF IInv

----------------------------------------------------------------------------
\* The part of the types that expanding an edge changes.
LabelTypes ==
  /\ labels \in Seq(Label)
  /\ queue \subseteq DOMAIN labels
  /\ status \in [Edges -> [set : {"unreached", "temporary", "permanent"}, idx : Nat]]
  /\ \A e \in Edges : status[e].set # "unreached" => status[e].idx \in DOMAIN labels
  /\ best \in 0 .. Len(labels)
  /\ could \in BOOLEAN

\* What expanding an edge keeps.
LabelInv ==
  /\ LabelTypes
  /\ cur \in DOMAIN labels \ queue /\ "dest" \notin labels[cur].ends
  /\ LabelledEdges
  /\ LabelsAddUp
  /\ TemporaryIsQueued
  /\ RestrictionsObeyed

\* The edges of the node that is expanded.
LEMMA OutType ==
  ASSUME IInv, pc = "expand"
  PROVE  Out \in Seq(Edges) /\ Len(Out) \in Nat
<1>1. cur \in DOMAIN labels /\ labels \in Seq(Label) /\ IsGraph(g)
  BY SearchAssumption DEF IInv, TypeOK
<1>2. labels[cur] \in Label
  BY <1>1
<1>3. EndNode \in DOMAIN g.x
  BY <1>1, <1>2 DEF Label, EndNode, Edges, IsGraph
<1>. QED
  BY <1>1, <1>3 DEF Out, Edges, IsGraph

\* The edges that are expanded start where the expanded label ends.
LEMMA ExpandedEdges ==
  ASSUME IInv, pc = "expand"
  PROVE  /\ LabelInv
         /\ Back \in Edges /\ g.tail[Back] = EndNode
         /\ k <= Len(Out) => Out[k] \in Edges /\ g.tail[Out[k]] = EndNode
<1>1. LabelInv
  BY DEF IInv, TypeOK, LabelTypes, LabelInv, ExpandedIsPopped
<1>2. labels[cur].edge \in Edges
  <2>1. labels[cur] \in Label
    BY <1>1 DEF LabelInv, LabelTypes
  <2>. QED
    BY <2>1 DEF Label
<1>3. IsGraph(g)
  BY SearchAssumption DEF IInv, TypeOK
<1>4. Back \in Edges /\ g.tail[Back] = EndNode
  BY <1>2, <1>3 DEF Back, EndNode, Edges, IsGraph
<1>5. EndNode \in DOMAIN g.x
  BY <1>2, <1>3 DEF EndNode, Edges, IsGraph
<1>6. Out \in Seq(Edges) /\ {Out[i] : i \in 1 .. Len(Out)} = {e \in Edges : g.tail[e] = EndNode}
  BY <1>3, <1>5 DEF Out, Edges, IsGraph
<1>7. k \in 1 .. Len(Out) + 1
  BY DEF IInv, TypeOK
<1>8. ASSUME k <= Len(Out) PROVE Out[k] \in Edges /\ g.tail[Out[k]] = EndNode
  <2>1. k \in 1 .. Len(Out)
    BY <1>6, <1>7, <1>8
  <2>2. Out[k] \in {Out[i] : i \in 1 .. Len(Out)}
    BY <2>1
  <2>. QED
    BY <1>6, <2>2
<1>. QED
  BY <1>1, <1>4, <1>8

\* What the new labels of an edge are.
LEMMA NextLabelType ==
  ASSUME g \in Graphs, IsLocation(g, destination), LabelInv,
         NEW e \in Edges, NEW done \in Nat, NEW ends \in SUBSET {"origin", "dest"}
  PROVE  LET l == NextLabel(e, done, ends) IN
           /\ l \in Label
           /\ l.edge = e /\ l.pred = cur
           /\ l.cost = labels[cur].cost + g.penalty[labels[cur].edge][e] + PartCost(g, e) * done
           /\ l.sort = l.cost + Get(l.dist)
           /\ l.ends = ends
<1>. DEFINE c == labels[cur].cost + g.penalty[labels[cur].edge][e]
            p == labels[cur].path
<1>1. labels[cur] \in Label /\ cur \in Nat
  BY DEF LabelInv, LabelTypes
<1>2. g.penalty[labels[cur].edge][e] \in Nat
  BY <1>1, SearchAssumption DEF Label, IsGraph, Edges
<1>3. c \in Nat /\ p \in Nat
  BY <1>1, <1>2 DEF Label
<1>4. NextLabel(e, done, ends) = EdgeLabel(e, cur, c, p, done, ends)
  BY DEF NextLabel
<1>. HIDE DEF c, p
<1>5. /\ EdgeLabel(e, cur, c, p, done, ends) \in Label
      /\ EdgeLabel(e, cur, c, p, done, ends).edge = e
      /\ EdgeLabel(e, cur, c, p, done, ends).pred = cur
      /\ EdgeLabel(e, cur, c, p, done, ends).cost = c + PartCost(g, e) * done
      /\ EdgeLabel(e, cur, c, p, done, ends).sort =
           EdgeLabel(e, cur, c, p, done, ends).cost
           + Get(EdgeLabel(e, cur, c, p, done, ends).dist)
      /\ EdgeLabel(e, cur, c, p, done, ends).ends = ends
  BY <1>1, <1>3, EdgeLabelType
<1>. QED
  BY <1>4, <1>5 DEF c

\* A destination on an edge is within it.
LEMMA DestinationPart ==
  ASSUME IsLocation(g, destination), NEW e, DestinationsOn(destination, e) # {}
  PROVE  DestinationPos(destination, e) \in Nat
<1>. DEFINE d == CHOOSE d \in DestinationsOn(destination, e) : TRUE
<1>1. d \in destination
  BY DEF DestinationsOn, SetDestination
<1>. QED
  BY <1>1, SearchAssumption DEF IsLocation, DestinationPos

\* What Relax does to the labels: those of before stay, but for the label of a temporarily
\* labelled edge, which gets another predecessor and cost; new labels are NextLabels.
LEMMA RelaxedLabels ==
  ASSUME g \in Graphs, IsLocation(g, destination), LabelInv, NEW e \in Edges, Relax(e)
  PROVE  /\ labels' \in Seq(Label) /\ Len(labels') >= Len(labels)
         /\ \A j \in DOMAIN labels :
              \/ labels'[j] = labels[j]
              \/ /\ status[e].set = "temporary" /\ j = status[e].idx
                 /\ NextLabel(e, Parts, {}).cost < labels[j].cost
                 /\ labels'[j] = [labels[j] EXCEPT
                      !.pred = cur, !.cost = NextLabel(e, Parts, {}).cost,
                      !.sort = labels[j].sort - (labels[j].cost - NextLabel(e, Parts, {}).cost)]
         /\ \A j \in DOMAIN labels' \ DOMAIN labels :
              \/ labels'[j] = NextLabel(e, Parts, {})
              \/ labels'[j] = NextLabel(e, DestinationPos(destination, e), {"dest"})
         /\ status[e].set # "temporary" =>
              /\ Len(labels') > Len(labels)
              /\ labels'[Len(labels) + 1] = NextLabel(e, Parts, {})
<1>. DEFINE new == NextLabel(e, Parts, {})
            dests == DestinationsOn(destination, e)
            there == NextLabel(e, DestinationPos(destination, e), {"dest"})
            i == status[e].idx
            upd == [labels EXCEPT ![i].pred = cur, ![i].cost = new.cost,
                                  ![i].sort = @ - (labels[i].cost - new.cost)]
            toend == IF status[e].set = "temporary" THEN Updated(e) ELSE Append(labels, new)
            last == IF dests = {} THEN toend ELSE Append(toend, there)
<1>1. Parts \in Nat /\ labels \in Seq(Label) /\ cur \in Nat
  BY SearchAssumption DEF LabelInv, LabelTypes
<1>2. new \in Label
  BY <1>1, NextLabelType
<1>3. dests # {} => there \in Label
  BY DestinationPart, NextLabelType
<1>4. labels' = last
  BY DEF Relax
<1>5. Updated(e) = IF new.cost < labels[i].cost THEN upd ELSE labels
  BY DEF Updated
<1>. HIDE DEF new, there, dests
<1>6. CASE status[e].set = "temporary"
  <2>1. i \in DOMAIN labels
    BY <1>6 DEF LabelInv, LabelTypes
  <2>2. labels[i] \in Label
    BY <1>1, <2>1
  <2>. DEFINE l == [labels[i] EXCEPT !.pred = cur, !.cost = new.cost,
                                     !.sort = labels[i].sort - (labels[i].cost - new.cost)]
  <2>3. l \in Label
    <3>. DEFINE v == labels[i]
                cost == new.cost
                sort == v.sort - (v.cost - new.cost)
    <3>1. v \in Label /\ cost \in Nat /\ sort \in Int
      BY <1>2, <2>2 DEF Label
    <3>2. l = [v EXCEPT !.pred = cur, !.cost = cost, !.sort = sort]
      OBVIOUS
    <3>. HIDE DEF v, cost, sort, l
    <3>. QED
      BY <1>1, <3>1, <3>2 DEF Label
  <2>4. upd = [labels EXCEPT ![i] = l]
    BY <1>1, <2>1, <2>2 DEF Label
  <2>. HIDE DEF l, upd
  <2>5. upd \in Seq(Label) /\ Len(upd) = Len(labels)
    BY <1>1, <2>1, <2>3, <2>4
  <2>6. \A j \in DOMAIN labels : upd[j] = labels[j] \/ (j = i /\ upd[j] = l)
    BY <1>1, <2>1, <2>4
  <2>7. /\ toend \in Seq(Label) /\ Len(toend) = Len(labels)
        /\ \A j \in DOMAIN labels :
             toend[j] = labels[j] \/ (j = i /\ new.cost < labels[i].cost /\ toend[j] = l)
    BY <1>1, <1>5, <1>6, <2>5, <2>6
  <2>. HIDE DEF toend
  <2>8. /\ last \in Seq(Label) /\ Len(last) >= Len(labels)
        /\ \A j \in DOMAIN labels : last[j] = toend[j]
        /\ \A j \in DOMAIN last \ DOMAIN labels : last[j] = there
    BY <1>1, <1>3, <2>7
  <2>. QED
    BY <1>4, <1>6, <2>7, <2>8 DEF l, new, there, dests
<1>7. CASE status[e].set # "temporary"
  <2>1. toend = Append(labels, new)
    BY <1>7
  <2>. HIDE DEF toend
  <2>2. /\ toend \in Seq(Label) /\ Len(toend) = Len(labels) + 1
        /\ toend[Len(labels) + 1] = new
        /\ \A j \in DOMAIN labels : toend[j] = labels[j]
    BY <1>1, <1>2, <2>1
  <2>3. /\ last \in Seq(Label) /\ Len(last) > Len(labels)
        /\ \A j \in DOMAIN toend : last[j] = toend[j]
        /\ \A j \in DOMAIN last \ DOMAIN toend : last[j] = there
    BY <1>1, <1>3, <2>2
  <2>4. \A j \in DOMAIN labels : last[j] = labels[j]
    BY <1>1, <2>2, <2>3
  <2>5. last[Len(labels) + 1] = new
    BY <1>1, <2>2, <2>3
  <2>6. \A j \in DOMAIN last \ DOMAIN labels : last[j] = new \/ last[j] = there
    BY <1>1, <2>2, <2>3, <2>5
  <2>. HIDE DEF last, i
  <2>7. /\ labels' \in Seq(Label) /\ Len(labels') > Len(labels)
        /\ \A j \in DOMAIN labels : labels'[j] = labels[j]
        /\ labels'[Len(labels) + 1] = new
        /\ \A j \in DOMAIN labels' \ DOMAIN labels : labels'[j] = new \/ labels'[j] = there
    BY <1>4, <2>3, <2>4, <2>5, <2>6
  <2>8. Len(labels') >= Len(labels)
    BY <1>1, <2>7
  <2>. QED
    BY <1>7, <2>7, <2>8, Zenon DEF new, there
<1>. QED
  BY <1>6, <1>7

\* Adding or updating a label keeps what holds of the labels: nothing that another label
\* refers to is changed, and the new predecessor was checked.
LEMMA RelaxKeeps ==
  ASSUME g \in Graphs, IsLocation(g, destination), LabelInv,
         NEW e \in Edges, g.tail[e] = EndNode, status[e].set # "permanent",
         ~Restricted(e), Relax(e), could' = TRUE, UNCHANGED <<g, destination, cur>>
  PROVE  LabelInv'
<1>. DEFINE tmp == status[e].set = "temporary"
            i == status[e].idx
            new == NextLabel(e, Parts, {})
            there == NextLabel(e, DestinationPos(destination, e), {"dest"})
            upd == [labels[i] EXCEPT !.pred = cur, !.cost = new.cost,
                                     !.sort = labels[i].sort - (labels[i].cost - new.cost)]
            base == labels[cur].cost + g.penalty[labels[cur].edge][e]
<1>1. /\ labels \in Seq(Label) /\ queue \subseteq DOMAIN labels
      /\ cur \in DOMAIN labels \ queue /\ "dest" \notin labels[cur].ends
      /\ DOMAIN labels = 1 .. Len(labels) /\ Len(labels) \in Nat
      /\ Parts \in Nat
  BY SearchAssumption DEF LabelInv, LabelTypes
<1>2. /\ labels' \in Seq(Label) /\ Len(labels') >= Len(labels) /\ Len(labels') \in Nat
      /\ DOMAIN labels' = 1 .. Len(labels')
      /\ \A j \in DOMAIN labels :
           \/ labels'[j] = labels[j]
           \/ tmp /\ j = i /\ labels'[j] = upd
      /\ ~tmp => Len(labels') > Len(labels) /\ labels'[Len(labels) + 1] = new
  <2>. DEFINE u(j) == [labels[j] EXCEPT
                         !.pred = cur, !.cost = new.cost,
                         !.sort = labels[j].sort - (labels[j].cost - new.cost)]
  <2>1. /\ labels' \in Seq(Label) /\ Len(labels') >= Len(labels)
        /\ \A j \in DOMAIN labels : labels'[j] = labels[j] \/ (tmp /\ j = i /\ labels'[j] = u(j))
        /\ ~tmp => Len(labels') > Len(labels) /\ labels'[Len(labels) + 1] = new
    BY RelaxedLabels, Zenon
  <2>2. u(i) = upd
    OBVIOUS
  <2>. HIDE DEF u, upd, tmp, new
  <2>3. \A j \in DOMAIN labels : labels'[j] = labels[j] \/ (tmp /\ j = i /\ labels'[j] = upd)
    BY <2>1, <2>2
  <2>. QED
    BY <2>1, <2>3
<1>3. \A j \in DOMAIN labels' \ DOMAIN labels : labels'[j] = new \/ labels'[j] = there
  BY RelaxedLabels
<1>4. /\ queue' = queue \cup (Len(labels) + 1 .. Len(labels'))
      /\ tmp => status' = status
      /\ ~tmp => status' = [status EXCEPT ![e] = [set |-> "temporary", idx |-> Len(labels) + 1]]
  BY DEF Relax
<1>5. best' \in 0 .. Len(labels')
  BY <1>1, <1>2 DEF Relax, LabelInv, LabelTypes
<1>6. tmp => i \in queue /\ labels[i].edge = e /\ labels[i].ends = {}
  BY DEF LabelInv, TemporaryIsQueued
<1>7. /\ new \in Label /\ new.edge = e /\ new.pred = cur
      /\ new.cost = base + PartCost(g, e) * Parts
      /\ new.sort = new.cost + Get(new.dist) /\ new.ends = {}
  <2>1. {} \in SUBSET {"origin", "dest"}
    OBVIOUS
  <2>2. \A ends \in SUBSET {"origin", "dest"} :
          LET l == NextLabel(e, Parts, ends) IN
            /\ l \in Label /\ l.edge = e /\ l.pred = cur
            /\ l.cost = base + PartCost(g, e) * Parts
            /\ l.sort = l.cost + Get(l.dist) /\ l.ends = ends
    BY <1>1, NextLabelType
  <2>. QED
    BY <2>1, <2>2, Zenon
<1>8. \A j \in DOMAIN labels' \ DOMAIN labels :
        /\ labels'[j].edge = e /\ labels'[j].pred = cur
        /\ labels'[j].sort = labels'[j].cost + Get(labels'[j].dist)
        /\ labels'[j].cost = base + PartCost(g, e) * PartsOf(destination, labels'[j])
  <2>. SUFFICES ASSUME NEW j \in DOMAIN labels' \ DOMAIN labels
       PROVE  /\ labels'[j].edge = e /\ labels'[j].pred = cur
              /\ labels'[j].sort = labels'[j].cost + Get(labels'[j].dist)
              /\ labels'[j].cost = base + PartCost(g, e) * PartsOf(destination, labels'[j])
    OBVIOUS
  <2>1. CASE labels'[j] = new
    BY <1>7, <2>1 DEF PartsOf
  <2>2. CASE DestinationsOn(destination, e) = {}
    <3>1. labels' = IF tmp THEN Updated(e) ELSE Append(labels, new)
      BY <2>2 DEF Relax
    <3>2. tmp => Len(labels') = Len(labels)
      <4>1. tmp => labels' \in {labels, [labels EXCEPT ![i].pred = cur, ![i].cost = new.cost,
                                            ![i].sort = @ - (labels[i].cost - new.cost)]}
        BY <3>1 DEF Updated
      <4>. HIDE DEF new, i, tmp
      <4>. QED
        BY <1>1, <4>1
    <3>3. ~tmp => labels'[j] = new
      BY <1>1, <1>2, <3>1
    <3>. QED
      BY <1>1, <1>2, <2>1, <3>2, <3>3
  <2>3. CASE DestinationsOn(destination, e) # {} /\ labels'[j] = there
    <3>1. DestinationPos(destination, e) \in Nat
      BY <2>3, DestinationPart
    <3>2. /\ there.edge = e /\ there.pred = cur
          /\ there.cost = base + PartCost(g, e) * DestinationPos(destination, e)
          /\ there.sort = there.cost + Get(there.dist) /\ there.ends = {"dest"}
      BY <3>1, NextLabelType
    <3>. QED
      BY <2>3, <3>2 DEF PartsOf
  <2>. QED
    BY <1>3, <2>1, <2>2, <2>3
<1>. HIDE DEF new, there, upd
\* The label that is expanded and its predecessor stay.
<1>9. \A j \in DOMAIN labels \ queue : labels'[j] = labels[j] /\ j \in DOMAIN labels' \ queue'
  BY <1>1, <1>2, <1>4, <1>6
<1>10. LabelTypes'
  <2>1. /\ queue' \subseteq DOMAIN labels' /\ DOMAIN labels \subseteq DOMAIN labels'
    BY <1>1, <1>2, <1>4
  <2>2. /\ status \in [Edges -> [set : {"unreached", "temporary", "permanent"}, idx : Nat]]
        /\ \A f \in Edges : status[f].set # "unreached" => status[f].idx \in DOMAIN labels
    BY DEF LabelInv, LabelTypes
  <2>3. status' \in [Edges -> [set : {"unreached", "temporary", "permanent"}, idx : Nat]]
    BY <1>1, <1>4, <2>2
  <2>4. \A f \in Edges : status'[f].set # "unreached" => status'[f].idx \in DOMAIN labels'
    <3>. SUFFICES ASSUME NEW f \in Edges, status'[f].set # "unreached"
         PROVE  status'[f].idx \in DOMAIN labels'
      OBVIOUS
    <3>1. CASE ~tmp /\ f = e
      BY <1>1, <1>2, <1>4, <2>2, <3>1
    <3>2. CASE tmp \/ f # e
      BY <1>4, <2>1, <2>2, <3>2
    <3>. QED
      BY <3>1, <3>2
  <2>. QED
    BY <1>2, <1>5, <2>1, <2>3, <2>4 DEF LabelTypes, Edges, Label
<1>11. cur' \in DOMAIN labels' \ queue' /\ "dest" \notin labels'[cur'].ends
  BY <1>1, <1>9
<1>12. TemporaryIsQueued'
  <2>. SUFFICES ASSUME NEW f \in Edges, status'[f].set = "temporary"
       PROVE  /\ status'[f].idx \in queue' /\ labels'[status'[f].idx].edge = f
              /\ labels'[status'[f].idx].ends = {}
    BY DEF TemporaryIsQueued, Edges
  <2>1. CASE ~tmp /\ f = e
    <3>1. status'[f].idx = Len(labels) + 1
      BY <1>4, <2>1 DEF LabelInv, LabelTypes
    <3>2. Len(labels) + 1 \in queue'
      BY <1>1, <1>2, <1>4, <2>1
    <3>. QED
      BY <1>2, <1>7, <2>1, <3>1, <3>2
  <2>2. CASE tmp \/ f # e
    <3>1. status'[f] = status[f]
      BY <1>4, <2>2 DEF LabelInv, LabelTypes
    <3>2. /\ status[f].idx \in queue /\ labels[status[f].idx].edge = f
          /\ labels[status[f].idx].ends = {}
      BY <3>1 DEF LabelInv, TemporaryIsQueued
    <3>3. labels[status[f].idx] \in Label
      BY <1>1, <3>2
    <3>4. labels'[status[f].idx].edge = f /\ labels'[status[f].idx].ends = {}
      <4>1. (upd.edge = labels[i].edge /\ upd.ends = labels[i].ends) \/ status[f].idx # i
        BY <3>3 DEF upd, Label
      <4>2. labels'[status[f].idx] = labels[status[f].idx]
            \/ (status[f].idx = i /\ labels'[status[f].idx] = upd)
        BY <1>1, <1>2, <3>2
      <4>. QED
        BY <3>2, <4>1, <4>2
    <3>. QED
      BY <1>4, <3>1, <3>2, <3>4
  <2>. QED
    BY <2>1, <2>2
<1>13. LabelsAddUp'
  <2>. SUFFICES ASSUME NEW j \in DOMAIN labels'
       PROVE  /\ labels'[j].sort = labels'[j].cost + Get(labels'[j].dist)
              /\ labels'[j].pred # 0 =>
                   /\ labels'[j].pred \in DOMAIN labels' \ queue'
                   /\ g.tail[labels'[j].edge] = g.head[labels'[labels'[j].pred].edge]
                   /\ labels'[j].cost = labels'[labels'[j].pred].cost
                        + g.penalty[labels'[labels'[j].pred].edge][labels'[j].edge]
                        + PartCost(g, labels'[j].edge) * PartsOf(destination, labels'[j])
    BY DEF LabelsAddUp
  <2>1. CASE j \in DOMAIN labels' \ DOMAIN labels
    BY <1>1, <1>8, <1>9, <2>1 DEF EndNode
  <2>2. CASE j \in DOMAIN labels /\ labels'[j] = labels[j]
    <3>1. /\ labels[j].sort = labels[j].cost + Get(labels[j].dist)
          /\ labels[j].pred # 0 =>
               /\ labels[j].pred \in DOMAIN labels \ queue
               /\ g.tail[labels[j].edge] = g.head[labels[labels[j].pred].edge]
               /\ labels[j].cost = labels[labels[j].pred].cost
                    + g.penalty[labels[labels[j].pred].edge][labels[j].edge]
                    + PartCost(g, labels[j].edge) * PartsOf(destination, labels[j])
      BY <2>2 DEF LabelInv, LabelsAddUp
    <3>. QED
      BY <1>9, <2>2, <3>1
  <2>3. CASE tmp /\ j = i /\ j \in DOMAIN labels /\ labels'[j] = upd
    <3>1. labels[i] \in Label /\ labels[i].sort = labels[i].cost + Get(labels[i].dist)
      BY <1>1, <2>3 DEF LabelInv, LabelsAddUp
    <3>2. /\ upd.edge = e /\ upd.pred = cur /\ upd.cost = new.cost /\ upd.ends = {}
          /\ upd.sort = labels[i].sort - (labels[i].cost - new.cost)
          /\ upd.dist = labels[i].dist
      BY <1>6, <2>3, <3>1 DEF upd, Label
    <3>3. Get(labels[i].dist) \in Nat
      BY <3>1, Product, SearchAssumption DEF Get, Label
    <3>4. upd.sort = upd.cost + Get(upd.dist)
      BY <1>7, <3>1, <3>2, <3>3 DEF Label
    <3>5. upd.cost = base + PartCost(g, e) * PartsOf(destination, upd)
      BY <1>7, <3>2 DEF PartsOf
    <3>. QED
      BY <1>1, <1>9, <2>3, <3>2, <3>4, <3>5 DEF EndNode
  <2>. QED
    BY <1>2, <2>1, <2>2, <2>3
<1>14. RestrictionsObeyed'
  <2>. SUFFICES ASSUME NEW j \in DOMAIN labels', labels'[j].pred # 0,
                       labels'[labels'[j].pred].pred # 0
       PROVE  <<labels'[labels'[labels'[j].pred].pred].edge, labels'[labels'[j].pred].edge,
                labels'[j].edge>> \notin g.restrictions
    BY DEF RestrictionsObeyed
  <2>1. ASSUME labels'[j].pred = cur, labels'[j].edge = e
        PROVE  <<labels'[labels'[labels'[j].pred].pred].edge, labels'[labels'[j].pred].edge,
                 labels'[j].edge>> \notin g.restrictions
    <3>1. labels'[cur] = labels[cur] /\ labels[cur].pred # 0
      BY <1>1, <1>9, <2>1
    <3>2. labels[cur].pred \in DOMAIN labels \ queue
      BY <1>1, <3>1 DEF LabelInv, LabelsAddUp
    <3>3. labels'[labels[cur].pred] = labels[labels[cur].pred]
      BY <1>9, <3>2
    <3>. QED
      BY <2>1, <3>1, <3>3 DEF Restricted
  <2>2. CASE j \in DOMAIN labels' \ DOMAIN labels
    BY <1>8, <2>1, <2>2
  <2>3. CASE j \in DOMAIN labels /\ labels'[j] = labels[j]
    <3>1. labels[j].pred \in DOMAIN labels \ queue
      BY <2>3 DEF LabelInv, LabelsAddUp
    <3>2. labels'[labels[j].pred] = labels[labels[j].pred]
      BY <1>9, <3>1
    <3>3. labels[labels[j].pred].pred \in DOMAIN labels \ queue
      BY <2>3, <3>1, <3>2 DEF LabelInv, LabelsAddUp
    <3>4. labels'[labels[labels[j].pred].pred] = labels[labels[labels[j].pred].pred]
      BY <1>9, <3>3
    <3>5. <<labels[labels[labels[j].pred].pred].edge, labels[labels[j].pred].edge,
            labels[j].edge>> \notin g.restrictions
      BY <2>3, <3>2 DEF LabelInv, RestrictionsObeyed
    <3>. QED
      BY <2>3, <3>2, <3>4, <3>5
  <2>4. CASE tmp /\ j = i /\ j \in DOMAIN labels /\ labels'[j] = upd
    <3>1. labels[i] \in Label
      BY <1>1, <2>4
    <3>2. upd.edge = e /\ upd.pred = cur
      BY <1>6, <2>4, <3>1 DEF upd, Label
    <3>. QED
      BY <2>1, <2>4, <3>2
  <2>. QED
    BY <1>2, <2>2, <2>3, <2>4
<1>15. LabelledEdges'
  <2>. SUFFICES ASSUME NEW j \in DOMAIN labels', "origin" \notin labels'[j].ends
       PROVE  status'[labels'[j].edge].idx \in DOMAIN labels'
    BY DEF LabelledEdges
  <2>1. labels'[j].edge \in Edges
    <3>1. labels'[j] \in Label
      BY <1>2
    <3>. QED
      BY <3>1 DEF Label
  <2>2. labels'[j].edge = e => status'[labels'[j].edge].idx \in DOMAIN labels'
    BY <1>1, <1>2, <1>4, <1>6, <2>1 DEF LabelInv, LabelTypes
  <2>3. ASSUME labels'[j].edge # e
        PROVE  status'[labels'[j].edge].idx \in DOMAIN labels'
    <3>1. j \in DOMAIN labels
      BY <1>8, <2>3
    <3>2. labels'[j] = labels[j]
      <4>1. j \in DOMAIN labels /\ labels[j] \in Label
        BY <1>1, <3>1
      <4>2. tmp /\ j = i => upd.edge = e
        BY <1>6, <4>1 DEF upd, Label
      <4>. QED
        BY <1>2, <2>3, <3>1, <4>2
    <3>3. status'[labels'[j].edge] = status[labels[j].edge]
      BY <1>4, <2>1, <2>3, <3>2 DEF LabelInv, LabelTypes
    <3>. QED
      BY <1>1, <1>2, <3>1, <3>2, <3>3 DEF LabelInv, LabelledEdges
  <2>. QED
    BY <2>2, <2>3
<1>. QED
  BY <1>10, <1>11, <1>12, <1>13, <1>14, <1>15 DEF LabelInv

\* ExpandInner keeps what holds of the labels, whether it relaxes, resets or returns early.
LEMMA ExpandInnerKeeps ==
  ASSUME g \in Graphs, IsLocation(g, destination), LabelInv,
         NEW e \in Edges, g.tail[e] = EndNode, NEW deadend, ExpandInner(e, deadend),
         UNCHANGED <<g, destination, cur>>
  PROVE  LabelInv'
<1>1. CASE UNCHANGED <<labels, queue, status, best>> /\ could' \in BOOLEAN
  BY <1>1 DEF LabelInv, LabelTypes, LabelsAddUp, TemporaryIsQueued, RestrictionsObeyed,
              LabelledEdges, Label, Edges
<1>2. CASE Reset(e) /\ UNCHANGED <<labels, queue, best, could>>
  <2>1. LabelTypes'
    BY <1>2 DEF LabelInv, LabelTypes, Reset, Label, Edges
  <2>2. TemporaryIsQueued'
    BY <1>2 DEF LabelInv, LabelTypes, Reset, TemporaryIsQueued, Edges
  <2>3. LabelledEdges'
    BY <1>2 DEF LabelInv, LabelTypes, Reset, LabelledEdges
  <2>. QED
    BY <1>2, <2>1, <2>2, <2>3 DEF LabelInv, LabelsAddUp, RestrictionsObeyed
<1>3. CASE status[e].set # "permanent" /\ ~Restricted(e) /\ could' = TRUE /\ Relax(e)
  BY <1>3, RelaxKeeps
<1>. QED
  BY <1>1, <1>2, <1>3 DEF ExpandInner, LabelInv, LabelTypes

\* While a node is expanded the invariant is kept by what is kept of the labels.
LEMMA ExpandingKeeps ==
  ASSUME IInv, Expanding, LabelInv',
         \/ pc' = "pop"
         \/ pc' = "expand" /\ k' \in 1 .. Len(Out) + 1 /\ Out' = Out,
         Len(labels') >= Len(labels)
  PROVE  IInv'
<1>1. /\ UNCHANGED <<g, origin, destination, todo, cursor, mindist, nc, n, cur, result>>
      /\ pc = "expand"
  BY DEF Expanding, query
<1>2. result' \in 0 .. Len(labels')
  BY <1>1 DEF IInv, TypeOK, LabelInv, LabelTypes
<1>3. TypeOK'
  <2>1. cur' \in DOMAIN labels'
    BY DEF LabelInv
  <2>. QED
    BY <1>1, <1>2, <2>1 DEF IInv, TypeOK, LabelInv, LabelTypes
<1>4. IsLocation(g, origin)' /\ IsLocation(g, destination)'
  BY <1>1 DEF IInv, IsLocation
<1>. QED
  BY <1>3, <1>4 DEF IInv, ExpandedIsPopped, LabelInv

\* Labels are never removed, and the edge of the expanded label stays the same.
LEMMA ExpandInnerGrows ==
  ASSUME g \in Graphs, IsLocation(g, destination), LabelInv,
         NEW e \in Edges, NEW deadend, ExpandInner(e, deadend), UNCHANGED <<g, destination, cur>>
  PROVE  Len(labels') >= Len(labels) /\ labels'[cur].edge = labels[cur].edge
<1>. labels \in Seq(Label) /\ cur \in DOMAIN labels \ queue
  BY DEF LabelInv, LabelTypes
<1>1. CASE labels' = labels
  BY <1>1
<1>2. CASE Relax(e)
  <2>1. status[e].set = "temporary" => status[e].idx \in queue
    BY DEF LabelInv, TemporaryIsQueued
  <2>2. Len(labels') >= Len(labels)
    BY <1>2, RelaxedLabels
  <2>3. labels'[cur] = labels[cur] \/ (status[e].set = "temporary" /\ cur = status[e].idx)
    BY <1>2, RelaxedLabels
  <2>. QED
    BY <2>1, <2>2, <2>3
<1>. QED
  BY <1>1, <1>2 DEF ExpandInner

----------------------------------------------------------------------------
\* Taking a label from the queue keeps the invariant, whatever becomes of it: its edge is
\* settled, so that its index is no longer that of a temporarily labelled edge.
LEMMA PopKeeps ==
  ASSUME IInv, NEW i \in queue, Pop(i), UNCHANGED <<query, todo, labels, best>>, could' \in BOOLEAN,
         \/ "dest" \in labels[i].ends /\ status' = status
         \/ status' = Settled(i),
         mindist' \in Nat, nc' \in Nat, result' \in 0 .. Len(labels),
         \/ pc' \in {"arrived", "settled", "failed"}
         \/ "dest" \notin labels[i].ends /\ StartExpand(i)
  PROVE  IInv'
<1>1. /\ UNCHANGED <<g, origin, destination, todo, labels, best>>
      /\ queue' = queue \ {i} /\ cursor' = Bucket(i) /\ n' = n + 1
      /\ labels \in Seq(Label) /\ i \in DOMAIN labels /\ queue \subseteq DOMAIN labels
  BY DEF Pop, query, IInv, TypeOK
<1>2. labels[i] \in Label
  BY <1>1
<1>3. labels[i].edge \in Edges /\ labels[i].sort \in Int
  BY <1>2 DEF Label
<1>4. cursor' \in Int
  BY <1>1, <1>3, SearchAssumption DEF Bucket, IInv, TypeOK
<1>5. /\ status \in [Edges -> [set : {"unreached", "temporary", "permanent"}, idx : Nat]]
      /\ \A e \in Edges : status[e].set # "unreached" => status[e].idx \in DOMAIN labels
      /\ \A e \in Edges : status[e].set = "temporary" =>
           /\ status[e].idx \in queue /\ labels[status[e].idx].edge = e
           /\ labels[status[e].idx].ends = {}
  BY DEF IInv, TypeOK, TemporaryIsQueued
<1>6. /\ status' \in [Edges -> [set : {"unreached", "temporary", "permanent"}, idx : Nat]]
      /\ \A e \in Edges : status'[e].idx = status[e].idx
      /\ \A e \in Edges : status'[e].set \in {status[e].set, "permanent"}
  <2>1. CASE status' = status
    BY <1>5, <2>1
  <2>2. CASE status' = [status EXCEPT ![labels[i].edge].set = "permanent"]
    <3>. DEFINE x == labels[i].edge
                v == [set |-> "permanent", idx |-> status[x].idx]
    <3>1. x \in Edges
      BY <1>3
    <3>2. status[x] \in [set : {"unreached", "temporary", "permanent"}, idx : Nat]
      BY <1>5, <3>1
    <3>3. /\ status' \in [Edges -> {status'[e] : e \in Edges}]
          /\ status'[x] = [status[x] EXCEPT !.set = "permanent"]
          /\ \A e \in Edges : e # x => status'[e] = status[e]
      BY <1>5, <2>2, <3>1
    <3>4. [status[x] EXCEPT !.set = "permanent"] = v
      BY <3>2
    <3>5. /\ v \in [set : {"unreached", "temporary", "permanent"}, idx : Nat]
          /\ v.idx = status[x].idx /\ v.set = "permanent"
      BY <3>2
    <3>. HIDE DEF x, v
    <3>6. ASSUME NEW e \in Edges
          PROVE  /\ status'[e] \in [set : {"unreached", "temporary", "permanent"}, idx : Nat]
                 /\ status'[e].idx = status[e].idx
                 /\ status'[e].set \in {status[e].set, "permanent"}
      <4>1. CASE e = x
        BY <3>3, <3>4, <3>5, <4>1
      <4>2. CASE e # x
        BY <1>5, <3>3, <4>2
      <4>. QED
        BY <4>1, <4>2
    <3>7. status' \in [Edges -> [set : {"unreached", "temporary", "permanent"}, idx : Nat]]
      BY <3>3, <3>6
    <3>. QED
      BY <3>6, <3>7
  <2>. QED
    BY <2>1, <2>2 DEF Settled
<1>7. \A e \in Edges : status'[e].set # "unreached" => status'[e].idx \in DOMAIN labels
  <2>. SUFFICES ASSUME NEW e \in Edges, status'[e].set # "unreached"
       PROVE  status'[e].idx \in DOMAIN labels
    OBVIOUS
  <2>1. CASE status[e].set # "unreached"
    BY <1>5, <1>6, <2>1
  <2>2. CASE status[e].set = "unreached"
    <3>1. e = labels[i].edge /\ "origin" \notin labels[i].ends
      BY <1>3, <1>5, <2>2 DEF Settled
    <3>. QED
      BY <1>1, <1>6, <3>1 DEF IInv, LabelledEdges
  <2>. QED
    BY <2>1, <2>2
<1>8. TypeOK'
  <2>1. result' \in 0 .. Len(labels') /\ best' \in 0 .. Len(labels') /\ n' \in Nat
    BY <1>1 DEF IInv, TypeOK
  <2>2. queue' \subseteq DOMAIN labels' /\ labels' \in Seq(Label)'
    BY <1>1 DEF Label, Edges
  <2>3. ASSUME pc' = "expand"
        PROVE  cur' \in DOMAIN labels' /\ k' \in 1 .. Len(Out)' + 1
    <3>1. cur' = i /\ k' = 1
      BY <2>3 DEF StartExpand
    <3>2. g.head[labels[i].edge] \in DOMAIN g.x
      BY <1>3, SearchAssumption DEF IInv, TypeOK, IsGraph, Edges
    <3>3. Out' = g.out[g.head[labels[i].edge]]
      BY <1>1, <3>1 DEF Out, EndNode
    <3>4. Len(Out') \in Nat
      BY <3>2, <3>3, SearchAssumption DEF IInv, TypeOK, IsGraph
    <3>. QED
      BY <1>1, <3>1, <3>4
  <2>4. pc' \in {"expand", "arrived", "settled", "failed"}
    BY DEF StartExpand
  <2>5. could' \in BOOLEAN /\ g' \in Graphs /\ todo' \subseteq origin'
    BY <1>1 DEF IInv, TypeOK
  <2>. QED
    BY <1>1, <1>4, <1>6, <1>7, <2>1, <2>2, <2>3, <2>4, <2>5 DEF TypeOK, Edges
<1>9. TemporaryIsQueued'
  <2>. SUFFICES ASSUME NEW e \in Edges, status'[e].set = "temporary"
       PROVE  /\ status'[e].idx \in queue' /\ labels[status'[e].idx].edge = e
              /\ labels[status'[e].idx].ends = {}
    BY <1>1 DEF TemporaryIsQueued, Edges
  <2>1. status[e].set = "temporary"
    BY <1>6
  <2>2. /\ status[e].idx \in queue /\ labels[status[e].idx].edge = e
        /\ labels[status[e].idx].ends = {}
    BY <1>5, <2>1
  <2>3. status[e].idx # i
    BY <1>3, <1>5, <2>2 DEF Settled
  <2>. QED
    BY <1>1, <1>6, <2>2, <2>3
<1>10. LabelsAddUp' /\ RestrictionsObeyed'
  BY <1>1 DEF IInv, LabelsAddUp, RestrictionsObeyed
<1>11. LabelledEdges'
  <2>1. \A j \in DOMAIN labels : labels[j] \in Label
    BY <1>1
  <2>2. \A j \in DOMAIN labels : labels[j].edge \in Edges
    BY <2>1 DEF Label
  <2>. QED
    BY <1>1, <1>6, <2>2 DEF IInv, LabelledEdges
<1>12. ExpandedIsPopped'
  BY <1>1 DEF ExpandedIsPopped, StartExpand
<1>13. IsLocation(g, origin)' /\ IsLocation(g, destination)'
  BY <1>1 DEF IInv, IsLocation
<1>. QED
  BY <1>8, <1>9, <1>10, <1>11, <1>12, <1>13 DEF IInv

\* The labels SetOrigin makes are labels without a predecessor.
LEMMA OriginLabelsType ==
  ASSUME g \in Graphs, IsLocation(g, origin), IsLocation(g, destination), NEW c \in origin
  PROVE  /\ OriginLabels(c) \in Seq(Label)
         /\ \A j \in DOMAIN OriginLabels(c) :
              /\ OriginLabels(c)[j].pred = 0
              /\ "origin" \in OriginLabels(c)[j].ends
              /\ OriginLabels(c)[j].sort = OriginLabels(c)[j].cost + Get(OriginLabels(c)[j].dist)
<1>. DEFINE there == {d \in DestinationsOn(destination, c.edge) : d.pos >= c.pos}
            d == CHOOSE d \in there : TRUE
            a == EdgeLabel(c.edge, 0, 0, 0, Parts - c.pos, {"origin"})
            b == EdgeLabel(c.edge, 0, 0, 0, d.pos - c.pos, {"origin", "dest"})
<1>1. c.edge \in Edges /\ c.pos \in Nat /\ Parts - c.pos \in Nat
  BY SearchAssumption DEF IsLocation, Edges
<1>2. a \in Label /\ a.pred = 0 /\ "origin" \in a.ends /\ a.sort = a.cost + Get(a.dist)
  BY <1>1, EdgeLabelType
<1>3. ASSUME there # {}
      PROVE  b \in Label /\ b.pred = 0 /\ "origin" \in b.ends /\ b.sort = b.cost + Get(b.dist)
  <2>1. d \in there
    BY <1>3
  <2>2. d.pos \in Nat /\ d.pos >= c.pos
    BY <2>1, SearchAssumption DEF DestinationsOn, SetDestination, IsLocation
  <2>3. d.pos - c.pos \in Nat
    BY <1>1, <2>2
  <2>. QED
    BY <1>1, <2>3, EdgeLabelType
<1>4. OriginLabels(c) = <<a>> \o (IF there = {} THEN <<>> ELSE <<b>>)
  BY DEF OriginLabels
<1>. HIDE DEF a, b, there
<1>5. CASE there = {}
  <2>1. OriginLabels(c) = <<a>>
    BY <1>4, <1>5
  <2>. QED
    BY <1>2, <2>1
<1>6. CASE there # {}
  <2>. DEFINE one == <<a>>
              two == <<b>>
  <2>1. OriginLabels(c) = one \o two
    BY <1>4, <1>6
  <2>2. one \in Seq(Label) /\ Len(one) = 1 /\ one[1] = a
    BY <1>2
  <2>3. two \in Seq(Label) /\ Len(two) = 1 /\ two[1] = b
    BY <1>3, <1>6
  <2>. HIDE DEF one, two
  <2>. DEFINE both == one \o two
  <2>4. /\ both \in Seq(Label) /\ Len(both) = Len(one) + Len(two)
        /\ \A i \in 1 .. Len(one) + Len(two) :
             both[i] = IF i <= Len(one) THEN one[i] ELSE two[i - Len(one)]
    BY <2>2, <2>3, ConcatProperties
  <2>. HIDE DEF both
  <2>5. DOMAIN both = 1 .. 2 /\ both[1] = a /\ both[2] = b
    BY <2>2, <2>3, <2>4
  <2>6. \A j \in DOMAIN both : both[j] = a \/ both[j] = b
    BY <2>5
  <2>. QED
    BY <1>2, <1>3, <1>6, <2>1, <2>4, <2>6 DEF both
<1>. QED
  BY <1>5, <1>6

\* The labels of the origin keep the invariant: they have no predecessor, and the labels
\* before them stay.
LEMMA SetOriginKeeps == ASSUME IInv, SetOrigin PROVE IInv'
<1>. DEFINE c == CHOOSE c \in todo : TRUE
            more == OriginLabels(c)
<1>1. /\ UNCHANGED <<g, origin, destination, cursor, status, best, mindist, nc, n, pc, cur,
                      k, could, result>>
      /\ pc = "origin" /\ todo' \subseteq todo /\ c \in todo
  BY DEF SetOrigin, query
<1>2. /\ labels \in Seq(Label) /\ queue \subseteq DOMAIN labels
      /\ g \in Graphs /\ c \in origin /\ todo' \subseteq origin
  BY <1>1 DEF IInv, TypeOK
<1>3. CASE UNCHANGED <<labels, queue>>
  <2>1. TypeOK'
    BY <1>1, <1>2, <1>3 DEF IInv, TypeOK, Label, Edges, Out, EndNode
  <2>2. ExpandedIsPopped' /\ LabelledEdges'
    BY <1>1, <1>3 DEF IInv, ExpandedIsPopped, LabelledEdges
  <2>3. LabelsAddUp' /\ TemporaryIsQueued' /\ RestrictionsObeyed'
    BY <1>1, <1>3 DEF IInv, LabelsAddUp, TemporaryIsQueued, RestrictionsObeyed, Edges
  <2>4. IsLocation(g, origin)' /\ IsLocation(g, destination)'
    BY <1>1 DEF IInv, IsLocation
  <2>. QED
    BY <2>1, <2>2, <2>3, <2>4 DEF IInv
<1>4. CASE /\ labels' = labels \o more
           /\ queue' = queue \cup (Len(labels) + 1 .. Len(labels'))
  <2>1. /\ more \in Seq(Label)
        /\ \A j \in DOMAIN more :
             more[j].pred = 0 /\ "origin" \in more[j].ends
             /\ more[j].sort = more[j].cost + Get(more[j].dist)
    BY <1>2, OriginLabelsType DEF IInv
  <2>. HIDE DEF more, c
  <2>2. /\ labels' \in Seq(Label) /\ Len(labels') = Len(labels) + Len(more)
        /\ \A i \in 1 .. Len(labels) + Len(more) :
             labels'[i] = IF i <= Len(labels) THEN labels[i] ELSE more[i - Len(labels)]
    BY <1>2, <1>4, <2>1, ConcatProperties
  <2>3. DOMAIN labels \subseteq DOMAIN labels' /\ queue' \subseteq DOMAIN labels'
    BY <1>2, <1>4, <2>1, <2>2
  <2>4. \A i \in DOMAIN labels : labels'[i] = labels[i]
    BY <1>2, <2>1, <2>2
  <2>5. \A i \in DOMAIN labels' \ DOMAIN labels :
          /\ labels'[i].pred = 0 /\ "origin" \in labels'[i].ends
          /\ labels'[i].sort = labels'[i].cost + Get(labels'[i].dist)
    <3>1. ASSUME NEW i \in DOMAIN labels' \ DOMAIN labels
          PROVE  i - Len(labels) \in DOMAIN more /\ labels'[i] = more[i - Len(labels)]
      BY <1>2, <2>1, <2>2
    <3>. QED
      BY <2>1, <3>1
  <2>6. \A i \in DOMAIN labels \ queue : i \in DOMAIN labels' \ queue'
    BY <1>2, <1>4, <2>1, <2>2
  <2>7. TypeOK'
    <3>1. labels' \in Seq(Label)'
      BY <1>1, <2>2 DEF Label, Edges
    <3>2. best' \in 0 .. Len(labels') /\ result' \in 0 .. Len(labels')
      BY <1>1, <1>2, <2>1, <2>2 DEF IInv, TypeOK
    <3>. QED
      BY <1>1, <1>2, <2>3, <3>1, <3>2 DEF IInv, TypeOK, Edges
  <2>8. ExpandedIsPopped'
    BY <1>1 DEF ExpandedIsPopped
  <2>9. LabelledEdges'
    BY <1>1, <2>3, <2>4, <2>5 DEF IInv, LabelledEdges
  <2>10. TemporaryIsQueued'
    <3>1. queue \subseteq queue'
      BY <1>4
    <3>. QED
      BY <1>1, <1>2, <2>4, <3>1 DEF IInv, TemporaryIsQueued, Edges
  <2>11. LabelsAddUp'
    <3>. SUFFICES ASSUME NEW j \in DOMAIN labels'
         PROVE  /\ labels'[j].sort = labels'[j].cost + Get(labels'[j].dist)
                /\ labels'[j].pred # 0 =>
                     /\ labels'[j].pred \in DOMAIN labels' \ queue'
                     /\ g.tail[labels'[j].edge] = g.head[labels'[labels'[j].pred].edge]
                     /\ labels'[j].cost = labels'[labels'[j].pred].cost
                          + g.penalty[labels'[labels'[j].pred].edge][labels'[j].edge]
                          + PartCost(g, labels'[j].edge) * PartsOf(destination, labels'[j])
      BY <1>1 DEF LabelsAddUp
    <3>1. CASE j \in DOMAIN labels' \ DOMAIN labels
      BY <2>5, <3>1
    <3>2. CASE j \in DOMAIN labels
      <4>1. /\ labels[j].sort = labels[j].cost + Get(labels[j].dist)
            /\ labels[j].pred # 0 =>
                 /\ labels[j].pred \in DOMAIN labels \ queue
                 /\ g.tail[labels[j].edge] = g.head[labels[labels[j].pred].edge]
                 /\ labels[j].cost = labels[labels[j].pred].cost
                      + g.penalty[labels[labels[j].pred].edge][labels[j].edge]
                      + PartCost(g, labels[j].edge) * PartsOf(destination, labels[j])
        BY <3>2 DEF IInv, LabelsAddUp
      <4>. QED
        BY <2>4, <2>6, <3>2, <4>1
    <3>. QED
      BY <3>1, <3>2
  <2>12. RestrictionsObeyed'
    <3>. SUFFICES ASSUME NEW j \in DOMAIN labels', labels'[j].pred # 0,
                         labels'[labels'[j].pred].pred # 0
         PROVE  <<labels'[labels'[labels'[j].pred].pred].edge, labels'[labels'[j].pred].edge,
                  labels'[j].edge>> \notin g.restrictions
      BY <1>1 DEF RestrictionsObeyed
    <3>1. j \in DOMAIN labels /\ labels'[j] = labels[j]
      BY <2>4, <2>5
    <3>2. labels[j].pred \in DOMAIN labels
      BY <3>1 DEF IInv, LabelsAddUp
    <3>3. labels'[labels[j].pred] = labels[labels[j].pred]
      BY <2>4, <3>2
    <3>4. labels[labels[j].pred].pred \in DOMAIN labels
      BY <3>1, <3>2, <3>3 DEF IInv, LabelsAddUp
    <3>5. labels'[labels[labels[j].pred].pred] = labels[labels[labels[j].pred].pred]
      BY <2>4, <3>4
    <3>6. <<labels[labels[labels[j].pred].pred].edge, labels[labels[j].pred].edge,
            labels[j].edge>> \notin g.restrictions
      BY <3>1, <3>3 DEF IInv, RestrictionsObeyed
    <3>. QED
      BY <3>1, <3>3, <3>5, <3>6
  <2>13. IsLocation(g, origin)' /\ IsLocation(g, destination)'
    BY <1>1 DEF IInv, IsLocation
  <2>. QED
    BY <2>7, <2>8, <2>9, <2>10, <2>11, <2>12, <2>13 DEF IInv
<1>. QED
  BY <1>3, <1>4 DEF SetOrigin

\* Steps that change only where the search is keep the invariant.
LEMMA OnlyStageKeeps ==
  ASSUME IInv, pc # "expand", pc' \in {"pop", "failed"}, n' \in Nat,
         UNCHANGED <<query, todo, labels, queue, cursor, status, best, mindist, nc, cur, k,
                     could, result>>
  PROVE  IInv'
<1>1. TypeOK'
  BY DEF IInv, TypeOK, Label, Edges, query
<1>2. ExpandedIsPopped' /\ LabelledEdges'
  BY DEF IInv, ExpandedIsPopped, LabelledEdges, query
<1>3. LabelsAddUp' /\ TemporaryIsQueued' /\ RestrictionsObeyed'
  BY DEF IInv, LabelsAddUp, TemporaryIsQueued, RestrictionsObeyed, Edges, query
<1>4. IsLocation(g, origin)' /\ IsLocation(g, destination)'
  BY DEF IInv, IsLocation, query
<1>. QED
  BY <1>1, <1>2, <1>3, <1>4 DEF IInv

\* Expanding an edge, in whichever way, keeps the invariant.
LEMMA ExpandStepKeeps ==
  ASSUME IInv, Expanding, NEW e \in Edges, g.tail[e] = EndNode, NEW deadend,
         ExpandInner(e, deadend),
         pc' = "pop" \/ (pc' = "expand" /\ k' \in 1 .. Len(Out) + 1)
  PROVE  IInv'
<1>1. pc = "expand" /\ UNCHANGED <<g, destination, cur>>
  BY DEF Expanding, query
<1>2. g \in Graphs /\ IsLocation(g, destination) /\ LabelInv
  BY <1>1, ExpandedEdges DEF IInv, TypeOK
<1>3. LabelInv'
  BY <1>1, <1>2, ExpandInnerKeeps
<1>4. Len(labels') >= Len(labels) /\ labels'[cur].edge = labels[cur].edge
  BY <1>1, <1>2, ExpandInnerGrows
<1>5. Out' = Out
  BY <1>1, <1>4 DEF Out, EndNode
<1>. QED
  BY <1>3, <1>4, <1>5, ExpandingKeeps

\* Every step keeps the inductive invariant.
LEMMA NextIInv == IInv /\ [Next]_vars => IInv'
<1>. SUFFICES ASSUME IInv, [Next]_vars PROVE IInv'
  OBVIOUS
<1>1. CASE SetOrigin
  BY <1>1, SetOriginKeeps
<1>2. CASE Begin
  BY <1>2, OnlyStageKeeps DEF Begin, IInv, TypeOK
<1>3. CASE Fail
  BY <1>3, OnlyStageKeeps DEF Fail, IInv, TypeOK
<1>4. ASSUME NEW i \in queue, Arrive(i) PROVE IInv'
  <2>1. /\ Pop(i) /\ UNCHANGED <<query, todo, labels, best>> /\ could' \in BOOLEAN
        /\ "dest" \in labels[i].ends /\ status' = status
        /\ mindist' \in Nat /\ nc' \in Nat /\ pc' = "arrived"
    BY <1>4 DEF Arrive, IInv, TypeOK
  <2>2. result' \in 0 .. Len(labels)
    BY <1>4 DEF Arrive, IInv, TypeOK
  <2>. QED
    BY <2>1, <2>2, PopKeeps
<1>5. ASSUME NEW i \in queue, PopCloser(i) PROVE IInv'
  <2>1. labels[i] \in Label
    BY DEF IInv, TypeOK
  <2>2. mindist' \in Nat
    BY <1>5, <2>1 DEF PopCloser, Label
  <2>3. /\ Pop(i) /\ UNCHANGED <<query, todo, labels, best>> /\ could' \in BOOLEAN
        /\ "dest" \notin labels[i].ends /\ status' = Settled(i)
        /\ nc' \in Nat /\ result' \in 0 .. Len(labels) /\ StartExpand(i)
    BY <1>5 DEF PopCloser, StartExpand, IInv, TypeOK
  <2>. QED
    BY <2>2, <2>3, PopKeeps
<1>6. ASSUME NEW i \in queue, PopOther(i) PROVE IInv'
  <2>1. /\ Pop(i) /\ UNCHANGED <<query, todo, labels, best>> /\ could' \in BOOLEAN
        /\ "dest" \notin labels[i].ends /\ status' = Settled(i)
        /\ mindist' \in Nat /\ nc' \in Nat /\ result' \in 0 .. Len(labels) /\ StartExpand(i)
    <3>1. mindist \in Nat /\ nc \in Nat /\ result \in 0 .. Len(labels)
      BY DEF IInv, TypeOK
    <3>2. mindist' \in Nat /\ nc' \in Nat /\ result' \in 0 .. Len(labels)
      BY <1>6, <3>1 DEF PopOther
    <3>3. could' \in BOOLEAN
      BY <1>6 DEF PopOther, StartExpand
    <3>. QED
      BY <1>6, <3>2, <3>3 DEF PopOther
  <2>. QED
    BY <2>1, PopKeeps
<1>7. ASSUME NEW i \in queue, GiveUp(i) PROVE IInv'
  <2>1. /\ Pop(i) /\ UNCHANGED <<query, todo, labels, best>> /\ could' \in BOOLEAN
        /\ "dest" \notin labels[i].ends /\ status' = Settled(i)
        /\ mindist' \in Nat /\ nc' \in Nat /\ result' \in 0 .. Len(labels)
        /\ pc' \in {"settled", "failed"}
    BY <1>7 DEF GiveUp, IInv, TypeOK
  <2>. QED
    BY <2>1, PopKeeps
<1>8. CASE ExpandBlocked
  <2>1. Back \in Edges /\ g.tail[Back] = EndNode
    BY <1>8, ExpandedEdges DEF ExpandBlocked, Expanding
  <2>. QED
    BY <1>8, <2>1, ExpandStepKeeps DEF ExpandBlocked
<1>9. CASE ExpandEdge
  <2>1. pc = "expand" /\ pc' = "expand" /\ k <= Len(Out) /\ k' = k + 1
    BY <1>9 DEF ExpandEdge, Expanding
  <2>2. Out[k] \in Edges /\ g.tail[Out[k]] = EndNode
    BY <2>1, ExpandedEdges
  <2>3. k \in 1 .. Len(Out) + 1
    BY <2>1 DEF IInv, TypeOK
  <2>4. Len(Out) \in Nat
    BY <2>1, OutType
  <2>5. k' \in 1 .. Len(Out) + 1
    BY <2>1, <2>3, <2>4
  <2>. QED
    BY <1>9, <2>1, <2>2, <2>5, ExpandStepKeeps DEF ExpandEdge
<1>10. CASE SkipBack \/ EndExpand
  <2>1. /\ Expanding /\ UNCHANGED <<labels, queue, status, best, could>>
    BY <1>10 DEF SkipBack, EndExpand
  <2>2. pc = "expand" /\ UNCHANGED <<g, destination, cur>>
    BY <2>1 DEF Expanding, query
  <2>3. LabelInv
    BY <2>2, ExpandedEdges
  <2>4. LabelInv'
    BY <2>1, <2>2, <2>3 DEF LabelInv, LabelTypes, LabelsAddUp, TemporaryIsQueued,
                            RestrictionsObeyed, LabelledEdges, Label, Edges
  <2>5. Out' = Out /\ Len(labels') >= Len(labels)
    BY <2>1, <2>2, <2>3 DEF Out, EndNode, LabelInv, LabelTypes
  <2>6. k \in 1 .. Len(Out) + 1 /\ Len(Out) \in Nat
    BY <2>2, OutType DEF IInv, TypeOK
  <2>7. pc' = "pop" \/ (pc' = "expand" /\ k' \in 1 .. Len(Out) + 1)
    BY <1>10, <2>2, <2>6 DEF SkipBack, EndExpand
  <2>. QED
    BY <2>1, <2>4, <2>5, <2>7, ExpandingKeeps
<1>11. CASE UTurn
  <2>1. Back \in Edges /\ g.tail[Back] = EndNode
    BY <1>11, ExpandedEdges DEF UTurn, Expanding
  <2>. QED
    BY <1>11, <2>1, ExpandStepKeeps DEF UTurn
<1>12. CASE UNCHANGED vars
  <2>1. TypeOK'
    BY <1>12 DEF vars, IInv, TypeOK, Label, Edges, Out, EndNode, query
  <2>2. ExpandedIsPopped' /\ LabelledEdges'
    BY <1>12 DEF vars, IInv, ExpandedIsPopped, LabelledEdges
  <2>3. LabelsAddUp' /\ TemporaryIsQueued' /\ RestrictionsObeyed'
    BY <1>12 DEF vars, IInv, LabelsAddUp, TemporaryIsQueued, RestrictionsObeyed, Edges
  <2>4. IsLocation(g, origin)' /\ IsLocation(g, destination)'
    BY <1>12 DEF vars, IInv, IsLocation
  <2>. QED
    BY <2>1, <2>2, <2>3, <2>4 DEF IInv
<1>. QED
  BY <1>1, <1>2, <1>3, <1>4, <1>5, <1>6, <1>7, <1>8, <1>9, <1>10, <1>11, <1>12 DEF Next

----------------------------------------------------------------------------
\* The types of the search are kept, and an edge that was reached has a label: the edge
\* status never points outside edgelabels_.
THEOREM TypeCorrect == Spec => []TypeOK
<1>1. IInv => TypeOK
  BY DEF IInv
<1>. QED
  BY <1>1, InitIInv, NextIInv, PTL DEF Spec

\* Costs add up along predecessors in every search: no label that FormPath walks through is
\* changed once another label was made from it.  A temporarily labelled edge has its label
\* in the queue, whatever is reset: decrease() always finds it.
THEOREM LabelsAlwaysConsistent == Spec => []LabelsConsistent
<1>1. IInv => LabelsConsistent
  BY DEF IInv, LabelsConsistent
<1>. QED
  BY <1>1, InitIInv, NextIInv, PTL DEF Spec

\* No search makes labels that take a restricted turn, although updates replace the
\* predecessors that the restriction was checked with.
THEOREM RestrictionsAlwaysObeyed == Spec => []RestrictionsObeyed
<1>1. IInv => RestrictionsObeyed
  BY DEF IInv
<1>. QED
  BY <1>1, InitIInv, NextIInv, PTL DEF Spec

----------------------------------------------------------------------------
\* Appending labels, adding them to the queue and lowering the sort costs of labels that are
\* still queued is what the queue allows its caller.
LEMMA GrowingUsesQueue ==
  ASSUME labels \in Seq(Label), labels' \in Seq(Label), Len(labels') >= Len(labels),
         queue' = queue \cup (Len(labels) + 1 .. Len(labels')),
         \A j \in DOMAIN labels :
           \/ labels'[j].sort = labels[j].sort
           \/ j \in queue /\ labels'[j].sort < labels[j].sort,
         pc # "failed", pc' # "failed", UNCHANGED <<cursor, cur>>
  PROVE  Queue!Relax
<1>1. /\ DOMAIN labels = 1 .. Len(labels) /\ DOMAIN labels' = 1 .. Len(labels')
      /\ Len(labels) \in Nat /\ Len(labels') \in Nat
  OBVIOUS
<1>2. DOMAIN labels \subseteq DOMAIN labels' /\ DOMAIN labels' \subseteq Nat
  BY <1>1
<1>3. queue' = queue \cup (DOMAIN labels' \ DOMAIN labels)
  BY <1>1
<1>. QED
  BY <1>2, <1>3 DEF Queue!Relax

\* A label taken from the queue, whatever becomes of it, is one of the lowest bucket.
LEMMA PoppingUsesQueue ==
  ASSUME IInv, NEW i \in queue, Pop(i), UNCHANGED labels, cur' = i,
         pc' # "failed" \/ nc' > MaxNoConvergence, nc' \in Nat
  PROVE  \E l \in queue : Queue!Pop(l)
<1>1. /\ queue \subseteq DOMAIN labels /\ i \in DOMAIN labels /\ i # 0
      /\ \A j \in DOMAIN labels : labels[j].sort \in Int
      /\ queue' = queue \ {i} /\ cursor' = Bucket(i) /\ i \in Lowest
      /\ cursor \in Int /\ BucketSize \in Nat \ {0} /\ MaxNoConvergence \in Nat
  <2>1. \A j \in DOMAIN labels : labels[j] \in Label
    BY DEF IInv, TypeOK
  <2>2. \A j \in DOMAIN labels : labels[j].sort \in Int
    BY <2>1 DEF Label
  <2>. QED
    BY <2>2, SearchAssumption, LimitsAssumption DEF IInv, TypeOK, Pop
<1>. DEFINE s == labels[i].sort
<1>2. \A a \in Int : /\ (a \div BucketSize) \in Int
                    /\ (a \div BucketSize) * BucketSize <= a
                    /\ a < (a \div BucketSize) * BucketSize + BucketSize
  BY <1>1, SMT
<1>3. \A a, b \in Int : a <= b => a * BucketSize <= b * BucketSize
  BY <1>1, SMT
<1>4. \A a \in Int : a * BucketSize \in Int
  BY <1>1
<1>5. cursor' \in Int /\ (cursor' = cursor \/ cursor' * BucketSize <= s)
  BY <1>1, <1>2 DEF Bucket
<1>6. \/ \A m \in queue : s < labels[m].sort + BucketSize
      \/ s < cursor * BucketSize + BucketSize
  <2>1. CASE s \div BucketSize <= cursor
    <3>1. s \in Int /\ cursor \in Int
      BY <1>1
    <3>. HIDE DEF s
    <3>2. (s \div BucketSize) * BucketSize <= cursor * BucketSize
      BY <1>2, <1>3, <2>1, <3>1
    <3>3. s < cursor * BucketSize + BucketSize
      BY <1>1, <1>2, <1>4, <3>1, <3>2
    <3>. QED
      BY <3>3
  <2>2. CASE cursor < s \div BucketSize
    <3>. SUFFICES ASSUME NEW m \in queue PROVE s < labels[m].sort + BucketSize
      OBVIOUS
    <3>. DEFINE t == labels[m].sort
    <3>1. t \in Int /\ s \in Int
      BY <1>1
    <3>2. Bucket(i) <= Bucket(m)
      BY <1>1 DEF Lowest
    <3>3. s \div BucketSize <= t \div BucketSize
      BY <1>1, <1>2, <2>2, <3>1, <3>2 DEF Bucket
    <3>. HIDE DEF s, t
    <3>4. (s \div BucketSize) * BucketSize <= (t \div BucketSize) * BucketSize
      BY <1>2, <1>3, <3>1, <3>3
    <3>5. s < t + BucketSize
      BY <1>1, <1>2, <1>4, <3>1, <3>4
    <3>. QED
      BY <3>5 DEF s, t
  <2>. QED
    BY <1>1, <1>2, <2>1, <2>2
<1>7. Queue!InOrder(i)
  BY <1>1, <1>6 DEF Queue!InOrder
<1>8. Queue!Pop(i)
  BY <1>1, <1>4, <1>5, <1>7 DEF Queue!Pop
<1>. QED
  BY <1>8

\* Every step of the search is a use of the queue within its contract, or leaves it alone.
LEMMA StepUsesQueue ==
  ASSUME IInv, IInv', [Next]_vars
  PROVE  [Queue!Next]_(Queue!vars)
<1>. USE DEF Queue!Next, Queue!vars
<1>1. /\ labels \in Seq(Label) /\ queue \subseteq DOMAIN labels
      /\ nc \in Nat /\ nc' \in Nat /\ MaxNoConvergence \in Nat
  BY SearchAssumption, LimitsAssumption DEF IInv, TypeOK
<1>2. labels' \in Seq(Label) \/ ~UNCHANGED g
  BY DEF IInv, TypeOK, Label, Edges
<1>3. CASE SetOrigin
  <2>1. pc = "origin" /\ UNCHANGED <<g, pc, cur, cursor, nc>>
    BY <1>3 DEF SetOrigin, query
  <2>2. CASE UNCHANGED <<labels, queue>>
    BY <2>1, <2>2
  <2>3. CASE /\ labels' = labels \o OriginLabels(CHOOSE c \in todo : TRUE)
             /\ queue' = queue \cup (Len(labels) + 1 .. Len(labels'))
    <3>. DEFINE c == CHOOSE x \in todo : TRUE
                more == OriginLabels(c)
    <3>1. c \in origin /\ g \in Graphs
      BY <1>3 DEF SetOrigin, IInv, TypeOK
    <3>2. more \in Seq(Label)
      BY <3>1, OriginLabelsType DEF IInv
    <3>. HIDE DEF more, c
    <3>3. labels' = labels \o more
      BY <2>3 DEF more, c
    <3>4. /\ Len(labels') >= Len(labels)
          /\ \A j \in DOMAIN labels : labels'[j] = labels[j]
      BY <1>1, <3>2, <3>3, ConcatProperties
    <3>. QED
      BY <1>1, <1>2, <2>1, <2>3, <3>4, GrowingUsesQueue
  <2>. QED
    BY <1>3, <2>2, <2>3 DEF SetOrigin
<1>4. CASE Begin
  BY <1>4 DEF Begin
<1>5. CASE Fail
  <2>1. /\ queue = {} /\ pc = "pop" /\ pc' = "failed"
        /\ UNCHANGED <<labels, queue, cursor, cur, nc>>
    BY <1>5 DEF Fail
  <2>2. cursor' * BucketSize \in Int
    BY SearchAssumption DEF IInv, TypeOK
  <2>3. CASE nc <= MaxNoConvergence
    BY <2>1, <2>2, <2>3 DEF Queue!PopNothing
  <2>4. CASE ~(nc <= MaxNoConvergence)
    BY <2>1, <2>4
  <2>. QED
    BY <2>3, <2>4
<1>6. ASSUME NEW i \in queue, Arrive(i) \/ PopCloser(i) \/ PopOther(i) \/ GiveUp(i)
      PROVE  \E l \in queue : Queue!Pop(l)
  <2>1. Pop(i) /\ UNCHANGED labels /\ cur' = i
    BY <1>6 DEF Arrive, PopCloser, PopOther, GiveUp, StartExpand
  <2>2. pc' # "failed" \/ nc' > MaxNoConvergence
    BY <1>1, <1>6 DEF Arrive, PopCloser, PopOther, GiveUp, StartExpand
  <2>. QED
    BY <1>1, <2>1, <2>2, PoppingUsesQueue
<1>7. ASSUME Expanding, NEW e \in Edges, NEW deadend, ExpandInner(e, deadend),
             pc' # "failed"
      PROVE  [Queue!Next]_(Queue!vars)
  <2>1. pc = "expand" /\ UNCHANGED <<g, destination, cur, cursor>> /\ g \in Graphs
    BY <1>7 DEF Expanding, query, IInv, TypeOK
  <2>2. LabelInv /\ IsLocation(g, destination)
    BY <2>1, ExpandedEdges DEF IInv
  <2>3. CASE UNCHANGED <<labels, queue>>
    BY <1>7, <2>1, <2>3
  <2>4. CASE Relax(e)
    <3>. DEFINE new == NextLabel(e, Parts, {})
    <3>1. /\ Len(labels') >= Len(labels)
          /\ \A j \in DOMAIN labels :
               \/ labels'[j] = labels[j]
               \/ /\ status[e].set = "temporary" /\ j = status[e].idx
                  /\ new.cost < labels[j].cost
                  /\ labels'[j] = [labels[j] EXCEPT
                       !.pred = cur, !.cost = new.cost,
                       !.sort = labels[j].sort - (labels[j].cost - new.cost)]
      BY <2>1, <2>2, <2>4, RelaxedLabels
    <3>2. queue' = queue \cup (Len(labels) + 1 .. Len(labels'))
      BY <2>4 DEF Relax
    <3>3. status[e].set = "temporary" => status[e].idx \in queue
      BY DEF IInv, TemporaryIsQueued
    <3>4. new.cost \in Nat
      <4>1. Parts \in Nat
        BY SearchAssumption
      <4>2. new \in Label
        BY <2>1, <2>2, <4>1, NextLabelType
      <4>. QED
        BY <4>2 DEF Label
    <3>. HIDE DEF new
    <3>5. ASSUME NEW j \in DOMAIN labels
          PROVE  \/ labels'[j].sort = labels[j].sort
                 \/ j \in queue /\ labels'[j].sort < labels[j].sort
      <4>1. labels[j] \in Label
        BY <1>1
      <4>2. labels[j].cost \in Nat /\ labels[j].sort \in Int
        BY <4>1 DEF Label
      <4>3. CASE labels'[j] = labels[j]
        BY <4>3
      <4>4. CASE labels'[j] # labels[j]
        <5>1. j \in queue /\ new.cost < labels[j].cost
          BY <3>1, <3>3, <4>4
        <5>2. labels'[j].sort = labels[j].sort - (labels[j].cost - new.cost)
          BY <3>1, <4>1, <4>4 DEF Label
        <5>. QED
          BY <3>4, <4>2, <5>1, <5>2
      <4>. QED
        BY <4>3, <4>4
    <3>6. Queue!Relax
      BY <1>1, <1>2, <1>7, <2>1, <3>1, <3>2, <3>5, GrowingUsesQueue
    <3>. QED
      BY <3>6
  <2>. QED
    BY <1>7, <2>3, <2>4 DEF ExpandInner
<1>8. CASE ExpandBlocked \/ UTurn
  <2>1. Back \in Edges
    BY <1>8, ExpandedEdges DEF ExpandBlocked, UTurn, Expanding
  <2>2. Expanding /\ ExpandInner(Back, TRUE) /\ pc' # "failed"
    BY <1>8 DEF ExpandBlocked, UTurn
  <2>. QED
    BY <1>7, <2>1, <2>2
<1>9. CASE ExpandEdge
  <2>1. Out[k] \in Edges
    BY <1>9, ExpandedEdges DEF ExpandEdge, Expanding
  <2>2. Expanding /\ ExpandInner(Out[k], FALSE) /\ pc' # "failed"
    BY <1>9 DEF ExpandEdge, Expanding
  <2>. QED
    BY <1>7, <2>1, <2>2
<1>10. CASE SkipBack \/ EndExpand
  <2>1. pc = "expand" /\ pc' # "failed" /\ UNCHANGED <<labels, queue, cursor, cur>>
    BY <1>10 DEF SkipBack, EndExpand, Expanding
  <2>. QED
    BY <2>1
<1>11. CASE UNCHANGED vars
  BY <1>11 DEF vars, query
<1>. QED
  BY <1>3, <1>4, <1>5, <1>6, <1>8, <1>9, <1>10, <1>11 DEF Next

\* The search keeps to the contract of its adjacency list: it lowers only labels that are
\* still queued, through updates of predecessors and resets of via edges, and takes them
\* in an order that LabelQueue, and so DoubleBucketQueue, admits.
THEOREM SearchUsesQueue == Spec => UsesLabelQueue
<1>1. Init => Queue!Init
  <2>. SUFFICES ASSUME Init PROVE Queue!Init
    OBVIOUS
  <2>1. labels = <<>> /\ queue = {} /\ cur = 0 /\ pc = "origin"
    BY DEF Init
  <2>2. cursor * BucketSize \in Int
    BY InitIInv, SearchAssumption DEF IInv, TypeOK
  <2>. QED
    BY <2>1, <2>2 DEF Queue!Init
<1>2. IInv /\ IInv' /\ [Next]_vars => [Queue!Next]_(Queue!vars)
  BY StepUsesQueue
<1>. QED
  BY <1>1, <1>2, InitIInv, NextIInv, PTL DEF Spec, UsesLabelQueue, Queue!Spec

----------------------------------------------------------------------------
\* The distance a label has to go, which updates never touch.
DistanceOf(l) == IF "dest" \in l.ends THEN 0 ELSE ToDestination(l.edge)

\* A label keeps its edge, its ends and its distance; new ones get their distance.
LEMMA LabelsGrow ==
  ASSUME IInv, [Next]_vars
  PROVE  /\ UNCHANGED query
         /\ \A j \in DOMAIN labels' :
              \/ /\ j \in DOMAIN labels
                 /\ labels'[j].edge = labels[j].edge /\ labels'[j].ends = labels[j].ends
                 /\ labels'[j].dist = labels[j].dist
              \/ labels'[j].dist = DistanceOf(labels'[j])
<1>. DEFINE Same(j) == /\ j \in DOMAIN labels
                       /\ labels'[j].edge = labels[j].edge /\ labels'[j].ends = labels[j].ends
                       /\ labels'[j].dist = labels[j].dist
            New(j) == labels'[j].dist = DistanceOf(labels'[j])
<1>1. UNCHANGED query
  BY DEF Next, vars, query, SetOrigin, Begin, Fail, Arrive, PopCloser, PopOther, GiveUp,
         ExpandBlocked, ExpandEdge, SkipBack, UTurn, EndExpand, Expanding
<1>2. labels \in Seq(Label) /\ g \in Graphs /\ IsLocation(g, destination)
  BY DEF IInv, TypeOK
<1>3. \A e, i, c, p, done, ends : 
        EdgeLabel(e, i, c, p, done, ends).dist = DistanceOf(EdgeLabel(e, i, c, p, done, ends))
  BY DEF EdgeLabel, DistanceOf
<1>4. CASE labels' = labels
  BY <1>1, <1>4
<1>5. CASE SetOrigin /\ labels' # labels
  <2>. DEFINE c == CHOOSE c \in todo : TRUE
              more == OriginLabels(c)
  <2>1. labels' = labels \o more /\ c \in origin
    BY <1>5 DEF SetOrigin, IInv, TypeOK
  <2>2. more \in Seq(Label)
    BY <1>2, <2>1, OriginLabelsType DEF IInv
  <2>3. \A j \in DOMAIN more : more[j].dist = DistanceOf(more[j])
    BY <1>3, <2>2 DEF OriginLabels
  <2>. HIDE DEF more, c
  <2>4. \A j \in DOMAIN labels' : 
          \/ j \in DOMAIN labels /\ labels'[j] = labels[j]
          \/ j - Len(labels) \in DOMAIN more /\ labels'[j] = more[j - Len(labels)]
    BY <1>2, <2>1, <2>2, ConcatProperties
  <2>. QED
    BY <1>1, <2>3, <2>4
<1>6. ASSUME NEW e \in Edges, Relax(e), pc = "expand"
      PROVE  \A j \in DOMAIN labels' : Same(j) \/ New(j)
  <2>1. LabelInv
    BY <1>6, ExpandedEdges
  <2>2. /\ \A j \in DOMAIN labels :
             \/ labels'[j] = labels[j]
             \/ labels'[j] = [labels[j] EXCEPT
                  !.pred = cur, !.cost = NextLabel(e, Parts, {}).cost,
                  !.sort = labels[j].sort - (labels[j].cost - NextLabel(e, Parts, {}).cost)]
        /\ \A j \in DOMAIN labels' \ DOMAIN labels :
             \/ labels'[j] = NextLabel(e, Parts, {})
             \/ labels'[j] = NextLabel(e, DestinationPos(destination, e), {"dest"})
    BY <1>2, <1>6, <2>1, RelaxedLabels, Zenon
  <2>3. \A j \in DOMAIN labels : labels[j] \in Label
    BY <1>2
  <2>4. ASSUME NEW j \in DOMAIN labels PROVE Same(j)
    <3>1. labels[j] \in Label
      BY <2>3
    <3>. QED
      BY <2>2, <3>1 DEF Label
  <2>5. ASSUME NEW j \in DOMAIN labels' \ DOMAIN labels PROVE New(j)
    <3>1. \A done, ends : NextLabel(e, done, ends).dist = DistanceOf(NextLabel(e, done, ends))
      BY <1>3, Zenon DEF NextLabel
    <3>2. PICK done, ends : labels'[j] = NextLabel(e, done, ends)
      BY <2>2, Zenon
    <3>. QED
      BY <3>1, <3>2, Zenon
  <2>. QED
    BY <2>4, <2>5
<1>7. ASSUME NEW e \in Edges, NEW deadend, ExpandInner(e, deadend), pc = "expand", labels' # labels
      PROVE  \A j \in DOMAIN labels' : Same(j) \/ New(j)
  BY <1>6, <1>7 DEF ExpandInner
<1>8. CASE ExpandBlocked \/ UTurn
  BY <1>1, <1>4, <1>7, <1>8, ExpandedEdges DEF ExpandBlocked, UTurn, Expanding
<1>9. CASE ExpandEdge
  BY <1>1, <1>4, <1>7, <1>9, ExpandedEdges DEF ExpandEdge, Expanding
<1>10. CASE Begin \/ Fail \/ (\E i \in queue : Arrive(i) \/ PopCloser(i) \/ PopOther(i) \/ GiveUp(i))
            \/ SkipBack \/ EndExpand \/ UNCHANGED vars
  BY <1>4, <1>10 DEF vars, Begin, Fail, Arrive, PopCloser, PopOther, GiveUp, SkipBack, EndExpand
<1>. QED
  BY <1>4, <1>5, <1>8, <1>9, <1>10 DEF Next

----------------------------------------------------------------------------
DistancesKept == \A i \in DOMAIN labels : labels[i].dist = DistanceOf(labels[i])

\* The nodes that are closer to the destination than d.
Closer(d) == {m \in DOMAIN g.x : Distance(g.x[m], Place(g, destination)) < d}

\* Iterations are paid for by nodes that were found closer to the destination than any
\* before, and by iterations without convergence since.
Counted ==
  pc \in {"origin", "pop", "expand"} =>
    /\ nc <= MaxNoConvergence + 1
    /\ n <= (Cardinality(DOMAIN g.x) - Cardinality(Closer(mindist))) * (MaxNoConvergence + 2) + nc

EInv == IInv /\ DistancesKept /\ Counted /\ SearchEnds

\* Updates leave the distance of a label alone, and new labels get theirs.
LEMMA DistancesStay == IInv /\ DistancesKept /\ [Next]_vars => DistancesKept'
<1>. SUFFICES ASSUME IInv, DistancesKept, [Next]_vars PROVE DistancesKept'
  OBVIOUS
<1>1. UNCHANGED <<g, destination>>
  BY LabelsGrow DEF query
<1>. SUFFICES ASSUME NEW j \in DOMAIN labels' PROVE labels'[j].dist = DistanceOf(labels[j])'
  BY DEF DistancesKept
<1>2. \A l : DistanceOf(l)' = DistanceOf(l)
  BY <1>1 DEF DistanceOf, ToDestination
<1>3. DistanceOf(labels[j])' = DistanceOf(labels'[j])
  BY <1>1 DEF DistanceOf, ToDestination
<1>4. CASE labels'[j].dist = DistanceOf(labels'[j])
  BY <1>3, <1>4
<1>5. CASE /\ j \in DOMAIN labels
           /\ labels'[j].edge = labels[j].edge /\ labels'[j].ends = labels[j].ends
           /\ labels'[j].dist = labels[j].dist
  <2>1. labels[j].dist = DistanceOf(labels[j])
    BY <1>5 DEF DistancesKept
  <2>2. DistanceOf(labels'[j]) = DistanceOf(labels[j])
    BY <1>5 DEF DistanceOf
  <2>. QED
    BY <1>3, <1>5, <2>1, <2>2
<1>. QED
  BY <1>4, <1>5, LabelsGrow

\* The closer nodes are some of the nodes; a label that is closer leaves out its own.
LEMMA CloserCount ==
  ASSUME IInv
  PROVE  /\ Cardinality(DOMAIN g.x) \in Nat
         /\ \A d \in Nat : /\ Cardinality(Closer(d)) \in Nat
                           /\ Cardinality(Closer(d)) <= Cardinality(DOMAIN g.x)
         /\ \A e \in Edges, d \in Nat :
              ToDestination(e) < d => Cardinality(Closer(ToDestination(e))) + 1 <= Cardinality(Closer(d))
<1>1. IsGraph(g) /\ IsFiniteSet(DOMAIN g.x)
  BY SearchAssumption DEF IInv, TypeOK, IsGraph
<1>2. \A d \in Nat : IsFiniteSet(Closer(d)) /\ Cardinality(Closer(d)) <= Cardinality(DOMAIN g.x)
  <2>1. \A d \in Nat : Closer(d) \subseteq DOMAIN g.x
    BY DEF Closer
  <2>. QED
    BY <1>1, <2>1, FS_Subset
<1>3. ASSUME NEW e \in Edges, NEW d \in Nat, ToDestination(e) < d
      PROVE  Cardinality(Closer(ToDestination(e))) + 1 <= Cardinality(Closer(d))
  <2>. DEFINE m == g.head[e]
              t == ToDestination(e)
  <2>1. m \in DOMAIN g.x /\ t = Distance(g.x[m], Place(g, destination))
    BY <1>1 DEF ToDestination, IsGraph, Edges
  <2>2. t \in Nat
    BY ToDestinationType DEF IInv, TypeOK
  <2>3. m \in Closer(d) /\ m \notin Closer(t)
    BY <1>3, <2>1, <2>2 DEF Closer
  <2>4. \A o \in DOMAIN g.x : Distance(g.x[o], Place(g, destination)) \in Nat
    <3>1. Place(g, destination) \in Int
      BY PlaceType DEF IInv, TypeOK
    <3>. QED
      BY <1>1, <3>1, DistanceType DEF IsGraph
  <2>5. Closer(t) \subseteq Closer(d)
    BY <1>3, <2>2, <2>4 DEF Closer
  <2>6. IsFiniteSet(Closer(d))
    BY <1>2
  <2>. DEFINE A == Closer(t)
              B == Closer(d)
  <2>. HIDE DEF A, B, t, m
  <2>7. A \subseteq B /\ A # B
    BY <2>3, <2>5 DEF A, B
  <2>8. Cardinality(A) < Cardinality(B) /\ Cardinality(A) \in Nat /\ Cardinality(B) \in Nat
    BY <2>6, <2>7, FS_Subset, FS_CardinalityType DEF B
  <2>. QED
    BY <2>8 DEF A, B, t
<1>. QED
  BY <1>1, <1>2, <1>3, FS_CardinalityType

\* No iteration was counted yet when the search begins.
LEMMA InitEInv == Init => EInv
<1>. SUFFICES ASSUME Init PROVE EInv
  OBVIOUS
<1>1. IInv
  BY InitIInv
<1>2. DistancesKept
  BY DEF Init, DistancesKept
<1>3. n = 0 /\ nc = 0 /\ mindist \in Nat
  BY <1>1 DEF Init, IInv, TypeOK
<1>. DEFINE all == Cardinality(DOMAIN g.x)
            close == Cardinality(Closer(mindist))
<1>4. all \in Nat /\ all - close \in Nat /\ MaxNoConvergence + 2 \in Nat /\ MaxNoConvergence \in Nat
  BY <1>1, <1>3, CloserCount, LimitsAssumption
<1>. HIDE DEF all, close
<1>5. (all - close) * (MaxNoConvergence + 2) \in Nat /\ (all + 1) * (MaxNoConvergence + 2) \in Nat
  <2>1. all + 1 \in Nat
    BY <1>4
  <2>. QED
    BY <1>4, <2>1, Product
<1>6. Counted /\ SearchEnds
  BY <1>3, <1>4, <1>5 DEF Counted, SearchEnds, all, close
<1>. QED
  BY <1>1, <1>2, <1>6 DEF EInv

\* An iteration is paid for by a closer node or counted.
LEMMA NextEInv == EInv /\ [Next]_vars => EInv'
<1>. SUFFICES ASSUME EInv, [Next]_vars PROVE EInv'
  OBVIOUS
<1>1. IInv /\ IInv' /\ DistancesKept'
  BY NextIInv, DistancesStay DEF EInv
<1>2. UNCHANGED <<g, destination>>
  BY <1>1, LabelsGrow DEF query
<1>. DEFINE all == Cardinality(DOMAIN g.x)
            close == Cardinality(Closer(mindist))
            new == Cardinality(Closer(mindist'))
            more == MaxNoConvergence + 2
<1>3. all \in Nat /\ close \in Nat /\ new \in Nat /\ more \in Nat /\ close <= all /\ new <= all
  <2>1. mindist \in Nat /\ mindist' \in Nat
    BY <1>1 DEF IInv, TypeOK
  <2>2. MaxNoConvergence + 2 \in Nat
    BY LimitsAssumption
  <2>. QED
    BY <1>1, <2>1, <2>2, CloserCount
<1>4. n \in Nat /\ nc \in Nat /\ nc' \in Nat /\ MaxNoConvergence \in Nat
  BY <1>1, LimitsAssumption DEF IInv, TypeOK
<1>5. Cardinality(DOMAIN g.x)' = all /\ Cardinality(Closer(mindist))' = new
  BY <1>2 DEF Closer
<1>6. /\ SearchEnds <=> n <= (all + 1) * more
      /\ SearchEnds' <=> n' <= (all + 1) * more
      /\ Counted <=> (pc \in {"origin", "pop", "expand"} =>
                        nc <= MaxNoConvergence + 1 /\ n <= (all - close) * more + nc)
      /\ Counted' <=> (pc' \in {"origin", "pop", "expand"} =>
                        nc' <= MaxNoConvergence + 1 /\ n' <= (all - new) * more + nc')
  BY <1>5 DEF SearchEnds, Counted
<1>. HIDE DEF all, close, new
<1>7. /\ (all + 1) * more = all * more + more
      /\ (all - close) * more = all * more - close * more
      /\ (all - new) * more = all * more - new * more
      /\ all * more \in Int /\ close * more \in Int /\ new * more \in Int
      /\ 0 <= close * more /\ 0 <= new * more
  <2>1. more \in Nat
    BY <1>3
  <2>. HIDE DEF more
  <2>2. /\ (all + 1) * more = all * more + more
        /\ (all - close) * more = all * more - close * more
        /\ (all - new) * more = all * more - new * more
    BY <1>3, <2>1, SMT
  <2>3. all * more \in Nat /\ close * more \in Nat /\ new * more \in Nat
    BY <1>3, <2>1, Product
  <2>. QED
    BY <2>2, <2>3
<1>8. ASSUME new + 1 <= close PROVE new * more + more <= close * more
  <2>1. (new + 1) * more = new * more + more /\ close * more = more * close
        /\ (new + 1) * more = more * (new + 1)
    BY <1>3, SMT
  <2>2. more * (new + 1) <= more * close
    <3>1. new + 1 \in Int /\ more \in Nat /\ close \in Int
      BY <1>3
    <3>. HIDE DEF more
    <3>. QED
      BY <1>8, <3>1, Ordered
  <2>. QED
    BY <2>1, <2>2
<1>9. Counted /\ SearchEnds
  BY DEF EInv
<1>10. CASE n' = n /\ (UNCHANGED <<nc, mindist, pc>> \/
                       (UNCHANGED <<nc, mindist>> /\ pc \in {"origin", "pop", "expand"}))
  <2>1. new = close
    BY <1>10 DEF new, close
  <2>. QED
    BY <1>1, <1>6, <1>9, <1>10, <2>1 DEF EInv
<1>11. CASE pc = "pop" /\ n' = n + 1 /\ pc' \in {"arrived", "settled", "failed"}
  <2>1. n + 1 <= all * more + more
    BY <1>3, <1>4, <1>6, <1>7, <1>9, <1>11
  <2>. QED
    BY <1>1, <1>6, <1>7, <1>11, <2>1 DEF EInv
<1>12. CASE pc = "pop" /\ n' = n + 1 /\ new = close /\ nc' = nc + 1 /\ nc <= MaxNoConvergence
  <2>1. nc <= MaxNoConvergence + 1 /\ n <= all * more - close * more + nc
    BY <1>6, <1>7, <1>9, <1>12
  <2>2. /\ nc' <= MaxNoConvergence + 1 /\ n' <= all * more - new * more + nc'
        /\ n' <= all * more + more
    BY <1>3, <1>4, <1>7, <1>12, <2>1
  <2>. QED
    BY <1>1, <1>6, <1>7, <2>2 DEF EInv
<1>13. CASE pc = "pop" /\ n' = n + 1 /\ new + 1 <= close /\ nc' = 0
  <2>1. nc <= MaxNoConvergence + 1 /\ n <= all * more - close * more + nc
    BY <1>6, <1>7, <1>9, <1>13
  <2>2. /\ nc' <= MaxNoConvergence + 1 /\ n' <= all * more - new * more + nc'
        /\ n' <= all * more + more
    BY <1>3, <1>4, <1>7, <1>8, <1>13, <2>1
  <2>. QED
    BY <1>1, <1>6, <1>7, <2>2 DEF EInv
<1>14. ASSUME NEW i \in queue, PopCloser(i) PROVE new + 1 <= close
  <2>1. labels[i] \in Label /\ labels[i].dist = DistanceOf(labels[i])
    BY <1>1 DEF IInv, TypeOK, EInv, DistancesKept
  <2>2. labels[i].edge \in Edges /\ labels[i].dist = ToDestination(labels[i].edge)
    BY <1>14, <2>1 DEF PopCloser, DistanceOf, Label
  <2>3. mindist' = ToDestination(labels[i].edge) /\ ToDestination(labels[i].edge) < mindist
    BY <1>14, <2>2 DEF PopCloser
  <2>4. mindist \in Nat
    BY <1>1 DEF IInv, TypeOK
  <2>. QED
    BY <1>1, <2>2, <2>3, <2>4, CloserCount DEF new, close
<1>15. ASSUME NEW i \in queue, Arrive(i) \/ PopCloser(i) \/ PopOther(i) \/ GiveUp(i)
       PROVE  EInv'
  <2>1. Pop(i)
    BY <1>15 DEF Arrive, PopCloser, PopOther, GiveUp
  <2>2. pc = "pop" /\ n' = n + 1
    BY <2>1 DEF Pop
  <2>3. CASE Arrive(i) \/ GiveUp(i)
    BY <1>11, <2>2, <2>3 DEF Arrive, GiveUp
  <2>4. CASE PopCloser(i)
    BY <1>13, <1>14, <2>2, <2>4 DEF PopCloser
  <2>5. CASE PopOther(i)
    <3>1. new = close /\ nc' = nc + 1 /\ nc <= MaxNoConvergence
      BY <2>5 DEF PopOther, new, close
    <3>. QED
      BY <1>12, <2>2, <3>1
  <2>. QED
    BY <1>15, <2>3, <2>4, <2>5
<1>16. CASE SetOrigin \/ Begin \/ ExpandBlocked \/ ExpandEdge \/ SkipBack \/ UTurn \/ EndExpand
            \/ UNCHANGED vars
  <2>1. n' = n /\ (UNCHANGED <<nc, mindist, pc>> \/
                   (UNCHANGED <<nc, mindist>> /\ pc \in {"origin", "pop", "expand"}))
    BY <1>16 DEF SetOrigin, Begin, ExpandBlocked, ExpandEdge, SkipBack, UTurn, EndExpand,
                 Expanding, vars
  <2>. QED
    BY <1>10, <2>1
<1>17. CASE Fail
  BY <1>11, <1>17 DEF Fail
<1>. QED
  BY <1>15, <1>16, <1>17 DEF Next

\* Whatever restrictions reset, the search ends after a number of iterations that the nodes
\* and kMaxIterationsWithoutConvergence bound: a label that is closer to the destination
\* than any before is at another node.
THEOREM SearchAlwaysEnds == Spec => []SearchEnds
<1>1. EInv => SearchEnds
  BY DEF EInv
<1>. QED
  BY <1>1, InitEInv, NextEInv, PTL DEF Spec

----------------------------------------------------------------------------
\* Nothing is restricted, and Allowed admits edges at all: it compares a truth value with
\* the greatest distance.
Clear == g.restrictions = {} /\ MaxDistance # 0

ToDest(i) == "dest" \in labels[i].ends

\* What expanding an edge does to its label, its status and the destination on it.
LEMMA Relaxed ==
  ASSUME g \in Graphs, IsLocation(g, destination), LabelInv,
         NEW e \in Edges, Relax(e), status[e].set # "permanent"
  PROVE  /\ labels' \in Seq(Label) /\ DOMAIN labels \subseteq DOMAIN labels'
         /\ queue' = queue \cup (DOMAIN labels' \ DOMAIN labels)
         /\ \A j \in DOMAIN labels :
              \/ labels'[j] = labels[j]
              \/ /\ j \in queue /\ labels[j].edge = e /\ labels[j].ends = {} /\ j = status'[e].idx
                 /\ labels'[j].edge = e /\ labels'[j].ends = {} /\ labels'[j].pred = cur
                 /\ labels'[j].dist = labels[j].dist
                 /\ labels'[j].cost = NextLabel(e, Parts, {}).cost
                 /\ labels'[j].cost < labels[j].cost
         /\ \A j \in DOMAIN labels' \ DOMAIN labels :
              \/ labels'[j] = NextLabel(e, Parts, {}) /\ j = status'[e].idx
              \/ /\ labels'[j] = NextLabel(e, DestinationPos(destination, e), {"dest"})
                 /\ DestinationsOn(destination, e) # {}
         /\ status'[e].set = "temporary" /\ status'[e].idx \in DOMAIN labels' \cap queue'
         /\ labels'[status'[e].idx].edge = e /\ labels'[status'[e].idx].ends = {}
         /\ labels'[status'[e].idx].cost <= NextLabel(e, Parts, {}).cost
         /\ status[e].set # "unreached" => status' = status
         /\ status[e].set = "unreached" => status'[e].idx \notin DOMAIN labels
         /\ \A f \in Edges : f # e => status'[f] = status[f]
         /\ DestinationsOn(destination, e) # {} =>
              \E j \in DOMAIN labels' :
                labels'[j] = NextLabel(e, DestinationPos(destination, e), {"dest"})
<1>. DEFINE tmp == status[e].set = "temporary"
            i == status[e].idx
            new == NextLabel(e, Parts, {})
            there == NextLabel(e, DestinationPos(destination, e), {"dest"})
            dests == DestinationsOn(destination, e)
            upd == [labels[i] EXCEPT !.pred = cur, !.cost = new.cost,
                                     !.sort = labels[i].sort - (labels[i].cost - new.cost)]
            toend == IF tmp THEN Updated(e) ELSE Append(labels, new)
<1>1. /\ labels \in Seq(Label) /\ queue \subseteq DOMAIN labels
      /\ DOMAIN labels = 1 .. Len(labels) /\ Len(labels) \in Nat /\ Parts \in Nat /\ cur \in Nat
      /\ status \in [Edges -> [set : {"unreached", "temporary", "permanent"}, idx : Nat]]
      /\ tmp => i \in queue /\ labels[i].edge = e /\ labels[i].ends = {}
  BY SearchAssumption DEF LabelInv, LabelTypes, TemporaryIsQueued
<1>2. /\ labels' \in Seq(Label) /\ Len(labels') >= Len(labels) /\ Len(labels') \in Nat
      /\ DOMAIN labels' = 1 .. Len(labels')
      /\ ~tmp => Len(labels') > Len(labels) /\ labels'[Len(labels) + 1] = new
  <2>1. /\ labels' \in Seq(Label) /\ Len(labels') >= Len(labels)
        /\ ~tmp => Len(labels') > Len(labels) /\ labels'[Len(labels) + 1] = new
    BY RelaxedLabels, Zenon
  <2>. HIDE DEF tmp, new
  <2>. QED
    BY <2>1
<1>3. /\ queue' = queue \cup (Len(labels) + 1 .. Len(labels'))
      /\ labels' = IF dests = {} THEN toend ELSE Append(toend, there)
      /\ tmp => status' = status
      /\ ~tmp => status' = [status EXCEPT ![e] = [set |-> "temporary", idx |-> Len(labels) + 1]]
  <2>1. labels' = IF dests = {} THEN toend ELSE Append(toend, there)
    BY Zenon DEF Relax
  <2>2. status' = IF tmp THEN status
                  ELSE [status EXCEPT ![e] = [set |-> "temporary", idx |-> Len(labels) + 1]]
    BY DEF Relax
  <2>3. queue' = queue \cup (Len(labels) + 1 .. Len(labels'))
    BY DEF Relax
  <2>. QED
    BY <2>1, <2>2, <2>3
<1>4. /\ new \in Label /\ new.edge = e /\ new.pred = cur /\ new.ends = {}
  <2>1. {} \in SUBSET {"origin", "dest"}
    OBVIOUS
  <2>2. \A ends \in SUBSET {"origin", "dest"} :
          LET l == NextLabel(e, Parts, ends) IN
            l \in Label /\ l.edge = e /\ l.pred = cur /\ l.ends = ends
    <3>. HIDE DEF tmp, i, new, there, dests, upd, toend
    <3>1. Parts \in Nat
      BY <1>1
    <3>2. SUFFICES ASSUME NEW ends \in SUBSET {"origin", "dest"}
                   PROVE  LET l == NextLabel(e, Parts, ends) IN
                            l \in Label /\ l.edge = e /\ l.pred = cur /\ l.ends = ends
      OBVIOUS
    <3>3. LET l == NextLabel(e, Parts, ends) IN
            /\ l \in Label
            /\ l.edge = e /\ l.pred = cur
            /\ l.cost = labels[cur].cost + g.penalty[labels[cur].edge][e] + PartCost(g, e) * Parts
            /\ l.sort = l.cost + Get(l.dist)
            /\ l.ends = ends
      BY <3>1, NextLabelType
    <3>. QED
      BY <3>3
  <2>. QED
    BY <2>1, <2>2, Zenon
<1>5. dests # {} => there \in Label
  BY DestinationPart, NextLabelType
<1>6. Updated(e) = IF new.cost < labels[i].cost
                   THEN [labels EXCEPT ![i].pred = cur, ![i].cost = new.cost,
                                       ![i].sort = @ - (labels[i].cost - new.cost)]
                   ELSE labels
  BY DEF Updated
<1>7. toend \in Seq(Label) /\ Len(toend) = IF tmp THEN Len(labels) ELSE Len(labels) + 1
  <2>1. CASE ~tmp
    BY <1>1, <1>4, <2>1
  <2>2. CASE tmp
    <3>1. i \in DOMAIN labels
      BY <1>1, <2>2
    <3>2. labels[i] \in Label
      BY <1>1, <3>1
    <3>. DEFINE v == labels[i]
                cost == new.cost
                sort == v.sort - (v.cost - new.cost)
                l == [v EXCEPT !.pred = cur, !.cost = cost, !.sort = sort]
    <3>3. v \in Label /\ cost \in Nat /\ sort \in Int
      BY <1>4, <3>2 DEF Label
    <3>4. l \in Label
      <4>. HIDE DEF v, cost, sort
      <4>. QED
        BY <1>1, <3>3 DEF Label
    <3>. DEFINE all == [labels EXCEPT ![i].pred = cur, ![i].cost = new.cost,
                                     ![i].sort = @ - (labels[i].cost - new.cost)]
    <3>5. all = [labels EXCEPT ![i] = l]
      BY <1>1, <3>1, <3>2 DEF Label
    <3>6. Updated(e) = all \/ Updated(e) = labels
      BY <1>6
    <3>. HIDE DEF l, all
    <3>7. all \in Seq(Label) /\ Len(all) = Len(labels)
      BY <1>1, <3>1, <3>4, <3>5
    <3>8. Updated(e) \in Seq(Label) /\ Len(Updated(e)) = Len(labels)
      BY <1>1, <3>6, <3>7
    <3>. QED
      BY <2>2, <3>8
  <2>. QED
    BY <2>1, <2>2
<1>8. \A j \in DOMAIN labels :
        \/ labels'[j] = labels[j]
        \/ tmp /\ j = i /\ new.cost < labels[j].cost /\ labels'[j] = upd
  <2>. DEFINE u(j) == [labels[j] EXCEPT
                         !.pred = cur, !.cost = new.cost,
                         !.sort = labels[j].sort - (labels[j].cost - new.cost)]
  <2>1. \A j \in DOMAIN labels :
          labels'[j] = labels[j] \/ (tmp /\ j = i /\ new.cost < labels[j].cost /\ labels'[j] = u(j))
    BY RelaxedLabels, Zenon
  <2>2. u(i) = upd
    OBVIOUS
  <2>. HIDE DEF u, upd, tmp, new
  <2>. QED
    BY <2>1, <2>2
<1>9. \A j \in DOMAIN labels' \ DOMAIN labels :
        \/ labels'[j] = new /\ ~tmp /\ j = Len(labels) + 1
        \/ labels'[j] = there /\ dests # {}
  <2>1. (Len(toend) = Len(labels) + 1 /\ ~tmp) \/ (Len(toend) = Len(labels) /\ tmp)
    BY <1>7
  <2>. SUFFICES ASSUME NEW j \in DOMAIN labels' \ DOMAIN labels
       PROVE  \/ labels'[j] = new /\ ~tmp /\ j = Len(labels) + 1
              \/ labels'[j] = there /\ dests # {}
    OBVIOUS
  <2>2. j \in Nat /\ Len(labels) < j /\ j <= Len(labels')
    BY <1>1, <1>2
  <2>. DEFINE t == toend
  <2>3. t \in Seq(Label) /\ Len(t) = Len(toend) /\ Len(t) \in Nat
    BY <1>7
  <2>4. labels' = IF dests = {} THEN t ELSE Append(t, there)
    BY <1>3
  <2>5. j = Len(labels) + 1 /\ ~tmp => labels'[j] = new
    BY <1>2
  <2>. HIDE DEF toend, t, new, there
  <2>6. CASE dests = {}
    <3>1. Len(labels') = Len(toend)
      BY <2>3, <2>4, <2>6
    <3>2. ~tmp /\ j = Len(labels) + 1
      BY <1>1, <2>1, <2>2, <3>1
    <3>. QED
      BY <2>5, <3>2
  <2>7. CASE dests # {}
    <3>1. Len(labels') = Len(toend) + 1 /\ labels'[Len(toend) + 1] = there
      BY <1>5, <2>3, <2>4, <2>7
    <3>2. j = Len(toend) + 1 \/ (~tmp /\ j = Len(labels) + 1)
      <4>1. Len(labels) \in Nat
        BY <1>1
      <4>2. CASE Len(toend) = Len(labels) + 1 /\ ~tmp
        BY <2>2, <3>1, <4>1, <4>2
      <4>3. CASE Len(toend) = Len(labels)
        BY <2>2, <3>1, <4>1, <4>3
      <4>. QED
        BY <2>1, <4>2, <4>3
    <3>. QED
      BY <2>5, <2>7, <3>1, <3>2
  <2>. QED
    BY <2>6, <2>7
<1>10. dests # {} => \E j \in DOMAIN labels' : labels'[j] = there
  <2>. HIDE DEF toend, there
  <2>. SUFFICES ASSUME dests # {} PROVE \E j \in DOMAIN labels' : labels'[j] = there
    OBVIOUS
  <2>1. labels' = Append(toend, there)
    BY <1>3
  <2>2. Len(toend) + 1 \in DOMAIN labels' /\ labels'[Len(toend) + 1] = there
    BY <1>5, <1>7, <2>1
  <2>. QED
    BY <2>2
<1>11. queue' = queue \cup (DOMAIN labels' \ DOMAIN labels) /\ DOMAIN labels \subseteq DOMAIN labels'
  BY <1>1, <1>2, <1>3
<1>12. tmp => /\ labels[i] \in Label
              /\ upd.edge = e /\ upd.ends = {} /\ upd.pred = cur
              /\ upd.dist = labels[i].dist /\ upd.cost = new.cost
  <2>. SUFFICES ASSUME tmp
       PROVE  /\ labels[i] \in Label
              /\ upd.edge = e /\ upd.ends = {} /\ upd.pred = cur
              /\ upd.dist = labels[i].dist /\ upd.cost = new.cost
    OBVIOUS
  <2>1. labels[i] \in Label
    BY <1>1
  <2>. HIDE DEF new
  <2>. QED
    BY <1>1, <2>1 DEF Label
<1>13. /\ status'[e].set = "temporary" /\ status'[e].idx \in DOMAIN labels' \cap queue'
       /\ status'[e].idx = IF tmp THEN i ELSE Len(labels) + 1
  BY <1>1, <1>2, <1>3
<1>14. /\ labels'[status'[e].idx].edge = e /\ labels'[status'[e].idx].ends = {}
       /\ labels'[status'[e].idx].cost <= new.cost
  <2>. HIDE DEF new, upd
  <2>1. CASE ~tmp
    <3>1. new.cost \in Nat
      BY <1>4 DEF Label
    <3>. QED
      BY <1>2, <1>4, <1>13, <2>1, <3>1
  <2>2. CASE tmp
    <3>1. i \in DOMAIN labels /\ labels[i].cost \in Nat /\ new.cost \in Nat
      BY <1>1, <1>4, <1>12, <2>2 DEF Label
    <3>2. labels' [i] = labels[i] \/ labels'[i] = upd
      BY <1>8, <3>1
    <3>3. CASE labels'[i] = labels[i]
      <4>1. labels' = Updated(e) \/ labels' = Append(Updated(e), there)
        BY <1>3, <2>2
      <4>2. labels'[i] = Updated(e)[i]
        <5>1. Updated(e) \in Seq(Label) /\ i \in 1 .. Len(Updated(e))
          BY <1>1, <1>7, <2>2, <3>1
        <5>. HIDE DEF there
        <5>. QED
          BY <1>3, <1>5, <2>2, <5>1
      <4>3. ~(new.cost < labels[i].cost)
        <5>. SUFFICES ASSUME new.cost < labels[i].cost PROVE FALSE
          OBVIOUS
        <5>1. Updated(e)[i].cost = new.cost
          BY <1>1, <1>6, <1>12, <2>2, <3>1 DEF Label
        <5>. QED
          BY <3>1, <3>3, <4>2, <5>1
      <4>. QED
        BY <1>1, <1>13, <2>2, <3>1, <3>3, <4>3
    <3>4. CASE labels'[i] = upd
      BY <1>12, <1>13, <2>2, <3>1, <3>4
    <3>. QED
      BY <3>2, <3>3, <3>4
  <2>. QED
    BY <2>1, <2>2
<1>15. /\ status[e].set # "unreached" => status' = status
       /\ status[e].set = "unreached" => status'[e].idx \notin DOMAIN labels
       /\ \A f \in Edges : f # e => status'[f] = status[f]
  BY <1>1, <1>3, <1>13
<1>16. ASSUME NEW j \in DOMAIN labels
       PROVE  \/ labels'[j] = labels[j]
              \/ /\ j \in queue /\ labels[j].edge = e /\ labels[j].ends = {} /\ j = status'[e].idx
                 /\ labels'[j].edge = e /\ labels'[j].ends = {} /\ labels'[j].pred = cur
                 /\ labels'[j].dist = labels[j].dist
                 /\ labels'[j].cost = new.cost
                 /\ labels'[j].cost < labels[j].cost
  <2>. HIDE DEF new, upd
  <2>. QED
    BY <1>1, <1>8, <1>12, <1>13
<1>17. \A j \in DOMAIN labels' \ DOMAIN labels :
         \/ labels'[j] = new /\ j = status'[e].idx
         \/ labels'[j] = there /\ dests # {}
  BY <1>9, <1>13
<1>. HIDE DEF new, there, dests
<1>. QED
  BY <1>2, <1>10, <1>11, <1>13, <1>14, <1>15, <1>16, <1>17 DEF new, there, dests

----------------------------------------------------------------------------
\* What every step keeps of labels and what it does to the queue: labels that were popped
\* and those of origins and destinations stay, others become cheaper at most.
LEMMA LabelStep ==
  ASSUME IInv, [Next]_vars
  PROVE  /\ UNCHANGED query
         /\ DOMAIN labels \subseteq DOMAIN labels' /\ queue' \cap DOMAIN labels \subseteq queue
         /\ DOMAIN labels' \ DOMAIN labels \subseteq queue'
         /\ \A j \in DOMAIN labels :
              /\ labels'[j].edge = labels[j].edge /\ labels'[j].ends = labels[j].ends
              /\ labels'[j].cost <= labels[j].cost
              /\ labels[j].ends # {} \/ j \notin queue => labels'[j] = labels[j]
<1>. DEFINE Same == \A j \in DOMAIN labels :
              /\ labels'[j].edge = labels[j].edge /\ labels'[j].ends = labels[j].ends
              /\ labels'[j].cost <= labels[j].cost
              /\ labels[j].ends # {} \/ j \notin queue => labels'[j] = labels[j]
            Grown == /\ DOMAIN labels \subseteq DOMAIN labels'
                     /\ queue' \cap DOMAIN labels \subseteq queue
                     /\ DOMAIN labels' \ DOMAIN labels \subseteq queue'
<1>1. UNCHANGED query
  BY LabelsGrow
<1>2. /\ labels \in Seq(Label) /\ g \in Graphs /\ IsLocation(g, destination)
      /\ queue \subseteq DOMAIN labels
  BY DEF IInv, TypeOK
<1>3. \A j \in DOMAIN labels : labels[j].cost \in Nat
  <2>1. \A j \in DOMAIN labels : labels[j] \in Label
    BY <1>2
  <2>. QED
    BY <2>1 DEF Label
<1>4. CASE labels' = labels /\ queue' \subseteq queue
  BY <1>1, <1>3, <1>4
<1>5. CASE SetOrigin
  <2>. DEFINE c == CHOOSE c \in todo : TRUE
              more == OriginLabels(c)
  <2>1. \/ UNCHANGED <<labels, queue>>
        \/ labels' = labels \o more /\ queue' = queue \cup (Len(labels) + 1 .. Len(labels'))
    BY <1>5 DEF SetOrigin
  <2>2. CASE labels' = labels \o more /\ queue' = queue \cup (Len(labels) + 1 .. Len(labels'))
    <3>1. c \in origin
      BY <1>5 DEF SetOrigin, IInv, TypeOK
    <3>2. more \in Seq(Label)
      BY <1>2, <3>1, OriginLabelsType DEF IInv
    <3>. HIDE DEF more, c
    <3>3. /\ Len(labels') >= Len(labels) /\ Len(labels) \in Nat /\ Len(labels') \in Nat
          /\ DOMAIN labels = 1 .. Len(labels) /\ DOMAIN labels' = 1 .. Len(labels')
          /\ \A j \in DOMAIN labels : labels'[j] = labels[j]
      BY <1>2, <2>2, <3>2, ConcatProperties
    <3>4. Grown
      BY <2>2, <3>3
    <3>5. Same
      BY <1>3, <3>3
    <3>. QED
      BY <1>1, <3>4, <3>5
  <2>. QED
    BY <1>4, <2>1, <2>2
<1>6. ASSUME NEW e \in Edges, NEW deadend, ExpandInner(e, deadend), pc = "expand"
      PROVE  Same /\ Grown
  <2>1. CASE UNCHANGED <<labels, queue>>
    BY <1>3, <2>1
  <2>2. CASE status[e].set # "permanent" /\ Relax(e)
    <3>1. LabelInv
      BY <1>6, ExpandedEdges
    <3>2. DOMAIN labels \subseteq DOMAIN labels' /\ queue' = queue \cup (DOMAIN labels' \ DOMAIN labels)
      BY <1>2, <2>2, <3>1, Relaxed
    <3>3. \A j \in DOMAIN labels :
            \/ labels'[j] = labels[j]
            \/ /\ j \in queue /\ labels[j].edge = e /\ labels[j].ends = {}
               /\ labels'[j].edge = e /\ labels'[j].ends = {}
               /\ labels'[j].cost < labels[j].cost
      BY <1>2, <2>2, <3>1, Relaxed
    <3>4. \A j \in DOMAIN labels : labels'[j].cost \in Nat
      <4>1. labels' \in Seq(Label)
        BY <1>2, <2>2, <3>1, Relaxed
      <4>2. \A j \in DOMAIN labels' : labels'[j] \in Label
        BY <4>1
      <4>. QED
        BY <3>2, <4>2 DEF Label
    <3>5. ASSUME NEW j \in DOMAIN labels
          PROVE  /\ labels'[j].edge = labels[j].edge /\ labels'[j].ends = labels[j].ends
                 /\ labels'[j].cost <= labels[j].cost
                 /\ labels[j].ends # {} \/ j \notin queue => labels'[j] = labels[j]
      <4>1. labels[j].cost \in Nat /\ labels'[j].cost \in Nat
        BY <1>3, <3>4
      <4>2. CASE labels'[j] = labels[j]
        BY <4>1, <4>2
      <4>3. CASE labels'[j] # labels[j]
        <5>1. /\ j \in queue /\ labels[j].edge = e /\ labels[j].ends = {}
              /\ labels'[j].edge = e /\ labels'[j].ends = {}
              /\ labels'[j].cost < labels[j].cost
          BY <3>3, <4>3, Zenon
        <5>2. labels'[j].cost <= labels[j].cost
          BY <4>1, <5>1
        <5>. QED
          BY <5>1, <5>2, Zenon
      <4>. QED
        BY <4>2, <4>3
    <3>. QED
      BY <3>2, <3>5
  <2>. QED
    BY <1>6, <2>1, <2>2 DEF ExpandInner
<1>7. CASE ExpandBlocked \/ UTurn
  BY <1>1, <1>6, <1>7, ExpandedEdges DEF ExpandBlocked, UTurn, Expanding
<1>8. CASE ExpandEdge
  BY <1>1, <1>6, <1>8, ExpandedEdges DEF ExpandEdge, Expanding
<1>9. CASE Begin \/ Fail \/ (\E i \in queue : Arrive(i) \/ PopCloser(i) \/ PopOther(i) \/ GiveUp(i))
            \/ SkipBack \/ EndExpand \/ UNCHANGED vars
  BY <1>4, <1>9 DEF vars, Begin, Fail, Arrive, PopCloser, PopOther, GiveUp, Pop, SkipBack, EndExpand
<1>. QED
  BY <1>5, <1>7, <1>8, <1>9 DEF Next

\* Without restrictions nothing is reset: a step finds labels of the origin, relaxes an edge
\* that starts where the expanded label ends, takes a label from the queue, or leaves
\* labels, queue and status alone.
LEMMA ClearStep ==
  ASSUME IInv, [Next]_vars, Clear
  PROVE  \/ SetOrigin
         \/ UNCHANGED <<labels, queue, status>>
         \/ \E i \in queue : Arrive(i) \/ PopCloser(i) \/ PopOther(i) \/ GiveUp(i)
         \/ Expanding /\ \E e \in Edges :
              /\ Relax(e) /\ status[e].set # "permanent"
              /\ e \in g.access /\ g.tail[e] = EndNode
<1>1. ASSUME Expanding, NEW e \in Edges, g.tail[e] = EndNode, NEW deadend, ExpandInner(e, deadend)
      PROVE  \/ UNCHANGED <<labels, queue, status>>
             \/ Relax(e) /\ status[e].set # "permanent" /\ e \in g.access
  <2>1. ~Restricted(e)
    BY DEF Clear, Restricted
  <2>. QED
    BY <1>1, <2>1 DEF ExpandInner, Allowed
<1>2. CASE ExpandBlocked \/ UTurn
  <2>1. Expanding /\ ExpandInner(Back, TRUE)
    BY <1>2 DEF ExpandBlocked, UTurn
  <2>2. Back \in Edges /\ g.tail[Back] = EndNode
    BY <2>1, ExpandedEdges DEF Expanding
  <2>. QED
    BY <1>1, <2>1, <2>2
<1>3. CASE ExpandEdge
  <2>1. Expanding /\ ExpandInner(Out[k], FALSE)
    BY <1>3 DEF ExpandEdge
  <2>2. Out[k] \in Edges /\ g.tail[Out[k]] = EndNode
    BY <1>3, ExpandedEdges DEF ExpandEdge, Expanding
  <2>. QED
    BY <1>1, <2>1, <2>2
<1>4. CASE Begin \/ Fail \/ SkipBack \/ EndExpand \/ UNCHANGED vars
  BY <1>4 DEF vars, Begin, Fail, SkipBack, EndExpand
<1>. QED
  BY <1>2, <1>3, <1>4 DEF Next

----------------------------------------------------------------------------
\* Where the search begins and ends.
InPlace == origin \in Locations(g) /\ destination \in Locations(g)

\* Labels are of edges that may be used.
OnOpenEdges == \A i \in DOMAIN labels : labels[i].edge \in g.access

\* The status of an edge that was reached is that of its label to the end, the only one.
StatusIsLabel ==
  /\ \A e \in Edges : status[e].set # "unreached" =>
       /\ labels[status[e].idx].edge = e /\ labels[status[e].idx].ends = {}
       /\ status[e].set = "permanent" => status[e].idx \notin queue
  /\ \A i \in DOMAIN labels : labels[i].ends = {} =>
       status[labels[i].edge].set # "unreached" /\ status[labels[i].edge].idx = i

\* Candidates are on open edges, and Allowed admits no others.
LEMMA OpenEdgesStay == IInv /\ InPlace /\ OnOpenEdges /\ [Next]_vars => OnOpenEdges'
<1>. SUFFICES ASSUME IInv, InPlace, OnOpenEdges, [Next]_vars PROVE OnOpenEdges'
  OBVIOUS
<1>1. UNCHANGED query
  BY LabelStep
<1>2. \A j \in DOMAIN labels : labels'[j].edge \in g.access
  BY LabelStep DEF OnOpenEdges
<1>. SUFFICES ASSUME NEW j \in DOMAIN labels' \ DOMAIN labels PROVE labels'[j].edge \in g.access
  BY <1>1, <1>2 DEF OnOpenEdges, query
<1>3. labels \in Seq(Label) /\ g \in Graphs /\ IsLocation(g, destination)
  BY DEF IInv, TypeOK
<1>4. CASE SetOrigin
  <2>. DEFINE c == CHOOSE c \in todo : TRUE
              more == OriginLabels(c)
  <2>1. c \in origin /\ labels' = labels \o more
    BY <1>4 DEF SetOrigin, IInv, TypeOK
  <2>2. c.edge \in g.access
    BY <2>1, PlaceAlong DEF InPlace, IInv, TypeOK
  <2>3. more \in Seq(Label)
    BY <1>3, <2>1, OriginLabelsType DEF IInv
  <2>4. \A m \in DOMAIN more : more[m].edge = c.edge
    BY <2>3 DEF OriginLabels, EdgeLabel
  <2>. HIDE DEF more, c
  <2>5. j - Len(labels) \in DOMAIN more /\ labels'[j] = more[j - Len(labels)]
    BY <1>3, <2>1, <2>3, ConcatProperties
  <2>. QED
    BY <2>2, <2>4, <2>5
<1>5. ASSUME Expanding, NEW e \in Edges, NEW deadend, ExpandInner(e, deadend)
      PROVE  labels'[j].edge \in g.access
  <2>1. Relax(e) /\ status[e].set # "permanent" /\ e \in g.access
    BY <1>5 DEF ExpandInner, Allowed
  <2>2. LabelInv
    BY <1>5, ExpandedEdges DEF Expanding
  <2>3. \/ labels'[j] = NextLabel(e, Parts, {})
        \/ labels'[j] = NextLabel(e, DestinationPos(destination, e), {"dest"})
    BY <1>3, <2>1, <2>2, Relaxed
  <2>4. labels'[j].edge = e
    BY <2>3 DEF NextLabel, EdgeLabel
  <2>. QED
    BY <2>1, <2>4
<1>6. CASE ExpandBlocked \/ UTurn
  BY <1>5, <1>6, ExpandedEdges DEF ExpandBlocked, UTurn, Expanding
<1>7. CASE ExpandEdge
  BY <1>5, <1>7, ExpandedEdges DEF ExpandEdge, Expanding
<1>8. CASE Begin \/ Fail \/ (\E i \in queue : Arrive(i) \/ PopCloser(i) \/ PopOther(i) \/ GiveUp(i))
            \/ SkipBack \/ EndExpand \/ UNCHANGED vars
  BY <1>8 DEF vars, Begin, Fail, Arrive, PopCloser, PopOther, GiveUp, Pop, SkipBack, EndExpand
<1>. QED
  BY <1>4, <1>6, <1>7, <1>8 DEF Next

----------------------------------------------------------------------------
\* The label of a popped edge that is no origin is the one its status names.
LEMMA StatusLabelsStay ==
  IInv /\ Clear /\ StatusIsLabel /\ [Next]_vars =>
    /\ StatusIsLabel'
    /\ \A f \in Edges : status[f].set # "unreached" =>
         status'[f].set # "unreached" /\ status'[f].idx = status[f].idx
<1>. SUFFICES ASSUME IInv, Clear, StatusIsLabel, [Next]_vars
     PROVE  /\ StatusIsLabel'
            /\ \A f \in Edges : status[f].set # "unreached" =>
                 status'[f].set # "unreached" /\ status'[f].idx = status[f].idx
  OBVIOUS
<1>1. /\ UNCHANGED query /\ Edges' = Edges
      /\ labels \in Seq(Label) /\ queue \subseteq DOMAIN labels /\ g \in Graphs
      /\ IsLocation(g, destination)
      /\ status \in [Edges -> [set : {"unreached", "temporary", "permanent"}, idx : Nat]]
      /\ \A e \in Edges : status[e].set # "unreached" => status[e].idx \in DOMAIN labels
  BY LabelStep DEF query, Edges, IInv, TypeOK
<1>2. \A j \in DOMAIN labels : labels[j] \in Label
  BY <1>1
<1>3. \A j \in DOMAIN labels : labels[j].edge \in Edges /\ labels[j].ends \in SUBSET {"origin", "dest"}
  BY <1>2 DEF Label
<1>4. \A j \in DOMAIN labels :
        labels'[j].edge = labels[j].edge /\ labels'[j].ends = labels[j].ends
  BY LabelStep
<1>5. /\ \A e \in Edges : status[e].set # "unreached" =>
           /\ labels[status[e].idx].edge = e /\ labels[status[e].idx].ends = {}
           /\ status[e].set = "permanent" => status[e].idx \notin queue
      /\ \A i \in DOMAIN labels : labels[i].ends = {} =>
           status[labels[i].edge].set # "unreached" /\ status[labels[i].edge].idx = i
  BY DEF StatusIsLabel
<1>6. CASE UNCHANGED <<labels, queue, status>>
  BY <1>1, <1>6 DEF StatusIsLabel
<1>7. CASE SetOrigin
  <2>. DEFINE c == CHOOSE c \in todo : TRUE
              more == OriginLabels(c)
  <2>1. status' = status
    BY <1>7 DEF SetOrigin
  <2>2. CASE UNCHANGED <<labels, queue>>
    BY <1>6, <2>1, <2>2
  <2>3. CASE labels' = labels \o more /\ queue' = queue \cup (Len(labels) + 1 .. Len(labels'))
    <3>1. c \in origin
      BY <1>7 DEF SetOrigin, IInv, TypeOK
    <3>2. more \in Seq(Label) /\ \A m \in DOMAIN more : "origin" \in more[m].ends
      BY <1>1, <3>1, OriginLabelsType DEF IInv
    <3>. HIDE DEF more, c
    <3>3. \A j \in DOMAIN labels' \ DOMAIN labels : labels'[j].ends # {}
      <4>1. \A j \in DOMAIN labels' \ DOMAIN labels :
              j - Len(labels) \in DOMAIN more /\ labels'[j] = more[j - Len(labels)]
        BY <1>1, <2>3, <3>2, ConcatProperties
      <4>. QED
        BY <3>2, <4>1
    <3>4. \A j \in DOMAIN labels : j \notin queue => j \notin queue'
      BY <1>1, <2>3
    <3>. QED
      BY <1>1, <1>4, <1>5, <2>1, <3>3, <3>4 DEF StatusIsLabel
  <2>. QED
    BY <1>7, <2>2, <2>3 DEF SetOrigin
<1>8. CASE \E i \in queue : Arrive(i) \/ PopCloser(i) \/ PopOther(i) \/ GiveUp(i)
  <2>1. PICK i \in queue : Arrive(i) \/ PopCloser(i) \/ PopOther(i) \/ GiveUp(i)
    BY <1>8
  <2>2. labels' = labels /\ queue' = queue \ {i}
    BY <2>1 DEF Arrive, PopCloser, PopOther, GiveUp, Pop
  <2>3. CASE status' = status
    BY <1>1, <1>5, <2>2, <2>3 DEF StatusIsLabel
  <2>4. CASE status' # status
    <3>. DEFINE x == labels[i].edge
    <3>1. /\ status' = Settled(i) /\ "dest" \notin labels[i].ends
      BY <2>1, <2>4 DEF Arrive, PopCloser, PopOther, GiveUp
    <3>2. "origin" \notin labels[i].ends /\ status' = [status EXCEPT ![x].set = "permanent"]
      BY <2>4, <3>1 DEF Settled
    <3>3. labels[i].ends = {} /\ x \in Edges
      BY <1>1, <1>3, <3>1, <3>2
    <3>4. status[x].set # "unreached" /\ status[x].idx = i
      BY <1>1, <1>5, <3>3
    <3>. HIDE DEF x
    <3>5. \A f \in Edges : f # x => status'[f] = status[f]
      BY <1>1, <3>2
    <3>6. status'[x].set = "permanent" /\ status'[x].idx = i
      BY <1>1, <3>2, <3>3, <3>4
    <3>7. \A f \in Edges :
            /\ status'[f].idx = status[f].idx
            /\ status'[f].set # "unreached" <=> status[f].set # "unreached"
            /\ status'[f].set = "permanent" => status[f].set = "permanent" \/ f = x
      BY <3>4, <3>5, <3>6
    <3>. QED
      BY <1>1, <1>3, <1>5, <2>2, <3>4, <3>7 DEF StatusIsLabel
  <2>. QED
    BY <2>3, <2>4
<1>9. CASE Expanding /\ \E e \in Edges : Relax(e) /\ status[e].set # "permanent"
  <2>1. PICK e \in Edges : Relax(e) /\ status[e].set # "permanent"
    BY <1>9
  <2>2. LabelInv
    BY <1>9, ExpandedEdges DEF Expanding
  <2>3. /\ DOMAIN labels \subseteq DOMAIN labels'
        /\ queue' = queue \cup (DOMAIN labels' \ DOMAIN labels)
        /\ status'[e].set = "temporary" /\ status'[e].idx \in DOMAIN labels'
        /\ labels'[status'[e].idx].edge = e /\ labels'[status'[e].idx].ends = {}
        /\ status[e].set # "unreached" => status' = status
        /\ \A f \in Edges : f # e => status'[f] = status[f]
    BY <1>1, <2>1, <2>2, Relaxed
  <2>4. \A j \in DOMAIN labels' \ DOMAIN labels :
          \/ labels'[j] = NextLabel(e, Parts, {}) /\ j = status'[e].idx
          \/ labels'[j] = NextLabel(e, DestinationPos(destination, e), {"dest"})
    BY <1>1, <2>1, <2>2, Relaxed
  <2>5. \A j \in DOMAIN labels' \ DOMAIN labels :
          labels'[j].edge = e /\ (labels'[j].ends = {} => j = status'[e].idx)
    BY <2>4 DEF NextLabel, EdgeLabel
  <2>6. ASSUME NEW f \in Edges, status[f].set # "unreached"
        PROVE  status'[f].set # "unreached" /\ status'[f].idx = status[f].idx
    <3>1. CASE f = e
      BY <2>3, <2>6, <3>1
    <3>2. CASE f # e
      BY <2>3, <2>6, <3>2
    <3>. QED
      BY <3>1, <3>2
  <2>7. ASSUME NEW f \in Edges, status'[f].set # "unreached"
        PROVE  /\ labels'[status'[f].idx].edge = f /\ labels'[status'[f].idx].ends = {}
               /\ status'[f].set = "permanent" => status'[f].idx \notin queue'
    <3>1. CASE f = e
      BY <2>3, <3>1
    <3>2. CASE f # e
      <4>1. status'[f] = status[f] /\ status[f].set # "unreached"
        BY <2>3, <2>7, <3>2
      <4>2. status[f].idx \in DOMAIN labels
        BY <1>1, <4>1
      <4>. QED
        BY <1>4, <1>5, <2>3, <4>1, <4>2
    <3>. QED
      BY <3>1, <3>2
  <2>8. ASSUME NEW j \in DOMAIN labels', labels'[j].ends = {}
        PROVE  status'[labels'[j].edge].set # "unreached" /\ status'[labels'[j].edge].idx = j
    <3>1. CASE j \in DOMAIN labels
      BY <1>3, <1>4, <1>5, <2>6, <2>8, <3>1
    <3>2. CASE j \notin DOMAIN labels
      BY <2>3, <2>5, <2>8, <3>2
    <3>. QED
      BY <3>1, <3>2
  <2>9. StatusIsLabel'
    BY <1>1, <2>7, <2>8 DEF StatusIsLabel
  <2>. QED
    BY <2>6, <2>9
<1>. QED
  BY <1>6, <1>7, <1>8, <1>9, ClearStep

----------------------------------------------------------------------------
\* A label of a destination leaves the queue only as the result.
DestinationsWait ==
  \A i \in DOMAIN labels \ queue : ToDest(i) => pc = "arrived" /\ i = result

\* Arrive takes them and no other step does.
LEMMA DestinationsKeepWaiting == IInv /\ DestinationsWait /\ [Next]_vars => DestinationsWait'
<1>. SUFFICES ASSUME IInv, DestinationsWait, [Next]_vars,
                     NEW i \in DOMAIN labels' \ queue', "dest" \in labels'[i].ends
     PROVE  pc' = "arrived" /\ i = result'
  BY DEF DestinationsWait, ToDest
<1>1. i \in DOMAIN labels /\ labels'[i].ends = labels[i].ends /\ "dest" \in labels[i].ends
  BY LabelStep
<1>2. CASE i \notin queue
  <2>1. pc = "arrived" /\ i = result
    BY <1>1, <1>2 DEF DestinationsWait, ToDest
  <2>2. UNCHANGED vars
    BY <2>1 DEF Next, SetOrigin, Begin, Fail, Arrive, PopCloser, PopOther, GiveUp, Pop,
                ExpandBlocked, ExpandEdge, SkipBack, UTurn, EndExpand, Expanding
  <2>. QED
    BY <2>1, <2>2 DEF vars
<1>3. CASE i \in queue
  <2>1. ASSUME NEW l \in queue, Pop(l) PROVE l = i
    BY <1>1, <1>3, <2>1 DEF Pop
  <2>2. ASSUME NEW l \in queue, Arrive(l) \/ PopCloser(l) \/ PopOther(l) \/ GiveUp(l)
        PROVE  pc' = "arrived" /\ i = result'
    <3>1. l = i
      BY <2>1, <2>2 DEF Arrive, PopCloser, PopOther, GiveUp
    <3>. QED
      BY <1>1, <2>2, <3>1 DEF Arrive, PopCloser, PopOther, GiveUp
  <2>3. ASSUME \A l \in queue : ~(Arrive(l) \/ PopCloser(l) \/ PopOther(l) \/ GiveUp(l))
        PROVE  queue \subseteq queue'
    BY <2>3 DEF Next, vars, SetOrigin, Begin, Fail, ExpandBlocked, ExpandEdge, SkipBack, UTurn,
                EndExpand, ExpandInner, Relax
  <2>. QED
    BY <1>3, <2>2, <2>3
<1>. QED
  BY <1>2, <1>3

----------------------------------------------------------------------------
\* SetDestination leaves at most one destination on an edge: at the two ends of an edge that
\* leads back to its start there is one location, whose candidates that leave it are skipped.
LEMMA OneDestination ==
  ASSUME IInv, InPlace, NEW e, NEW d \in DestinationsOn(destination, e)
  PROVE  /\ d \in destination /\ d.edge = e /\ e \in Edges /\ d.pos \in Nat /\ d.pos <= Parts
         /\ \A o \in DestinationsOn(destination, e) : o = d
         /\ DestinationPos(destination, e) = d.pos
<1>1. /\ g \in Graphs /\ destination \in Locations(g) /\ Parts \in Nat \ {0}
      /\ g.access \subseteq Edges /\ \A f \in Edges : g.opp[f] # f
  BY SearchAssumption DEF IInv, TypeOK, InPlace, IsGraph, Edges
<1>2. ASSUME NEW o \in DestinationsOn(destination, e)
      PROVE  o \in destination /\ o.edge = e /\ (o.pos = 0 => ~\E c \in destination : c.pos # 0)
  BY DEF DestinationsOn, SetDestination
<1>3. ASSUME NEW o \in destination
      PROVE  o.edge \in Edges /\ o.pos \in 0 .. Parts
  BY <1>1, PlaceAlong DEF Edges
<1>4. ASSUME NEW o \in destination, NEW c \in destination, o.edge = c.edge
      PROVE  o = c \/ (o.pos = 0 /\ c.pos # 0) \/ (c.pos = 0 /\ o.pos # 0)
  <2>1. CASE \E m \in DOMAIN g.x : destination = AtNode(g, m)
    BY <1>1, <1>4, <2>1 DEF AtNode
  <2>2. CASE \E f \in g.access, p \in 1 .. Parts - 1 : destination = OnEdge(g, f, p)
    <3>1. PICK f \in g.access, p \in 1 .. Parts - 1 : destination = OnEdge(g, f, p)
      BY <2>2
    <3>2. ASSUME NEW x \in destination
          PROVE  \/ x = [edge |-> f, pos |-> p]
                 \/ x = [edge |-> g.opp[f], pos |-> Parts - p]
      BY <3>1 DEF OnEdge
    <3>3. g.opp[f] # f
      BY <1>1, <3>1
    <3>4. ASSUME NEW x \in destination
          PROVE  x = IF x.edge = f THEN [edge |-> f, pos |-> p]
                     ELSE [edge |-> g.opp[f], pos |-> Parts - p]
      BY <3>2, <3>3
    <3>5. o = c
      BY <1>4, <3>4
    <3>. QED
      BY <3>5
  <2>. QED
    BY <1>1, <2>1, <2>2 DEF Locations
<1>5. \A o \in DestinationsOn(destination, e) : o = d
  BY <1>2, <1>4
<1>6. DestinationPos(destination, e) = d.pos
  BY <1>5 DEF DestinationPos
<1>. QED
  BY <1>1, <1>2, <1>3, <1>5, <1>6

\* What the labels are that SetOrigin makes for a candidate.
LEMMA OriginLabelsAre ==
  ASSUME IInv, InPlace, NEW c \in origin
  PROVE  /\ OriginLabels(c) \in Seq(Label)
         /\ \A m \in DOMAIN OriginLabels(c) :
              LET l == OriginLabels(c)[m] IN
                /\ l.edge = c.edge /\ l.dist = DistanceOf(l)
                /\ \/ l.ends = {"origin"} /\ l.cost = PartCost(g, c.edge) * (Parts - c.pos)
                   \/ \E d \in DestinationsOn(destination, c.edge) :
                        /\ d.pos >= c.pos /\ l.ends = {"origin", "dest"}
                        /\ l.cost = PartCost(g, c.edge) * (d.pos - c.pos)
         /\ \E m \in DOMAIN OriginLabels(c) : OriginLabels(c)[m].ends = {"origin"}
         /\ \A d \in DestinationsOn(destination, c.edge) : d.pos >= c.pos =>
              \E m \in DOMAIN OriginLabels(c) : OriginLabels(c)[m].ends = {"origin", "dest"}
<1>. DEFINE there == {d \in DestinationsOn(destination, c.edge) : d.pos >= c.pos}
            d0 == CHOOSE d \in there : TRUE
            a == EdgeLabel(c.edge, 0, 0, 0, Parts - c.pos, {"origin"})
            b == EdgeLabel(c.edge, 0, 0, 0, d0.pos - c.pos, {"origin", "dest"})
            more == OriginLabels(c)
<1>1. g \in Graphs /\ IsLocation(g, origin) /\ IsLocation(g, destination)
  BY DEF IInv, TypeOK
<1>2. c.edge \in Edges /\ c.pos \in Nat /\ Parts - c.pos \in Nat
  BY <1>1, SearchAssumption DEF IsLocation, Edges
<1>4. /\ a \in Label /\ a.edge = c.edge /\ a.dist = DistanceOf(a) /\ a.ends = {"origin"}
      /\ a.cost = PartCost(g, c.edge) * (Parts - c.pos)
  <2>1. PartCost(g, c.edge) * (Parts - c.pos) \in Nat
    BY <1>1, <1>2, PartCostType, Product DEF Edges
  <2>2. /\ a \in Label /\ a.edge = c.edge /\ a.ends = {"origin"}
        /\ a.cost = 0 + PartCost(g, c.edge) * (Parts - c.pos)
    BY <1>1, <1>2, EdgeLabelType
  <2>3. a.dist = DistanceOf(a)
    BY DEF EdgeLabel, DistanceOf
  <2>. QED
    BY <2>1, <2>2, <2>3
<1>5. ASSUME there # {}
      PROVE  /\ b \in Label /\ b.edge = c.edge /\ b.dist = DistanceOf(b)
             /\ b.ends = {"origin", "dest"}
             /\ d0 \in DestinationsOn(destination, c.edge) /\ d0.pos >= c.pos
             /\ b.cost = PartCost(g, c.edge) * (d0.pos - c.pos)
  <2>1. d0 \in DestinationsOn(destination, c.edge) /\ d0.pos >= c.pos
    BY <1>5
  <2>2. d0.pos \in Nat
    BY <2>1, OneDestination
  <2>. HIDE DEF d0
  <2>3. d0.pos - c.pos \in Nat
    BY <1>2, <2>1, <2>2
  <2>4. PartCost(g, c.edge) * (d0.pos - c.pos) \in Nat
    BY <1>1, <1>2, <2>3, PartCostType, Product DEF Edges
  <2>5. /\ b \in Label /\ b.edge = c.edge /\ b.ends = {"origin", "dest"}
        /\ b.cost = 0 + PartCost(g, c.edge) * (d0.pos - c.pos)
    BY <1>1, <1>2, <2>3, EdgeLabelType
  <2>6. b.dist = DistanceOf(b)
    BY DEF EdgeLabel, DistanceOf
  <2>. QED
    BY <2>1, <2>4, <2>5, <2>6
<1>6. more = <<a>> \o (IF there = {} THEN <<>> ELSE <<b>>)
  BY DEF OriginLabels
<1>. HIDE DEF a, b, d0, more
<1>7. CASE there = {}
  <2>. HIDE DEF there
  <2>1. more = <<a>>
    BY <1>6, <1>7
  <2>2. more \in Seq(Label) /\ DOMAIN more = {1} /\ more[1] = a
    BY <1>4, <2>1
  <2>3. \A d \in DestinationsOn(destination, c.edge) : ~(d.pos >= c.pos)
    BY <1>7 DEF there
  <2>. QED
    BY <1>4, <2>2, <2>3 DEF more
<1>8. CASE there # {}
  <2>1. more \in Seq(Label) /\ DOMAIN more = {1, 2} /\ more[1] = a /\ more[2] = b
    <3>. DEFINE one == <<a>>
                two == <<b>>
    <3>1. more = one \o two
      BY <1>6, <1>8
    <3>2. one \in Seq(Label) /\ Len(one) = 1 /\ one[1] = a
      BY <1>4
    <3>3. two \in Seq(Label) /\ Len(two) = 1 /\ two[1] = b
      BY <1>5, <1>8
    <3>. HIDE DEF one, two
    <3>4. /\ more \in Seq(Label) /\ Len(more) = Len(one) + Len(two)
          /\ \A i \in 1 .. Len(one) + Len(two) :
               more[i] = IF i <= Len(one) THEN one[i] ELSE two[i - Len(one)]
      BY <3>1, <3>2, <3>3, ConcatProperties
    <3>. QED
      BY <3>2, <3>3, <3>4
  <2>2. \A m \in DOMAIN more : more[m] = a \/ more[m] = b
    BY <2>1
  <2>3. /\ more[1].ends = {"origin"} /\ more[2].ends = {"origin", "dest"}
        /\ 1 \in DOMAIN more /\ 2 \in DOMAIN more
    BY <1>4, <1>5, <1>8, <2>1
  <2>4. /\ b.edge = c.edge /\ b.dist = DistanceOf(b)
        /\ b.ends = {"origin", "dest"}
        /\ d0 \in DestinationsOn(destination, c.edge) /\ d0.pos >= c.pos
        /\ b.cost = PartCost(g, c.edge) * (d0.pos - c.pos)
    BY <1>5, <1>8
  <2>5. ASSUME NEW m \in DOMAIN more
        PROVE  /\ more[m].edge = c.edge /\ more[m].dist = DistanceOf(more[m])
               /\ \/ more[m].ends = {"origin"} /\ more[m].cost = PartCost(g, c.edge) * (Parts - c.pos)
                  \/ \E d \in DestinationsOn(destination, c.edge) :
                       /\ d.pos >= c.pos /\ more[m].ends = {"origin", "dest"}
                       /\ more[m].cost = PartCost(g, c.edge) * (d.pos - c.pos)
    <3>1. CASE more[m] = a
      BY <1>4, <3>1, Zenon
    <3>2. CASE more[m] = b
      BY <2>4, <3>2, Zenon
    <3>. QED
      BY <2>2, <3>1, <3>2
  <2>. HIDE DEF there
  <2>. QED
    BY <2>1, <2>3, <2>5, Zenon DEF more
<1>. QED
  BY <1>7, <1>8

----------------------------------------------------------------------------
\* SetOrigin skips a candidate at the end of its edge if there are others that are not,
\* unless it is a destination too.
Skipped(from, to, c) ==
  /\ c.pos = Parts /\ (\E d \in from : d.pos # Parts)
  /\ ~\E d \in DestinationsOn(to, c.edge) : d.pos = c.pos

\* The destination further along the edge of a candidate; the label of the candidate to the
\* end of the edge; the one to the destination.
Ahead(to, c) == {d \in DestinationsOn(to, c.edge) : d.pos >= c.pos}
ToEnd(gr, l, c) ==
  l.edge = c.edge /\ l.ends = {"origin"} /\ l.cost = PartCost(gr, c.edge) * (Parts - c.pos)
Until(gr, l, c, d) ==
  l.ends = {"origin", "dest"} /\ l.cost = PartCost(gr, c.edge) * (d.pos - c.pos)

Labelled(gr, to, ls, c) ==
  /\ \E i \in DOMAIN ls : ToEnd(gr, ls[i], c)
  /\ \A d \in Ahead(to, c) : \E i \in DOMAIN ls : Until(gr, ls[i], c, d)

\* Every candidate of the origin that was looked at and not skipped has its labels, and
\* labels from the origin to the end of an edge are those of such candidates.
OriginsLabelled ==
  /\ pc # "origin" => todo = {}
  /\ \A c \in origin \ todo : Skipped(origin, destination, c) \/ Labelled(g, destination, labels, c)
  /\ \A i \in DOMAIN labels : labels[i].ends = {"origin"} =>
       \E c \in origin \ todo : ~Skipped(origin, destination, c) /\ ToEnd(g, labels[i], c)

\* SetOrigin labels its candidate; later steps leave these labels alone.
LEMMA OriginsStayLabelled ==
  IInv /\ InPlace /\ OriginsLabelled /\ [Next]_vars => OriginsLabelled'
<1>. SUFFICES ASSUME IInv, InPlace, OriginsLabelled, [Next]_vars PROVE OriginsLabelled'
  OBVIOUS
<1>1. /\ g' = g /\ origin' = origin /\ destination' = destination /\ labels \in Seq(Label)
      /\ DOMAIN labels \subseteq DOMAIN labels'
      /\ \A j \in DOMAIN labels :
           /\ labels'[j].ends = labels[j].ends
           /\ labels[j].ends # {} => labels'[j] = labels[j]
  BY LabelStep DEF query, IInv, TypeOK
<1>2. /\ pc # "origin" => todo = {}
      /\ \A c \in origin \ todo :
           Skipped(origin, destination, c) \/ Labelled(g, destination, labels, c)
      /\ \A i \in DOMAIN labels : labels[i].ends = {"origin"} =>
           \E c \in origin \ todo : ~Skipped(origin, destination, c) /\ ToEnd(g, labels[i], c)
  BY DEF OriginsLabelled
<1>. SUFFICES
       /\ pc' # "origin" => todo' = {}
       /\ \A c \in origin \ todo' :
            Skipped(origin, destination, c) \/ Labelled(g, destination, labels', c)
       /\ \A i \in DOMAIN labels' : labels'[i].ends = {"origin"} =>
            \E c \in origin \ todo' : ~Skipped(origin, destination, c) /\ ToEnd(g, labels'[i], c)
  BY <1>1 DEF OriginsLabelled
<1>3. ASSUME NEW c, Labelled(g, destination, labels, c)
      PROVE  Labelled(g, destination, labels', c)
  <2>1. ASSUME NEW i \in DOMAIN labels, labels[i].ends # {}
        PROVE  i \in DOMAIN labels' /\ labels'[i] = labels[i]
    BY <1>1, <2>1
  <2>2. \E i \in DOMAIN labels' : ToEnd(g, labels'[i], c)
    <3>1. PICK i \in DOMAIN labels : ToEnd(g, labels[i], c)
      BY <1>3 DEF Labelled
    <3>2. labels[i].ends # {}
      BY <3>1 DEF ToEnd
    <3>. QED
      BY <2>1, <3>1, <3>2
  <2>3. ASSUME NEW d \in Ahead(destination, c)
        PROVE  \E i \in DOMAIN labels' : Until(g, labels'[i], c, d)
    <3>1. PICK i \in DOMAIN labels : Until(g, labels[i], c, d)
      BY <1>3 DEF Labelled
    <3>2. labels[i].ends # {}
      BY <3>1 DEF Until
    <3>. QED
      BY <2>1, <3>1, <3>2
  <2>. QED
    BY <2>2, <2>3 DEF Labelled
<1>4. CASE SetOrigin
  <2>. DEFINE c == CHOOSE c \in todo : TRUE
              more == OriginLabels(c)
  <2>1. /\ c \in todo /\ c \in origin /\ todo' = todo \ {c} /\ pc = "origin" /\ pc' = "origin"
        /\ \/ Skipped(origin, destination, c) /\ labels' = labels
           \/ ~Skipped(origin, destination, c) /\ labels' = labels \o more
    BY <1>4 DEF SetOrigin, Skipped, SuperTrivial, IInv, TypeOK
  <2>2. more \in Seq(Label)
    BY <2>1, OriginLabelsAre
  <2>3. ASSUME NEW m \in DOMAIN more
        PROVE  \/ ToEnd(g, more[m], c)
               \/ \E d \in Ahead(destination, c) : Until(g, more[m], c, d)
    <3>1. /\ more[m].edge = c.edge
          /\ \/ more[m].ends = {"origin"} /\ more[m].cost = PartCost(g, c.edge) * (Parts - c.pos)
             \/ \E d \in DestinationsOn(destination, c.edge) :
                  /\ d.pos >= c.pos /\ more[m].ends = {"origin", "dest"}
                  /\ more[m].cost = PartCost(g, c.edge) * (d.pos - c.pos)
      BY <2>1, OriginLabelsAre, Zenon
    <3>. HIDE DEF more, c
    <3>. QED
      BY <3>1 DEF ToEnd, Until, Ahead
  <2>4. /\ \E m \in DOMAIN more : more[m].ends = {"origin"}
        /\ \A d \in DestinationsOn(destination, c.edge) : d.pos >= c.pos =>
             \E m \in DOMAIN more : more[m].ends = {"origin", "dest"}
    BY <2>1, OriginLabelsAre, Zenon
  <2>. HIDE DEF more, c
  <2>5. Labelled(g, destination, more, c)
    <3>1. \E m \in DOMAIN more : ToEnd(g, more[m], c)
      <4>1. PICK m \in DOMAIN more : more[m].ends = {"origin"}
        BY <2>4
      <4>2. ~\E d \in Ahead(destination, c) : Until(g, more[m], c, d)
        BY <4>1 DEF Until
      <4>. QED
        BY <2>3, <4>2
    <3>2. ASSUME NEW d \in Ahead(destination, c) PROVE \E m \in DOMAIN more : Until(g, more[m], c, d)
      <4>1. PICK m \in DOMAIN more : more[m].ends = {"origin", "dest"}
        BY <2>4, <3>2 DEF Ahead
      <4>2. ~ToEnd(g, more[m], c)
        BY <4>1 DEF ToEnd
      <4>3. PICK x \in Ahead(destination, c) : Until(g, more[m], c, x)
        BY <2>3, <4>2
      <4>4. x = d
        BY <3>2, <4>3, OneDestination DEF Ahead
      <4>. QED
        BY <4>3, <4>4
    <3>. QED
      BY <3>1, <3>2 DEF Labelled
  <2>6. CASE Skipped(origin, destination, c) /\ labels' = labels
    <3>1. \A x \in origin \ todo' : x = c \/ x \in origin \ todo
      BY <2>1
    <3>. QED
      BY <1>2, <2>1, <2>6, <3>1
  <2>7. CASE ~Skipped(origin, destination, c) /\ labels' = labels \o more
    <3>1. \A m \in DOMAIN more : Len(labels) + m \in DOMAIN labels' /\ labels'[Len(labels) + m] = more[m]
      BY <1>1, <2>2, <2>7, ConcatProperties
    <3>2. \A j \in DOMAIN labels' :
            \/ j \in DOMAIN labels /\ labels'[j] = labels[j]
            \/ j - Len(labels) \in DOMAIN more /\ labels'[j] = more[j - Len(labels)]
      BY <1>1, <2>2, <2>7, ConcatProperties
    <3>3. Labelled(g, destination, labels', c)
      <4>1. \E i \in DOMAIN labels' : ToEnd(g, labels'[i], c)
        BY <2>5, <3>1 DEF Labelled
      <4>2. \A d \in Ahead(destination, c) : \E i \in DOMAIN labels' : Until(g, labels'[i], c, d)
        BY <2>5, <3>1 DEF Labelled
      <4>. QED
        BY <4>1, <4>2 DEF Labelled
    <3>4. \A x \in origin \ todo' :
            Skipped(origin, destination, x) \/ Labelled(g, destination, labels', x)
      BY <1>2, <1>3, <2>1, <3>3
    <3>5. ASSUME NEW j \in DOMAIN labels', labels'[j].ends = {"origin"}
          PROVE  \E x \in origin \ todo' : ~Skipped(origin, destination, x) /\ ToEnd(g, labels'[j], x)
      <4>1. CASE j \in DOMAIN labels /\ labels'[j] = labels[j]
        BY <1>2, <2>1, <3>5, <4>1
      <4>2. CASE j - Len(labels) \in DOMAIN more /\ labels'[j] = more[j - Len(labels)]
        <5>1. ~\E d \in Ahead(destination, c) : Until(g, labels'[j], c, d)
          BY <3>5 DEF Until
        <5>2. ToEnd(g, labels'[j], c)
          BY <2>3, <4>2, <5>1
        <5>3. c \in origin \ todo'
          BY <2>1
        <5>. QED
          BY <2>7, <5>2, <5>3
      <4>. QED
        BY <3>2, <4>1, <4>2
    <3>. QED
      BY <2>1, <3>4, <3>5
  <2>. QED
    BY <2>1, <2>6, <2>7
<1>5. CASE ~SetOrigin
  <2>1. /\ todo' = todo
        /\ pc' # "origin" => pc # "origin" \/ todo = {}
    BY <1>5 DEF Next, vars, Begin, Fail, Arrive, PopCloser, PopOther, GiveUp, Pop, StartExpand,
       ExpandBlocked, ExpandEdge, SkipBack, UTurn, EndExpand, Expanding
  <2>2. ASSUME NEW j \in DOMAIN labels' \ DOMAIN labels PROVE labels'[j].ends # {"origin"}
    <3>1. ASSUME NEW e \in Edges, Relax(e), status[e].set # "permanent", pc = "expand"
          PROVE  labels'[j].ends # {"origin"}
      <4>1. LabelInv
        BY <3>1, ExpandedEdges
      <4>2. \/ labels'[j] = NextLabel(e, Parts, {})
            \/ labels'[j] = NextLabel(e, DestinationPos(destination, e), {"dest"})
        BY <3>1, <4>1, Relaxed DEF IInv, TypeOK
      <4>. QED
        BY <4>2 DEF NextLabel, EdgeLabel
    <3>2. ASSUME NEW e \in Edges, NEW deadend, ExpandInner(e, deadend), pc = "expand"
          PROVE  labels'[j].ends # {"origin"}
      BY <3>1, <3>2 DEF ExpandInner
    <3>3. CASE ExpandBlocked \/ UTurn
      BY <3>2, <3>3, ExpandedEdges DEF ExpandBlocked, UTurn, Expanding
    <3>4. CASE ExpandEdge
      BY <3>2, <3>4, ExpandedEdges DEF ExpandEdge, Expanding
    <3>. QED
      BY <1>5, <3>3, <3>4 DEF Next, vars, Begin, Fail, Arrive, PopCloser, PopOther, GiveUp, Pop,
         SkipBack, EndExpand
  <2>3. \A j \in DOMAIN labels : labels'[j].ends = {"origin"} => labels'[j] = labels[j]
    BY <1>1
  <2>4. \A c \in origin \ todo' :
          Skipped(origin, destination, c) \/ Labelled(g, destination, labels', c)
    BY <1>2, <1>3, <2>1
  <2>5. ASSUME NEW j \in DOMAIN labels', labels'[j].ends = {"origin"}
        PROVE  \E c \in origin \ todo' : ~Skipped(origin, destination, c) /\ ToEnd(g, labels'[j], c)
    <3>1. j \in DOMAIN labels /\ labels'[j] = labels[j]
      BY <2>2, <2>3, <2>5
    <3>. QED
      BY <1>2, <2>1, <2>5, <3>1
  <2>. QED
    BY <1>2, <2>1, <2>4, <2>5
<1>. QED
  BY <1>4, <1>5

----------------------------------------------------------------------------
\* A label of the destination d that costs no more than c less the rest of its edge.
Reaches(gr, ls, d, c) ==
  \E i \in DOMAIN ls : /\ "dest" \in ls[i].ends
                       /\ ls[i].cost + PartCost(gr, d.edge) * (Parts - d.pos) <= c

\* Whenever an edge gets a cheaper label, a destination on it gets a label too.
DestinationsLabelled ==
  \A e \in Edges : status[e].set # "unreached" =>
    \A d \in DestinationsOn(destination, e) :
      Reaches(g, labels, d, labels[status[e].idx].cost)

\* An edge splits at a destination on it.
LEMMA CostSplits ==
  \A q, c \in Nat : \A p \in 0 .. Parts :
    /\ q * (Parts - p) \in Nat /\ q * p \in Nat /\ q * Parts \in Nat
    /\ c + q * p + q * (Parts - p) = c + q * Parts
<1>. SUFFICES ASSUME NEW q \in Nat, NEW c \in Nat, NEW p \in 0 .. Parts
     PROVE  /\ q * (Parts - p) \in Nat /\ q * p \in Nat /\ q * Parts \in Nat
            /\ c + q * p + q * (Parts - p) = c + q * Parts
  OBVIOUS
<1>1. Parts \in Nat /\ p \in Nat /\ Parts - p \in Nat
  BY SearchAssumption
<1>2. q * (Parts - p) \in Nat /\ q * p \in Nat /\ q * Parts \in Nat
  BY <1>1, Product
<1>3. q * (Parts - p) = q * Parts - q * p
  BY <1>1
<1>. QED
  BY <1>2, <1>3

\* Relax gives the destination its label together with that of the edge.
LEMMA DestinationsStayLabelled ==
  IInv /\ InPlace /\ Clear /\ StatusIsLabel /\ DestinationsLabelled /\ [Next]_vars =>
    DestinationsLabelled'
<1>. SUFFICES ASSUME IInv, InPlace, Clear, StatusIsLabel, DestinationsLabelled, [Next]_vars
     PROVE  DestinationsLabelled'
  OBVIOUS
<1>. SUFFICES ASSUME NEW e \in Edges, status'[e].set # "unreached",
                     NEW d \in DestinationsOn(destination, e)
     PROVE  Reaches(g, labels', d, labels'[status'[e].idx].cost)
  <2>1. g' = g /\ destination' = destination /\ Edges' = Edges
    BY LabelStep DEF query, Edges
  <2>. QED
    BY <2>1 DEF DestinationsLabelled
<1>1. /\ labels \in Seq(Label) /\ g \in Graphs /\ IsLocation(g, destination)
      /\ DOMAIN labels \subseteq DOMAIN labels'
      /\ \A j \in DOMAIN labels : labels[j].ends # {} => labels'[j] = labels[j]
      /\ \A f \in Edges : status[f].set # "unreached" => status[f].idx \in DOMAIN labels
  BY LabelStep DEF IInv, TypeOK
<1>2. ASSUME status[e].set # "unreached", labels'[status'[e].idx].cost = labels[status[e].idx].cost
      PROVE  Reaches(g, labels', d, labels'[status'[e].idx].cost)
  <2>1. Reaches(g, labels, d, labels[status[e].idx].cost)
    BY <1>2 DEF DestinationsLabelled
  <2>2. PICK i \in DOMAIN labels :
               /\ "dest" \in labels[i].ends
               /\ labels[i].cost + PartCost(g, d.edge) * (Parts - d.pos)
                    <= labels[status[e].idx].cost
    BY <2>1 DEF Reaches
  <2>3. i \in DOMAIN labels' /\ labels'[i] = labels[i]
    BY <1>1, <2>2
  <2>. QED
    BY <1>2, <2>2, <2>3 DEF Reaches
<1>3. CASE status[e].set # "unreached" /\ status'[e].idx = status[e].idx
            /\ labels'[status[e].idx] = labels[status[e].idx]
  BY <1>2, <1>3
<1>4. CASE UNCHANGED <<labels, queue, status>>
  BY <1>3, <1>4
<1>5. CASE SetOrigin
  <2>. DEFINE c == CHOOSE c \in todo : TRUE
              more == OriginLabels(c)
  <2>1. status' = status /\ (labels' = labels \/ labels' = labels \o more)
    BY <1>5 DEF SetOrigin
  <2>2. c \in origin
    BY <1>5 DEF SetOrigin, IInv, TypeOK
  <2>3. more \in Seq(Label)
    BY <1>1, <2>2, OriginLabelsType DEF IInv
  <2>. HIDE DEF more, c
  <2>4. \A j \in DOMAIN labels : labels'[j] = labels[j]
    BY <1>1, <2>1, <2>3, ConcatProperties
  <2>. QED
    BY <1>1, <1>3, <2>1, <2>4
<1>6. CASE \E i \in queue : Arrive(i) \/ PopCloser(i) \/ PopOther(i) \/ GiveUp(i)
  <2>1. labels' = labels /\ status[e].set # "unreached"
    <3>1. PICK i \in queue : Arrive(i) \/ PopCloser(i) \/ PopOther(i) \/ GiveUp(i)
      BY <1>6
    <3>2. labels' = labels /\ (status' = status \/ (status' = Settled(i) /\ "dest" \notin labels[i].ends))
      BY <3>1 DEF Arrive, PopCloser, PopOther, GiveUp
    <3>3. i \in DOMAIN labels /\ labels[i].ends \in SUBSET {"origin", "dest"}
      <4>1. i \in DOMAIN labels
        BY DEF IInv, TypeOK
      <4>2. labels[i] \in Label
        BY <1>1, <4>1
      <4>. QED
        BY <4>1, <4>2 DEF Label
    <3>4. CASE status' # status
      <4>1. "origin" \notin labels[i].ends /\ status' = [status EXCEPT ![labels[i].edge].set = "permanent"]
        BY <3>2, <3>4 DEF Settled
      <4>2. labels[i].ends = {}
        BY <3>2, <3>3, <3>4, <4>1
      <4>3. status[labels[i].edge].set # "unreached"
        BY <3>3, <4>2 DEF StatusIsLabel
      <4>4. e = labels[i].edge \/ status'[e] = status[e]
        BY <4>1 DEF IInv, TypeOK
      <4>. QED
        BY <3>2, <4>3, <4>4
    <3>. QED
      BY <3>2, <3>4
  <2>2. status'[e].idx = status[e].idx
    BY <2>1, StatusLabelsStay
  <2>. QED
    BY <1>3, <2>1, <2>2
<1>7. ASSUME Expanding, NEW f \in Edges, Relax(f), status[f].set # "permanent"
      PROVE  Reaches(g, labels', d, labels'[status'[e].idx].cost)
  <2>1. LabelInv
    BY <1>7, ExpandedEdges DEF Expanding
  <2>. DEFINE new == NextLabel(f, Parts, {})
              there == NextLabel(f, DestinationPos(destination, f), {"dest"})
  <2>2. /\ \A j \in DOMAIN labels :
             \/ labels'[j] = labels[j]
             \/ labels[j].edge = f /\ j = status'[f].idx /\ labels'[j].cost = new.cost
        /\ \A j \in DOMAIN labels' \ DOMAIN labels :
             (labels'[j] = new /\ j = status'[f].idx) \/ labels'[j] = there
        /\ status'[f].idx \in DOMAIN labels' /\ labels'[status'[f].idx].ends = {}
        /\ status[f].set # "unreached" => status' = status
        /\ status[f].set = "unreached" => status'[f].idx \notin DOMAIN labels
        /\ f # e => status'[e] = status[e]
        /\ DestinationsOn(destination, f) # {} => \E j \in DOMAIN labels' : labels'[j] = there
    BY <1>1, <1>7, <2>1, Relaxed
  <2>3. CASE f # e
    <3>1. status[e].set # "unreached" /\ status'[e] = status[e]
      BY <2>2, <2>3
    <3>2. status[e].idx \in DOMAIN labels /\ labels[status[e].idx].edge = e
      BY <1>1, <3>1 DEF StatusIsLabel
    <3>3. labels'[status[e].idx] = labels[status[e].idx]
      BY <2>2, <2>3, <3>2
    <3>. QED
      BY <1>3, <3>1, <3>3
  <2>4. CASE f = e /\ labels'[status'[e].idx].cost = new.cost
    <3>1. /\ d.edge = e /\ d.pos \in Nat /\ d.pos <= Parts
          /\ DestinationPos(destination, e) = d.pos
      BY OneDestination
    <3>2. PICK j \in DOMAIN labels' : labels'[j] = there
      BY <2>2, <2>4
    <3>. DEFINE base == labels[cur].cost + g.penalty[labels[cur].edge][e]
    <3>3. /\ new.cost = base + PartCost(g, e) * Parts /\ {} \in SUBSET {"origin", "dest"}
      BY <2>4 DEF NextLabel, EdgeLabel
    <3>4. there.cost = base + PartCost(g, e) * d.pos /\ there.ends = {"dest"}
      BY <2>4, <3>1 DEF NextLabel, EdgeLabel
    <3>5. base \in Nat /\ PartCost(g, e) \in Nat
      <4>1. PartCost(g, e) \in Nat
        BY <1>1, PartCostType DEF Edges
      <4>2. cur \in DOMAIN labels
        BY <1>7 DEF Expanding, IInv, TypeOK
      <4>3. labels[cur] \in Label
        BY <1>1, <4>2
      <4>4. labels[cur].cost \in Nat /\ labels[cur].edge \in Edges
        BY <4>3 DEF Label
      <4>5. g.penalty \in [Edges -> [Edges -> Nat]]
        BY <1>1, SearchAssumption DEF IsGraph, Edges
      <4>. QED
        BY <4>1, <4>4, <4>5
    <3>. HIDE DEF new, there, base
    <3>. DEFINE q == PartCost(g, e)
    <3>6. q \in Nat /\ d.pos \in 0 .. Parts
      BY <3>1, <3>5, SearchAssumption
    <3>. HIDE DEF q
    <3>7. /\ base + q * d.pos + q * (Parts - d.pos) = base + q * Parts
          /\ base + q * Parts \in Nat
      <4>1. /\ base + q * d.pos + q * (Parts - d.pos) = base + q * Parts
            /\ q * Parts \in Nat
        BY <3>5, <3>6, CostSplits, Zenon
      <4>. QED
        BY <3>5, <4>1
    <3>8. new.cost = base + q * Parts /\ there.cost = base + q * d.pos
      BY <3>3, <3>4 DEF q
    <3>9. there.cost + q * (Parts - d.pos) <= new.cost
      BY <3>7, <3>8
    <3>10. labels'[j].cost + q * (Parts - d.pos) <= labels'[status'[e].idx].cost
      BY <2>4, <3>2, <3>9
    <3>. QED
      BY <3>1, <3>2, <3>4, <3>10 DEF Reaches, q
  <2>5. CASE f = e /\ labels'[status'[e].idx].cost # new.cost
    <3>1. status'[e].idx \in DOMAIN labels
      <4>. SUFFICES ASSUME status'[e].idx \notin DOMAIN labels PROVE FALSE
        OBVIOUS
      <4>1. labels'[status'[e].idx] = there
        BY <2>2, <2>5
      <4>2. there.ends = {"dest"}
        BY DEF NextLabel, EdgeLabel
      <4>. QED
        BY <2>2, <2>5, <4>1, <4>2
    <3>2. status[e].set # "unreached" /\ status' = status
      BY <2>2, <2>5, <3>1
    <3>3. labels'[status[e].idx] = labels[status[e].idx]
      BY <2>2, <2>5, <3>1, <3>2
    <3>. QED
      BY <1>3, <3>2, <3>3
  <2>. QED
    BY <2>3, <2>4, <2>5
<1>. QED
  BY <1>4, <1>5, <1>6, <1>7, ClearStep

----------------------------------------------------------------------------
BandOf(l) == l.sort \div BucketSize

\* The labels in the queue are in the current bucket or later ones and the others are in
\* earlier ones, if the heuristic underestimates: no label is made that sorts before the
\* one it comes from.
Banded ==
  /\ \A i \in DOMAIN labels \ queue : BandOf(labels[i]) <= cursor
  /\ NeverOverestimates(g) =>
       /\ \A i \in queue : cursor <= BandOf(labels[i])
       /\ pc = "expand" => BandOf(labels[cur]) = cursor
       /\ pc = "origin" =>
            cursor = Get(Distance(Place(g, origin), Place(g, destination))) \div BucketSize

\* A label sorts after the one that is expanded.
LEMMA NextSortsLater ==
  ASSUME IInv, InPlace, DistancesKept, NeverOverestimates(g), pc = "expand",
         NEW e \in Edges, g.tail[e] = EndNode
  PROVE  /\ labels[cur].sort <= NextLabel(e, Parts, {}).sort
         /\ DestinationsOn(destination, e) # {} =>
              labels[cur].sort <= NextLabel(e, DestinationPos(destination, e), {"dest"}).sort
<1>. DEFINE w == Place(g, destination)
            f == labels[cur].edge
            c == labels[cur].cost
            y == g.penalty[f][e]
            q == PartCost(g, e)
            h == Get(Distance(g.x[g.tail[e]], w))
            new == NextLabel(e, Parts, {})
<1>1. /\ g \in Graphs /\ IsLocation(g, destination) /\ destination \in Locations(g)
      /\ cur \in DOMAIN labels /\ labels \in Seq(Label) /\ "dest" \notin labels[cur].ends
      /\ Parts \in Nat
  BY SearchAssumption DEF IInv, TypeOK, InPlace, ExpandedIsPopped
<1>2. labels[cur] \in Label
  BY <1>1
<1>3. /\ f \in Edges /\ c \in Nat /\ y \in Nat /\ q \in Nat /\ w \in Int
      /\ g.x[g.tail[e]] \in Int /\ g.x[g.head[e]] \in Int
  <2>1. f \in Edges /\ c \in Nat
    BY <1>2 DEF Label
  <2>2. q \in Nat
    BY <1>1, PartCostType DEF Edges
  <2>3. w \in Int
    BY <1>1, PlaceType
  <2>4. /\ g.penalty \in [Edges -> [Edges -> Nat]] /\ g.x \in [DOMAIN g.x -> Int]
        /\ g.tail[e] \in DOMAIN g.x /\ g.head[e] \in DOMAIN g.x
    BY <1>1, SearchAssumption DEF IsGraph, Edges
  <2>. QED
    BY <2>1, <2>2, <2>3, <2>4
<1>4. labels[cur].sort = c + h
  <2>1. labels[cur].sort = c + Get(labels[cur].dist)
    BY <1>1 DEF IInv, LabelsAddUp
  <2>2. labels[cur].dist = ToDestination(f)
    BY <1>1 DEF DistancesKept, DistanceOf
  <2>3. ToDestination(f) = Distance(g.x[g.tail[e]], w)
    BY DEF ToDestination, EndNode
  <2>. QED
    BY <2>1, <2>2, <2>3
<1>5. h \in Nat
  BY <1>3, DistanceType, GetType
<1>6. labels[cur].sort <= new.sort
  <2>. DEFINE t == Get(Distance(g.x[g.head[e]], w))
  <2>1. h <= Parts * q + t
    BY <1>1, <1>3, HeuristicSteps DEF Edges
  <2>2. new.sort = (c + y + q * Parts) + t
    BY DEF NextLabel, EdgeLabel, ToDestination
  <2>3. t \in Nat /\ q * Parts \in Nat /\ Parts * q = q * Parts
    <3>1. t \in Nat
      BY <1>3, DistanceType, GetType
    <3>. HIDE DEF q
    <3>2. q * Parts \in Nat /\ Parts * q = q * Parts
      BY <1>1, <1>3, Product
    <3>. QED
      BY <3>1, <3>2
  <2>. HIDE DEF t, h, q, c, y, new
  <2>4. c + h <= (c + y + q * Parts) + t
    BY <1>3, <1>5, <2>1, <2>3
  <2>. QED
    BY <1>4, <2>2, <2>4
<1>7. ASSUME DestinationsOn(destination, e) # {}
      PROVE  labels[cur].sort <= NextLabel(e, DestinationPos(destination, e), {"dest"}).sort
  <2>. DEFINE p == DestinationPos(destination, e)
              there == NextLabel(e, p, {"dest"})
  <2>1. PICK d \in DestinationsOn(destination, e) : TRUE
    BY <1>7
  <2>2. d \in destination /\ d.edge = e /\ d.pos \in Nat /\ p = d.pos
    BY OneDestination
  <2>3. h <= q * p
    <3>1. Get(Distance(g.x[g.tail[d.edge]], Place(g, destination))) <= PartCost(g, d.edge) * d.pos
      BY <1>1, <1>3, <2>2, HeuristicSteps
    <3>. QED
      BY <2>2, <3>1
  <2>4. there.sort = (c + y + q * p) + Get(0)
    BY DEF NextLabel, EdgeLabel
  <2>5. Get(0) = 0 /\ q * p \in Nat
    BY <1>3, <2>2, SearchAssumption, Product DEF Get
  <2>. HIDE DEF p, h, q, c, y, there
  <2>6. c + h <= (c + y + q * p) + 0
    BY <1>3, <1>5, <2>3, <2>5
  <2>. QED
    BY <1>4, <2>4, <2>5, <2>6 DEF p, there
<1>. QED
  BY <1>6, <1>7

\* The labels of the origin sort after the estimate that the queue was made with.
LEMMA OriginSortsLater ==
  ASSUME IInv, InPlace, NeverOverestimates(g), NEW c \in origin,
         NEW m \in DOMAIN OriginLabels(c)
  PROVE  Get(Distance(Place(g, origin), Place(g, destination))) <= OriginLabels(c)[m].sort
<1>. DEFINE w == Place(g, destination)
            o == Place(g, origin)
            l == OriginLabels(c)[m]
            q == PartCost(g, c.edge)
<1>1. /\ g \in Graphs /\ destination \in Locations(g) /\ origin \in Locations(g)
      /\ IsLocation(g, destination) /\ IsLocation(g, origin)
  BY DEF IInv, TypeOK, InPlace
<1>2. l.sort = l.cost + Get(l.dist)
  BY <1>1, OriginLabelsType
<1>3. /\ l.edge = c.edge /\ l.dist = DistanceOf(l)
      /\ \/ l.ends = {"origin"} /\ l.cost = q * (Parts - c.pos)
         \/ \E d \in DestinationsOn(destination, c.edge) :
              /\ d.pos >= c.pos /\ l.ends = {"origin", "dest"}
              /\ l.cost = q * (d.pos - c.pos)
  BY OriginLabelsAre, Zenon
<1>4. c.edge \in DOMAIN g.head /\ c.pos \in 0 .. Parts /\ w \in Int
  BY <1>1, PlaceAlong, PlaceType
<1>. HIDE DEF l
<1>5. CASE l.ends = {"origin"} /\ l.cost = q * (Parts - c.pos)
  <2>1. l.dist = Distance(g.x[g.head[c.edge]], w)
    BY <1>3, <1>5 DEF DistanceOf, ToDestination
  <2>2. Get(Distance(o, w)) <= q * (Parts - c.pos) + Get(Distance(g.x[g.head[c.edge]], w))
    BY <1>1, <1>4, HeuristicSteps
  <2>. QED
    BY <1>2, <1>5, <2>1, <2>2 DEF l
<1>6. CASE \E d \in DestinationsOn(destination, c.edge) :
              /\ d.pos >= c.pos /\ l.ends = {"origin", "dest"}
              /\ l.cost = q * (d.pos - c.pos)
  <2>1. PICK d \in DestinationsOn(destination, c.edge) :
              /\ d.pos >= c.pos /\ l.ends = {"origin", "dest"}
              /\ l.cost = q * (d.pos - c.pos)
    BY <1>6
  <2>2. d \in destination /\ d.edge = c.edge /\ d.pos \in Nat
    BY OneDestination
  <2>3. Get(Distance(o, w)) <= q * (d.pos - c.pos)
    <3>1. c.pos <= d.pos
      BY <1>4, <2>1, <2>2
    <3>. QED
      BY <1>1, <2>2, <3>1, HeuristicBetween
  <2>4. Get(l.dist) = 0
    BY <1>3, <2>1, SearchAssumption DEF DistanceOf, Get
  <2>5. q * (d.pos - c.pos) \in Nat
    <3>1. q \in Nat /\ d.pos - c.pos \in Nat
      BY <1>1, <1>4, <2>1, <2>2, PartCostType
    <3>. HIDE DEF q
    <3>. QED
      BY <3>1, Product
  <2>6. l.sort = q * (d.pos - c.pos)
    BY <1>2, <2>1, <2>4, <2>5
  <2>. QED
    BY <2>3, <2>6 DEF l
<1>. QED
  BY <1>3, <1>5, <1>6

----------------------------------------------------------------------------
\* The current bucket changes only when a label is popped.
LEMMA CursorStep ==
  ASSUME [Next]_vars
  PROVE  \/ \E i \in queue : Arrive(i) \/ PopCloser(i) \/ PopOther(i) \/ GiveUp(i)
         \/ /\ cursor' = cursor
            /\ pc' = "expand" => pc = "expand" /\ cur' = cur
            /\ pc' = "origin" => pc = "origin"
  BY DEF Next, vars, SetOrigin, Begin, Fail, ExpandBlocked, ExpandEdge, SkipBack, UTurn,
         EndExpand, Expanding

\* Pop takes a label of the lowest bucket, and what Relax makes sorts no earlier.
LEMMA BandsStay ==
  IInv /\ IInv' /\ InPlace /\ DistancesKept /\ DistancesKept' /\ Clear /\ Banded /\ [Next]_vars =>
    Banded'
<1>. SUFFICES ASSUME IInv, IInv', InPlace, DistancesKept, DistancesKept', Clear, Banded, [Next]_vars
     PROVE  Banded'
  OBVIOUS
<1>1. /\ g' = g /\ origin' = origin /\ destination' = destination
      /\ labels \in Seq(Label) /\ labels' \in Seq(Label) /\ g \in Graphs
      /\ queue \subseteq DOMAIN labels /\ queue' \subseteq DOMAIN labels'
      /\ DOMAIN labels \subseteq DOMAIN labels'
      /\ queue' \cap DOMAIN labels \subseteq queue
      /\ DOMAIN labels' \ DOMAIN labels \subseteq queue'
      /\ \A j \in DOMAIN labels : j \notin queue => labels'[j] = labels[j]
      /\ IsLocation(g, origin) /\ IsLocation(g, destination)
      /\ cursor \in Int
  <2>1. /\ g' = g /\ origin' = origin /\ destination' = destination
        /\ DOMAIN labels \subseteq DOMAIN labels'
        /\ queue' \cap DOMAIN labels \subseteq queue
        /\ DOMAIN labels' \ DOMAIN labels \subseteq queue'
        /\ \A j \in DOMAIN labels : j \notin queue => labels'[j] = labels[j]
    BY LabelStep DEF query
  <2>2. Label' = Label
    BY <2>1 DEF Label, Edges
  <2>. QED
    BY <2>1, <2>2 DEF IInv, TypeOK
<1>. DEFINE NO == NeverOverestimates(g)
            start == Get(Distance(Place(g, origin), Place(g, destination)))
<1>2. /\ \A i \in DOMAIN labels \ queue : BandOf(labels[i]) <= cursor
      /\ NO =>
           /\ \A i \in queue : cursor <= BandOf(labels[i])
           /\ pc = "expand" => BandOf(labels[cur]) = cursor
           /\ pc = "origin" => cursor = start \div BucketSize
  BY DEF Banded
<1>. SUFFICES
      /\ \A i \in DOMAIN labels' \ queue' : BandOf(labels'[i]) <= cursor'
      /\ NO =>
           /\ \A i \in queue' : cursor' <= BandOf(labels'[i])
           /\ pc' = "expand" => BandOf(labels'[cur']) = cursor'
           /\ pc' = "origin" => cursor' = start \div BucketSize
  BY <1>1 DEF Banded
<1>3. /\ \A i \in DOMAIN labels : labels[i].sort \in Int /\ BandOf(labels[i]) \in Int
      /\ \A i \in DOMAIN labels' : labels'[i].sort \in Int /\ BandOf(labels'[i]) \in Int
      /\ start \in Int /\ start \div BucketSize \in Int
  <2>1. \A ls \in Seq(Label) : \A i \in DOMAIN ls : ls[i].sort \in Int
    <3>1. \A ls \in Seq(Label) : \A i \in DOMAIN ls : ls[i] \in Label
      OBVIOUS
    <3>. QED
      BY <3>1 DEF Label
  <2>2. /\ \A i \in DOMAIN labels : labels[i].sort \in Int
        /\ \A i \in DOMAIN labels' : labels'[i].sort \in Int
    BY <1>1, <2>1
  <2>3. start \in Int
    <3>1. Place(g, origin) \in Int /\ Place(g, destination) \in Int
      BY <1>1, PlaceType
    <3>2. Distance(Place(g, origin), Place(g, destination)) \in Nat
      BY <3>1, DistanceType
    <3>. QED
      BY <3>2, GetType
  <2>. HIDE DEF start
  <2>. QED
    BY <2>2, <2>3, Buckets DEF BandOf
<1>. HIDE DEF start
<1>4. CASE \E i \in queue : Arrive(i) \/ PopCloser(i) \/ PopOther(i) \/ GiveUp(i)
  <2>1. PICK i \in queue : Arrive(i) \/ PopCloser(i) \/ PopOther(i) \/ GiveUp(i)
    BY <1>4
  <2>2. /\ labels' = labels /\ queue' = queue \ {i} /\ cursor' = Bucket(i) /\ pc' # "origin"
        /\ pc' = "expand" => cur' = i
        /\ \A j \in queue : Bucket(i) <= Bucket(j)
    BY <2>1 DEF Arrive, PopCloser, PopOther, GiveUp, Pop, Lowest, StartExpand
  <2>3. \A j \in queue :
          Bucket(j) = IF BandOf(labels[j]) < cursor THEN cursor ELSE BandOf(labels[j])
    BY DEF Bucket, BandOf
  <2>4. cursor' \in Int /\ cursor <= cursor' /\ BandOf(labels[i]) <= cursor'
    BY <1>1, <1>3, <2>2, <2>3
  <2>5. \A j \in DOMAIN labels' \ queue' : BandOf(labels'[j]) <= cursor'
    BY <1>1, <1>2, <1>3, <2>2, <2>4
  <2>6. ASSUME NO
        PROVE  /\ \A j \in queue' : cursor' <= BandOf(labels'[j])
               /\ cursor' = BandOf(labels[i])
    <3>1. \A j \in queue : Bucket(j) = BandOf(labels[j])
      BY <1>1, <1>2, <1>3, <2>3, <2>6
    <3>. QED
      BY <2>2, <3>1
  <2>. QED
    BY <2>2, <2>5, <2>6
<1>5. CASE ~\E i \in queue : Arrive(i) \/ PopCloser(i) \/ PopOther(i) \/ GiveUp(i)
  <2>1. /\ cursor' = cursor
        /\ pc' = "expand" => pc = "expand" /\ cur' = cur
        /\ pc' = "origin" => pc = "origin"
    BY <1>5, CursorStep
  <2>2. queue \subseteq queue'
    BY <1>5 DEF Next, vars, SetOrigin, Begin, Fail, ExpandBlocked, ExpandEdge, SkipBack, UTurn,
                EndExpand, ExpandInner, Relax
  <2>3. \A i \in DOMAIN labels' \ queue' : BandOf(labels'[i]) <= cursor'
    BY <1>1, <1>2, <2>1, <2>2
  <2>4. ASSUME NO, pc' = "expand" PROVE BandOf(labels'[cur']) = cursor'
    <3>1. cur \in DOMAIN labels \ queue
      BY <2>1, <2>4 DEF IInv, ExpandedIsPopped
    <3>. QED
      BY <1>1, <1>2, <2>1, <2>4, <3>1
  <2>5. ASSUME NO, NEW j \in queue', j \in DOMAIN labels, labels'[j] = labels[j]
        PROVE  cursor' <= BandOf(labels'[j])
    BY <1>1, <1>2, <2>1, <2>5
  <2>6. ASSUME NO PROVE \A j \in queue' : cursor' <= BandOf(labels'[j])
    <3>1. CASE UNCHANGED <<labels, queue, status>>
      BY <1>1, <2>5, <2>6, <3>1
    <3>2. CASE SetOrigin
      <4>. DEFINE c == CHOOSE c \in todo : TRUE
                  more == OriginLabels(c)
      <4>1. c \in origin /\ pc = "origin" /\ (labels' = labels \/ labels' = labels \o more)
        BY <3>2 DEF SetOrigin, IInv, TypeOK
      <4>2. more \in Seq(Label)
        BY <1>1, <4>1, OriginLabelsType
      <4>3. \A m \in DOMAIN more : start <= more[m].sort
        BY <2>6, <4>1, OriginSortsLater DEF start
      <4>. HIDE DEF more, c
      <4>4. CASE labels' = labels
        BY <1>1, <2>5, <2>6, <4>4
      <4>5. CASE labels' = labels \o more
        <5>1. \A j \in DOMAIN labels' :
                \/ j \in DOMAIN labels /\ labels'[j] = labels[j]
                \/ j - Len(labels) \in DOMAIN more /\ labels'[j] = more[j - Len(labels)]
          BY <1>1, <4>2, <4>5, ConcatProperties
        <5>2. ASSUME NEW j \in queue', start <= labels'[j].sort
              PROVE  cursor' <= BandOf(labels'[j])
          <6>1. start \div BucketSize <= labels'[j].sort \div BucketSize
            BY <1>1, <1>3, <5>2, Buckets
          <6>. QED
            BY <1>2, <2>1, <2>6, <4>1, <6>1 DEF BandOf
        <5>. QED
          BY <1>1, <2>5, <2>6, <4>3, <5>1, <5>2
      <4>. QED
        BY <4>1, <4>4, <4>5
    <3>3. ASSUME Expanding, NEW e \in Edges, Relax(e), status[e].set # "permanent", g.tail[e] = EndNode
          PROVE  \A j \in queue' : cursor' <= BandOf(labels'[j])
      <4>1. LabelInv /\ pc = "expand"
        BY <3>3, ExpandedEdges DEF Expanding
      <4>. DEFINE new == NextLabel(e, Parts, {})
                  there == NextLabel(e, DestinationPos(destination, e), {"dest"})
      <4>2. /\ \A j \in DOMAIN labels :
                 \/ labels'[j] = labels[j]
                 \/ /\ labels'[j].edge = e /\ labels'[j].ends = {}
                    /\ labels'[j].cost = new.cost
            /\ \A j \in DOMAIN labels' \ DOMAIN labels :
                 labels'[j] = new \/ (labels'[j] = there /\ DestinationsOn(destination, e) # {})
        BY <1>1, <3>3, <4>1, Relaxed
      <4>3. /\ labels[cur].sort <= new.sort
            /\ DestinationsOn(destination, e) # {} => labels[cur].sort <= there.sort
        BY <2>6, <3>3, <4>1, NextSortsLater
      <4>4. new.sort = new.cost + Get(ToDestination(e))
        BY DEF NextLabel, EdgeLabel
      <4>. HIDE DEF new, there
      <4>5. ASSUME NEW j \in DOMAIN labels', labels'[j].edge = e, labels'[j].ends = {},
                   labels'[j].cost = new.cost
            PROVE  labels'[j].sort = new.sort
        <5>1. labels'[j].sort = labels'[j].cost + Get(labels'[j].dist)
          BY DEF IInv, LabelsAddUp
        <5>2. labels'[j].dist = DistanceOf(labels[j])'
          BY DEF DistancesKept
        <5>3. DistanceOf(labels[j])' = ToDestination(e)
          BY <1>1, <4>5 DEF DistanceOf, ToDestination
        <5>. QED
          BY <4>4, <4>5, <5>1, <5>2, <5>3
      <4>6. \A j \in queue' :
              (j \in DOMAIN labels /\ labels'[j] = labels[j]) \/ labels[cur].sort <= labels'[j].sort
        BY <1>1, <4>2, <4>3, <4>5
      <4>7. cur \in DOMAIN labels /\ BandOf(labels[cur]) = cursor
        BY <1>2, <2>6, <4>1 DEF IInv, TypeOK
      <4>8. ASSUME NEW j \in queue', labels[cur].sort <= labels'[j].sort
            PROVE  cursor' <= BandOf(labels'[j])
        <5>1. labels[cur].sort \div BucketSize <= labels'[j].sort \div BucketSize
          BY <1>1, <1>3, <4>7, <4>8, Buckets
        <5>. QED
          BY <2>1, <4>7, <5>1 DEF BandOf
      <4>. QED
        BY <2>5, <2>6, <4>6, <4>8
    <3>. QED
      BY <1>5, <3>1, <3>2, <3>3, ClearStep
  <2>. QED
    BY <1>2, <2>1, <2>3, <2>4, <2>6
<1>. QED
  BY <1>4, <1>5

----------------------------------------------------------------------------
\* The way from label a on to edge f was taken: f has a label that costs no more than that
\* way, or one that was popped before it, in the same bucket or an earlier one.
Taken(gr, ls, st, qu, a, f) ==
  /\ st[f].set # "unreached"
  /\ NeverOverestimates(gr) =>
       \/ ls[st[f].idx].cost <= ls[a].cost + gr.penalty[ls[a].edge][f] + PartCost(gr, f) * Parts
       \/ st[f].idx \notin qu /\ BandOf(ls[st[f].idx]) <= BandOf(ls[a])

\* The label popped last was expanded too, or is one of the destination.
CurIsDone == pc \in {"origin", "pop", "arrived"} \/ (pc = "failed" /\ nc <= MaxNoConvergence)

\* From every label that was expanded all ways on were taken, and those to the first edges
\* of the node from the one that is being expanded.
WaysTaken ==
  /\ \A a \in DOMAIN labels \ queue :
       "dest" \notin labels[a].ends /\ (a # cur \/ CurIsDone) =>
         \A f \in Edges : Follows(g, labels[a].edge, f) => Taken(g, labels, status, queue, a, f)
  /\ pc = "expand" =>
       \A m \in 1 .. k - 1 :
         Follows(g, labels[cur].edge, Out[m]) => Taken(g, labels, status, queue, cur, Out[m])

\* A way that was taken stays taken.
LEMMA WayStays ==
  ASSUME IInv, Clear, StatusIsLabel, [Next]_vars, NEW a \in DOMAIN labels \ queue,
         NEW f \in Edges, Taken(g, labels, status, queue, a, f)
  PROVE  Taken(g, labels', status', queue', a, f)
<1>1. /\ labels'[a] = labels[a] /\ queue' \cap DOMAIN labels \subseteq queue
      /\ \A j \in DOMAIN labels : /\ labels'[j].cost <= labels[j].cost
                                  /\ j \notin queue => labels'[j] = labels[j]
  BY LabelStep
<1>2. status[f].set # "unreached"
  BY DEF Taken
<1>. DEFINE i == status[f].idx
<1>3. status'[f].set # "unreached" /\ status'[f].idx = i
  BY <1>2, StatusLabelsStay
<1>4. i \in DOMAIN labels /\ labels \in Seq(Label) /\ g \in Graphs
  BY <1>2 DEF IInv, TypeOK
<1>. DEFINE w == labels[a].cost + g.penalty[labels[a].edge][f] + PartCost(g, f) * Parts
<1>5. w \in Nat
  <2>1. labels[a] \in Label
    BY <1>4
  <2>2. labels[a].cost \in Nat /\ labels[a].edge \in Edges
    BY <2>1 DEF Label
  <2>3. g.penalty \in [Edges -> [Edges -> Nat]] /\ Parts \in Nat
    BY <1>4, SearchAssumption DEF IsGraph, Edges
  <2>4. PartCost(g, f) * Parts \in Nat
    BY <1>4, <2>3, PartCostType, Product DEF Edges
  <2>. QED
    BY <2>2, <2>3, <2>4
<1>6. labels[i].cost \in Nat /\ labels'[i].cost <= labels[i].cost /\ labels'[i].cost \in Int
  <2>1. labels[i] \in Label
    BY <1>4
  <2>2. IInv'
    BY NextIInv
  <2>3. i \in DOMAIN labels' /\ labels' \in Seq(Label')
    BY <1>4, <2>2, LabelStep DEF IInv, TypeOK
  <2>4. labels'[i] \in Label'
    BY <2>3
  <2>5. labels[i].cost \in Nat
    BY <2>1 DEF Label
  <2>6. labels'[i].cost \in Nat
    BY <2>4 DEF Label
  <2>. QED
    BY <1>1, <1>4, <2>5, <2>6
<1>. HIDE DEF i
<1>7. NeverOverestimates(g) =>
        labels[i].cost <= w \/ (i \notin queue /\ BandOf(labels[i]) <= BandOf(labels[a]))
  BY DEF Taken, i
<1>. HIDE DEF w
<1>8. NeverOverestimates(g) =>
        labels'[i].cost <= w \/ (i \notin queue' /\ BandOf(labels'[i]) <= BandOf(labels'[a]))
  <2>1. i \notin queue => i \notin queue' /\ labels'[i] = labels[i]
    BY <1>1, <1>4
  <2>. QED
    BY <1>1, <1>5, <1>6, <1>7, <2>1
<1>. QED
  BY <1>1, <1>3, <1>8 DEF Taken, w

\* Expanding an edge takes the way to it.
LEMMA WayIsTaken ==
  ASSUME IInv, Clear, StatusIsLabel, Banded, Expanding, NEW e \in Edges,
         Follows(g, labels[cur].edge, e), ExpandInner(e, FALSE), [Next]_vars
  PROVE  Taken(g, labels', status', queue', cur, e)
<1>1. /\ g \in Graphs /\ IsLocation(g, destination) /\ labels \in Seq(Label)
      /\ cur \in DOMAIN labels \ queue /\ pc = "expand"
  BY DEF IInv, TypeOK, ExpandedIsPopped, Expanding
<1>2. labels'[cur] = labels[cur]
  BY <1>1, LabelStep
<1>3. CASE status[e].set = "permanent"
  <2>1. status' = status /\ labels' = labels /\ queue' = queue
    BY <1>3 DEF ExpandInner
  <2>2. status[e].idx \in DOMAIN labels \ queue
    BY <1>3 DEF StatusIsLabel, IInv, TypeOK
  <2>3. NeverOverestimates(g) => BandOf(labels[status[e].idx]) <= BandOf(labels[cur])
    BY <1>1, <2>2 DEF Banded
  <2>. QED
    BY <1>3, <2>1, <2>2, <2>3 DEF Taken
<1>4. CASE status[e].set # "permanent"
  <2>1. Allowed(e, FALSE)
    <3>1. e \in g.access /\ e # g.opp[labels[cur].edge]
      BY DEF Follows
    <3>2. \A b \in {0, 1} : ~(b > MaxDistance)
      BY LimitsAssumption DEF Clear
    <3>. QED
      BY <3>1, <3>2 DEF Allowed
  <2>2. ~Restricted(e)
    BY DEF Clear, Restricted
  <2>3. Relax(e)
    BY <1>4, <2>1, <2>2 DEF ExpandInner
  <2>4. LabelInv
    BY <1>1, ExpandedEdges
  <2>5. /\ status'[e].set = "temporary"
        /\ labels'[status'[e].idx].cost <= NextLabel(e, Parts, {}).cost
    BY <1>1, <1>4, <2>3, <2>4, Relaxed
  <2>6. NextLabel(e, Parts, {}).cost =
          labels[cur].cost + g.penalty[labels[cur].edge][e] + PartCost(g, e) * Parts
    BY DEF NextLabel, EdgeLabel
  <2>. QED
    BY <1>2, <2>5, <2>6 DEF Taken
<1>. QED
  BY <1>3, <1>4

\* Ways on from the end of a label are those to the edges of its node.
LEMMA WaysAreOut ==
  ASSUME IInv, pc = "expand", NEW f \in Edges, Follows(g, labels[cur].edge, f)
  PROVE  EndNode \notin g.blocked /\ f # Back /\ \E m \in 1 .. Len(Out) : f = Out[m]
<1>1. g \in Graphs /\ cur \in DOMAIN labels /\ labels \in Seq(Label)
  BY DEF IInv, TypeOK
<1>2. labels[cur] \in Label
  BY <1>1
<1>3. labels[cur].edge \in Edges
  BY <1>2 DEF Label
<1>4. EndNode \in DOMAIN g.x
  BY <1>1, <1>3, SearchAssumption DEF IsGraph, Edges, EndNode
<1>5. {g.out[EndNode][i] : i \in 1 .. Len(g.out[EndNode])} = {e \in Edges : g.tail[e] = EndNode}
  BY <1>1, <1>4, SearchAssumption DEF IsGraph, Edges
<1>6. g.tail[f] = EndNode /\ EndNode \notin g.blocked /\ f # Back
  BY DEF Follows, EndNode, Back
<1>. QED
  BY <1>5, <1>6 DEF Out

----------------------------------------------------------------------------
\* Expand goes through all edges of the node before the next label is popped.
LEMMA WaysStayTaken ==
  IInv /\ Clear /\ StatusIsLabel /\ Banded /\ WaysTaken /\ [Next]_vars => WaysTaken'
<1>. SUFFICES ASSUME IInv, Clear, StatusIsLabel, Banded, WaysTaken, [Next]_vars
     PROVE  WaysTaken'
  OBVIOUS
<1>1. /\ g' = g /\ Edges' = Edges /\ labels \in Seq(Label) /\ queue \subseteq DOMAIN labels
      /\ g \in Graphs
      /\ DOMAIN labels \subseteq DOMAIN labels'
      /\ DOMAIN labels' \ DOMAIN labels \subseteq queue'
      /\ \A j \in DOMAIN labels : /\ labels'[j].edge = labels[j].edge
                                  /\ labels'[j].ends = labels[j].ends
  BY LabelStep DEF query, Edges, IInv, TypeOK
<1>. DEFINE Then(a, f) == Taken(g, labels', status', queue', a, f)
<1>2. ASSUME NEW a \in DOMAIN labels \ queue, "dest" \notin labels[a].ends, a # cur \/ CurIsDone,
             NEW f \in Edges, Follows(g, labels[a].edge, f)
      PROVE  Then(a, f)
  BY <1>2, WayStays DEF WaysTaken
<1>3. ASSUME pc = "expand", NEW m \in 1 .. k - 1, Follows(g, labels[cur].edge, Out[m])
      PROVE  Then(cur, Out[m])
  <2>1. cur \in DOMAIN labels \ queue
    BY <1>3 DEF IInv, ExpandedIsPopped
  <2>2. Out[m] \in Edges
    <3>1. Out \in Seq(Edges) /\ Len(Out) \in Nat /\ k \in 1 .. Len(Out) + 1
      BY <1>3, OutType DEF IInv, TypeOK
    <3>2. m \in 1 .. Len(Out)
      BY <3>1
    <3>. QED
      BY <3>1, <3>2
  <2>3. Taken(g, labels, status, queue, cur, Out[m])
    BY <1>3 DEF WaysTaken
  <2>. QED
    BY <2>1, <2>2, <2>3, WayStays
<1>. HIDE DEF Then
<1>. SUFFICES
       /\ \A a \in DOMAIN labels' \ queue' :
            "dest" \notin labels'[a].ends /\ (a # cur' \/ CurIsDone') =>
              \A f \in Edges : Follows(g, labels'[a].edge, f) => Then(a, f)
       /\ pc' = "expand" =>
            \A m \in 1 .. k' - 1 :
              Follows(g, labels'[cur'].edge, Out'[m]) => Then(cur', Out'[m])
  BY <1>1 DEF WaysTaken, Then
<1>4. CASE \E i \in queue : Arrive(i) \/ PopCloser(i) \/ PopOther(i) \/ GiveUp(i)
  <2>1. PICK i \in queue : Arrive(i) \/ PopCloser(i) \/ PopOther(i) \/ GiveUp(i)
    BY <1>4
  <2>2. labels' = labels /\ queue' = queue \ {i} /\ cur' = i /\ pc = "pop" /\ CurIsDone
    BY <2>1 DEF Arrive, PopCloser, PopOther, GiveUp, Pop, StartExpand, CurIsDone
  <2>3. pc' = "expand" => k' = 1
    BY <2>1 DEF Arrive, PopCloser, PopOther, GiveUp, StartExpand
  <2>4. "dest" \in labels[i].ends \/ ~CurIsDone'
    BY <2>1, LimitsAssumption DEF Arrive, PopCloser, PopOther, GiveUp, StartExpand, CurIsDone, IInv, TypeOK
  <2>5. ASSUME NEW a \in DOMAIN labels' \ queue', "dest" \notin labels'[a].ends, a # cur' \/ CurIsDone',
               NEW f \in Edges, Follows(g, labels'[a].edge, f)
        PROVE  Then(a, f)
    <3>1. a \in DOMAIN labels \ queue
      BY <2>2, <2>4, <2>5
    <3>. QED
      BY <1>2, <2>2, <2>5, <3>1
  <2>. QED
    BY <2>3, <2>5
<1>5. CASE Expanding
  <2>1. /\ pc = "expand" /\ cur' = cur /\ cur \in DOMAIN labels \ queue
        /\ labels'[cur].edge = labels[cur].edge
    BY <1>1, <1>5 DEF Expanding, IInv, ExpandedIsPopped
  <2>2. Out' = Out
    BY <1>1, <2>1 DEF Out, EndNode
  <2>3. queue \subseteq queue'
    BY <2>1 DEF Next, vars, SetOrigin, Begin, Fail, Arrive, PopCloser, PopOther, GiveUp, Pop,
                ExpandBlocked, ExpandEdge, SkipBack, UTurn, EndExpand, ExpandInner, Relax
  <2>4. ASSUME NEW a \in DOMAIN labels' \ queue', "dest" \notin labels'[a].ends, a # cur,
               NEW f \in Edges, Follows(g, labels'[a].edge, f)
        PROVE  Then(a, f)
    <3>1. a \in DOMAIN labels \ queue /\ labels'[a].edge = labels[a].edge /\ "dest" \notin labels[a].ends
      BY <1>1, <2>3, <2>4
    <3>. QED
      BY <1>2, <2>4, <3>1
  <2>5. k \in 1 .. Len(Out) + 1 /\ Len(Out) \in Nat /\ Out \in Seq(Edges)
    BY <2>1, OutType DEF IInv, TypeOK
  <2>6. CASE pc' = "expand"
    <3>1. ~CurIsDone'
      BY <2>6 DEF CurIsDone
    <3>2. ASSUME NEW m \in 1 .. k' - 1, Follows(g, labels[cur].edge, Out[m])
          PROVE  Then(cur, Out[m])
      <4>1. CASE m \in 1 .. k - 1
        BY <1>3, <2>1, <3>2, <4>1
      <4>2. CASE m \notin 1 .. k - 1
        <5>1. ExpandEdge \/ SkipBack \/ UNCHANGED vars
          BY <2>1, <2>6 DEF Next, SetOrigin, Begin, Fail, Arrive, PopCloser, PopOther, GiveUp, Pop,
                            ExpandBlocked, UTurn, EndExpand
        <5>2. k' = k + 1 /\ m = k
          <6>1. k' = k + 1 \/ k' = k
            BY <5>1 DEF ExpandEdge, SkipBack, vars
          <6>. QED
            BY <2>5, <3>2, <4>2, <6>1
        <5>3. k' # k
          BY <2>5, <5>2
        <5>4. k <= Len(Out) /\ Out[k] \in Edges
          <6>1. k <= Len(Out)
            BY <5>1, <5>3 DEF ExpandEdge, SkipBack, vars
          <6>. QED
            BY <2>5, <6>1
        <5>5. Out[k] # Back
          BY <2>1, <3>2, <5>2, <5>4, WaysAreOut
        <5>6. ExpandInner(Out[k], FALSE)
          BY <5>1, <5>3, <5>5 DEF ExpandEdge, SkipBack, vars
        <5>. QED
          BY <1>5, <3>2, <5>2, <5>4, <5>6, WayIsTaken DEF Then
      <4>. QED
        BY <4>1, <4>2
    <3>. QED
      BY <2>1, <2>2, <2>4, <3>1, <3>2
  <2>7. CASE pc' # "expand"
    <3>1. ASSUME NEW f \in Edges, Follows(g, labels[cur].edge, f) PROVE Then(cur, f)
      <4>1. /\ EndNode \notin g.blocked
            /\ \E m \in 1 .. Len(Out) : f = Out[m]
        BY <2>1, <3>1, WaysAreOut
      <4>2. k > Len(Out)
        BY <2>1, <2>7, <4>1 DEF Next, vars, SetOrigin, Begin, Fail, Arrive, PopCloser, PopOther, GiveUp,
             Pop, ExpandBlocked, ExpandEdge, SkipBack, UTurn, EndExpand
      <4>3. PICK m \in 1 .. Len(Out) : f = Out[m]
        BY <4>1
      <4>4. m \in 1 .. k - 1
        BY <2>5, <4>2, <4>3
      <4>. QED
        BY <1>3, <2>1, <3>1, <4>3, <4>4
    <3>. QED
      BY <2>1, <2>4, <2>7, <3>1
  <2>. QED
    BY <2>6, <2>7
<1>6. CASE /\ ~\E i \in queue : Arrive(i) \/ PopCloser(i) \/ PopOther(i) \/ GiveUp(i)
           /\ ~Expanding
  <2>1. SetOrigin \/ Begin \/ Fail \/ UNCHANGED vars
    BY <1>6 DEF Next, ExpandBlocked, ExpandEdge, SkipBack, UTurn, EndExpand
  <2>2. queue \subseteq queue' /\ cur' = cur
    BY <2>1 DEF SetOrigin, Begin, Fail, vars
  <2>3. CurIsDone' => CurIsDone
    BY <2>1 DEF SetOrigin, Begin, Fail, vars, CurIsDone
  <2>4. ASSUME NEW a \in DOMAIN labels' \ queue', "dest" \notin labels'[a].ends, a # cur' \/ CurIsDone',
               NEW f \in Edges, Follows(g, labels'[a].edge, f)
        PROVE  Then(a, f)
    <3>1. a \in DOMAIN labels \ queue /\ labels'[a].edge = labels[a].edge /\ "dest" \notin labels[a].ends
      BY <1>1, <2>2, <2>4
    <3>. QED
      BY <1>2, <2>2, <2>3, <2>4, <3>1
  <2>5. pc' # "expand"
    <3>1. CASE UNCHANGED vars
      BY <1>6, <3>1 DEF vars, Expanding, query
    <3>2. CASE SetOrigin \/ Begin \/ Fail
      BY <3>2 DEF SetOrigin, Begin, Fail
    <3>. QED
      BY <2>1, <3>1, <3>2
  <2>. QED
    BY <2>4, <2>5
<1>. QED
  BY <1>4, <1>5, <1>6

----------------------------------------------------------------------------
\* The search has arrived with a label of the destination, or failed with an empty queue.
Ended ==
  /\ pc = "arrived" => result \in DOMAIN labels \ queue /\ ToDest(result)
  /\ pc = "failed" /\ nc <= MaxNoConvergence => queue = {}

\* The inductive invariant for the routes that are found.
RInv ==
  /\ IInv
  /\ InPlace
  /\ DistancesKept
  /\ OnOpenEdges
  /\ DestinationsWait
  /\ OriginsLabelled
  /\ Ended
  /\ Clear => StatusIsLabel /\ DestinationsLabelled /\ Banded /\ WaysTaken

\* The invariant holds before the origin has labels.
LEMMA InitRInv == Init => RInv
<1>. SUFFICES ASSUME Init PROVE RInv
  OBVIOUS
<1>1. /\ labels = <<>> /\ queue = {} /\ todo = origin /\ pc = "origin" /\ DOMAIN labels = {}
      /\ origin \in Locations(g) /\ destination \in Locations(g)
      /\ status = [e \in Edges |-> [set |-> "unreached", idx |-> 0]]
      /\ cursor = Get(Distance(Place(g, origin), Place(g, destination))) \div BucketSize
  BY DEF Init
<1>2. IInv
  BY InitIInv
<1>3. InPlace /\ DistancesKept /\ OnOpenEdges /\ DestinationsWait
  BY <1>1 DEF InPlace, DistancesKept, OnOpenEdges, DestinationsWait
<1>4. OriginsLabelled /\ Ended
  BY <1>1 DEF OriginsLabelled, Ended
<1>5. StatusIsLabel /\ DestinationsLabelled
  BY <1>1 DEF StatusIsLabel, DestinationsLabelled
<1>6. Banded
  BY <1>1 DEF Banded
<1>7. WaysTaken
  BY <1>1 DEF WaysTaken
<1>. QED
  BY <1>2, <1>3, <1>4, <1>5, <1>6, <1>7 DEF RInv

\* Every step keeps it.
LEMMA NextRInv == RInv /\ [Next]_vars => RInv'
<1>. SUFFICES ASSUME RInv, [Next]_vars PROVE RInv'
  OBVIOUS
<1>1. IInv /\ InPlace /\ DistancesKept /\ OnOpenEdges /\ DestinationsWait /\ OriginsLabelled /\ Ended
  BY DEF RInv
<1>2. IInv'
  BY <1>1, NextIInv
<1>3. g' = g /\ origin' = origin /\ destination' = destination
  BY <1>1, LabelStep DEF query
<1>4. InPlace'
  BY <1>1, <1>3 DEF InPlace
<1>5. DistancesKept'
  BY <1>1, DistancesStay
<1>6. OnOpenEdges'
  BY <1>1, OpenEdgesStay
<1>7. DestinationsWait'
  BY <1>1, DestinationsKeepWaiting
<1>8. OriginsLabelled'
  BY <1>1, OriginsStayLabelled
<1>9. Ended'
  <2>1. CASE UNCHANGED vars
    BY <1>1, <2>1 DEF Ended, vars, ToDest
  <2>2. ASSUME NEW i \in queue, Arrive(i) PROVE Ended'
    <3>1. i \in DOMAIN labels
      BY <1>1 DEF IInv, TypeOK
    <3>. QED
      BY <2>2, <3>1 DEF Ended, Arrive, Pop, ToDest
  <2>3. ASSUME NEW i \in queue, PopCloser(i) \/ PopOther(i) PROVE Ended'
    BY <2>3 DEF Ended, PopCloser, PopOther, StartExpand
  <2>4. ASSUME NEW i \in queue, GiveUp(i) PROVE Ended'
    <3>1. pc' # "arrived" /\ nc' = nc + 1 /\ nc > MaxNoConvergence
      BY <2>4 DEF GiveUp
    <3>2. nc \in Nat /\ MaxNoConvergence \in Nat
      BY <1>1, LimitsAssumption DEF IInv, TypeOK
    <3>3. ~(nc' <= MaxNoConvergence)
      BY <3>1, <3>2
    <3>. QED
      BY <3>1, <3>3 DEF Ended
  <2>5. CASE Fail
    BY <2>5 DEF Ended, Fail
  <2>6. CASE SetOrigin \/ Begin \/ ExpandBlocked \/ ExpandEdge \/ SkipBack \/ UTurn \/ EndExpand
    BY <2>6 DEF Ended, SetOrigin, Begin, ExpandBlocked, ExpandEdge, SkipBack, UTurn, EndExpand, Expanding
  <2>. QED
    BY <2>1, <2>2, <2>3, <2>4, <2>5, <2>6 DEF Next
<1>10. ASSUME Clear'
       PROVE  StatusIsLabel' /\ DestinationsLabelled' /\ Banded' /\ WaysTaken'
  <2>1. Clear
    BY <1>3, <1>10 DEF Clear
  <2>2. StatusIsLabel /\ DestinationsLabelled /\ Banded /\ WaysTaken
    BY <2>1 DEF RInv
  <2>3. StatusIsLabel'
    BY <1>1, <2>1, <2>2, StatusLabelsStay
  <2>4. DestinationsLabelled'
    BY <1>1, <2>1, <2>2, DestinationsStayLabelled
  <2>5. Banded'
    BY <1>1, <1>2, <1>5, <2>1, <2>2, BandsStay
  <2>6. WaysTaken'
    BY <1>1, <2>1, <2>2, WaysStayTaken
  <2>. QED
    BY <2>3, <2>4, <2>5, <2>6
<1>. QED
  BY <1>2, <1>4, <1>5, <1>6, <1>7, <1>8, <1>9, <1>10 DEF RInv

----------------------------------------------------------------------------
\* A location at an end of an edge is at a node and has candidates on all its edges.
LEMMA AtNodes ==
  ASSUME NEW gr \in Graphs, NEW loc \in Locations(gr), NEW c \in loc, c.pos = 0 \/ c.pos = Parts
  PROVE  LET m == IF c.pos = 0 THEN gr.tail[c.edge] ELSE gr.head[c.edge] IN
           /\ loc = AtNode(gr, m)
           /\ \A f \in gr.access : /\ gr.tail[f] = m => [edge |-> f, pos |-> 0] \in loc
                                   /\ gr.head[f] = m => [edge |-> f, pos |-> Parts] \in loc
           /\ \A d \in loc : \/ d.pos = 0 /\ gr.tail[d.edge] = m
                             \/ d.pos = Parts /\ gr.head[d.edge] = m
<1>1. Parts \in Nat \ {0}
  BY SearchAssumption
<1>2. PICK n0 \in DOMAIN gr.x : loc = AtNode(gr, n0)
  <2>1. ASSUME NEW e \in gr.access, NEW p \in 1 .. Parts - 1, loc = OnEdge(gr, e, p)
        PROVE  FALSE
    <3>1. c.pos = p \/ c.pos = Parts - p
      BY <2>1 DEF OnEdge
    <3>. QED
      BY <1>1, <3>1
  <2>. QED
    BY <2>1 DEF Locations
<1>3. \A d \in loc : (d.pos = 0 /\ gr.tail[d.edge] = n0) \/ (d.pos = Parts /\ gr.head[d.edge] = n0)
  BY <1>2 DEF AtNode
<1>4. n0 = IF c.pos = 0 THEN gr.tail[c.edge] ELSE gr.head[c.edge]
  BY <1>1, <1>3
<1>5. \A f \in gr.access : /\ gr.tail[f] = n0 => [edge |-> f, pos |-> 0] \in loc
                           /\ gr.head[f] = n0 => [edge |-> f, pos |-> Parts] \in loc
  BY <1>2 DEF AtNode
<1>. QED
  BY <1>2, <1>3, <1>4, <1>5

----------------------------------------------------------------------------
\* A candidate of the destination that SetDestination skips is at the start of its edge, and
\* every edge that ends there has one that is not skipped.
LEMMA SkippedDestination ==
  ASSUME RInv, NEW d \in destination, d \notin DestinationsOn(destination, d.edge)
  PROVE  /\ d.pos = 0
         /\ \E c \in destination : c.pos = Parts /\ c \in DestinationsOn(destination, c.edge)
         /\ destination = AtNode(g, g.tail[d.edge])
         /\ \A e \in g.access : g.head[e] = g.tail[d.edge] =>
              [edge |-> e, pos |-> Parts] \in DestinationsOn(destination, e)
<1>1. g \in Graphs /\ destination \in Locations(g) /\ Parts \in Nat \ {0}
  BY SearchAssumption DEF RInv, IInv, TypeOK, InPlace
<1>2. d.pos = 0 /\ \E c \in destination : c.pos # 0
  BY DEF DestinationsOn, SetDestination
<1>3. /\ destination = AtNode(g, g.tail[d.edge])
      /\ \A e \in g.access : g.head[e] = g.tail[d.edge] => [edge |-> e, pos |-> Parts] \in destination
      /\ \A c \in destination : c.pos = 0 \/ c.pos = Parts
  BY <1>1, <1>2, AtNodes
<1>4. \A c \in destination : c.pos = Parts => c \in DestinationsOn(destination, c.edge)
  BY <1>1 DEF DestinationsOn, SetDestination
<1>5. ASSUME NEW e \in g.access, g.head[e] = g.tail[d.edge]
      PROVE  [edge |-> e, pos |-> Parts] \in DestinationsOn(destination, e)
  BY <1>3, <1>4, <1>5
<1>. QED
  BY <1>2, <1>3, <1>4, <1>5

\* A candidate of the origin that was not skipped has its labels.
LEMMA OriginHasLabels ==
  ASSUME RInv, pc # "origin", NEW c \in origin, ~Skipped(origin, destination, c)
  PROVE  /\ \E i \in DOMAIN labels : ToEnd(g, labels[i], c)
         /\ \A d \in DestinationsOn(destination, c.edge) : d.pos >= c.pos =>
              \E i \in DOMAIN labels :
                ToDest(i) /\ labels[i].cost = PartCost(g, c.edge) * (d.pos - c.pos)
<1>1. Labelled(g, destination, labels, c)
  BY DEF RInv, OriginsLabelled
<1>2. ASSUME NEW d \in DestinationsOn(destination, c.edge), d.pos >= c.pos
      PROVE  \E i \in DOMAIN labels :
               ToDest(i) /\ labels[i].cost = PartCost(g, c.edge) * (d.pos - c.pos)
  <2>1. d \in Ahead(destination, c)
    BY <1>2 DEF Ahead
  <2>2. PICK i \in DOMAIN labels : Until(g, labels[i], c, d)
    BY <1>1, <2>1 DEF Labelled
  <2>. QED
    BY <2>2 DEF Until, ToDest
<1>. QED
  BY <1>1, <1>2 DEF Labelled

\* A candidate that SetOrigin skips is at a node, whose other edges have candidates.
LEMMA SkippedOrigin ==
  ASSUME RInv, NEW c \in origin, Skipped(origin, destination, c), NEW f \in g.access,
         g.tail[f] = g.head[c.edge]
  PROVE  /\ [edge |-> f, pos |-> 0] \in origin
         /\ ~Skipped(origin, destination, [edge |-> f, pos |-> 0])
<1>1. g \in Graphs /\ origin \in Locations(g) /\ Parts \in Nat \ {0}
  BY SearchAssumption DEF RInv, IInv, TypeOK, InPlace
<1>2. c.pos = Parts
  BY DEF Skipped
<1>3. [edge |-> f, pos |-> 0] \in origin
  BY <1>1, <1>2, AtNodes
<1>. QED
  BY <1>1, <1>3 DEF Skipped

\* A destination on the edge of an origin has a label for the way along that edge.
LEMMA DirectReached ==
  ASSUME RInv, pc # "origin", NEW o \in origin, NEW d \in destination, o.edge = d.edge, o.pos <= d.pos
  PROVE  \E i \in DOMAIN labels :
           ToDest(i) /\ labels[i].cost <= PartCost(g, o.edge) * (d.pos - o.pos)
<1>1. /\ g \in Graphs /\ origin \in Locations(g) /\ destination \in Locations(g)
      /\ Parts \in Nat \ {0}
  BY SearchAssumption DEF RInv, IInv, TypeOK, InPlace
<1>2. /\ o.edge \in DOMAIN g.head /\ o.pos \in 0 .. Parts /\ d.pos \in 0 .. Parts
      /\ o.edge \in g.access
  BY <1>1, PlaceAlong
<1>. DEFINE q == PartCost(g, o.edge)
<1>3. q \in Nat /\ d.pos - o.pos \in Nat
  BY <1>1, <1>2, PartCostType
<1>4. q * (d.pos - o.pos) \in Nat
  <2>. HIDE DEF q
  <2>. QED
    BY <1>3, Product
<1>5. CASE d \in DestinationsOn(destination, d.edge)
  <2>1. ~Skipped(origin, destination, o)
    <3>. SUFFICES ASSUME Skipped(origin, destination, o) PROVE FALSE
      OBVIOUS
    <3>1. o.pos = Parts /\ ~\E x \in DestinationsOn(destination, o.edge) : x.pos = o.pos
      BY DEF Skipped
    <3>2. d.pos = o.pos
      BY <1>1, <1>2, <3>1
    <3>. QED
      BY <1>5, <3>1, <3>2
  <2>2. d.pos >= o.pos
    BY <1>2
  <2>3. PICK i \in DOMAIN labels : ToDest(i) /\ labels[i].cost = q * (d.pos - o.pos)
    BY <1>5, <2>1, <2>2, OriginHasLabels
  <2>. HIDE DEF q
  <2>4. labels[i].cost <= q * (d.pos - o.pos)
    BY <1>4, <2>3
  <2>. QED
    BY <2>3, <2>4 DEF q
<1>6. CASE d \notin DestinationsOn(destination, d.edge)
  <2>1. d.pos = 0 /\ destination = AtNode(g, g.tail[d.edge])
    BY <1>6, SkippedDestination
  <2>2. o.pos = 0
    BY <1>1, <1>2, <2>1
  <2>3. origin = AtNode(g, g.tail[o.edge])
    BY <1>1, <2>2, AtNodes
  <2>4. PICK c \in destination : c.pos = Parts /\ c \in DestinationsOn(destination, c.edge)
    BY <1>6, SkippedDestination
  <2>5. c \in origin /\ ~Skipped(origin, destination, c)
    BY <2>1, <2>3, <2>4 DEF Skipped
  <2>6. c.pos >= c.pos /\ c.pos - c.pos = 0 /\ c.edge \in DOMAIN g.head
    BY <1>1, <2>4, <2>5, PlaceAlong
  <2>7. PICK i \in DOMAIN labels : ToDest(i) /\ labels[i].cost = PartCost(g, c.edge) * (c.pos - c.pos)
    BY <2>4, <2>5, <2>6, OriginHasLabels
  <2>8. PartCost(g, c.edge) \in Nat
    BY <1>1, <2>6, PartCostType
  <2>9. labels[i].cost = 0
    BY <2>6, <2>7, <2>8
  <2>. HIDE DEF q
  <2>10. labels[i].cost <= q * (d.pos - o.pos)
    BY <1>4, <2>9
  <2>. QED
    BY <2>7, <2>10 DEF q
<1>. QED
  BY <1>5, <1>6

\* From a skipped candidate of the origin the next edge or the destination has a label.
LEMMA SkippedReached ==
  ASSUME RInv, pc # "origin", NEW c \in origin, Skipped(origin, destination, c)
  PROVE  /\ \A f \in Edges : Follows(g, c.edge, f) =>
              \E i \in DOMAIN labels : /\ labels[i].edge = f /\ labels[i].ends = {"origin"}
                                       /\ labels[i].cost = PartCost(g, f) * Parts
         /\ \A d \in destination : Follows(g, c.edge, d.edge) =>
              \E i \in DOMAIN labels : ToDest(i) /\ labels[i].cost = PartCost(g, d.edge) * d.pos
<1>1. /\ g \in Graphs /\ destination \in Locations(g) /\ origin \in Locations(g)
      /\ Parts \in Nat \ {0}
  BY SearchAssumption DEF RInv, IInv, TypeOK, InPlace
<1>2. ASSUME NEW f \in Edges, Follows(g, c.edge, f)
      PROVE  \E i \in DOMAIN labels : /\ labels[i].edge = f /\ labels[i].ends = {"origin"}
                                      /\ labels[i].cost = PartCost(g, f) * Parts
  <2>. DEFINE x == [edge |-> f, pos |-> 0]
  <2>1. x \in origin /\ ~Skipped(origin, destination, x)
    BY <1>2, SkippedOrigin DEF Follows
  <2>2. x.edge = f /\ x.pos = 0 /\ Parts - 0 = Parts
    BY <1>1
  <2>. HIDE DEF x
  <2>3. PICK i \in DOMAIN labels : ToEnd(g, labels[i], x)
    BY <2>1, OriginHasLabels
  <2>. QED
    BY <2>2, <2>3 DEF ToEnd
<1>3. ASSUME NEW d \in destination, Follows(g, c.edge, d.edge)
      PROVE  \E i \in DOMAIN labels : ToDest(i) /\ labels[i].cost = PartCost(g, d.edge) * d.pos
  <2>. DEFINE x == [edge |-> d.edge, pos |-> 0]
  <2>1. x \in origin /\ ~Skipped(origin, destination, x)
    BY <1>3, SkippedOrigin DEF Follows
  <2>2. x.edge = d.edge /\ x.pos = 0 /\ d.pos \in 0 .. Parts
    BY <1>1, PlaceAlong
  <2>. HIDE DEF x
  <2>3. d.pos >= x.pos /\ d.pos - x.pos = d.pos
    BY <1>1, <2>2
  <2>4. d \in DestinationsOn(destination, d.edge)
    <3>. SUFFICES ASSUME d \notin DestinationsOn(destination, d.edge) PROVE FALSE
      OBVIOUS
    <3>1. c.edge \in g.access /\ g.head[c.edge] = g.tail[d.edge]
      BY <1>1, <1>3, PlaceAlong DEF Follows
    <3>2. [edge |-> c.edge, pos |-> Parts] \in DestinationsOn(destination, c.edge)
      BY <3>1, SkippedDestination
    <3>3. c.pos = Parts /\ ~\E y \in DestinationsOn(destination, c.edge) : y.pos = c.pos
      BY DEF Skipped
    <3>. QED
      BY <3>2, <3>3
  <2>5. \E i \in DOMAIN labels :
          ToDest(i) /\ labels[i].cost = PartCost(g, x.edge) * (d.pos - x.pos)
    BY <2>1, <2>2, <2>3, <2>4, OriginHasLabels
  <2>. QED
    BY <2>2, <2>3, <2>5
<1>. QED
  BY <1>2, <1>3

----------------------------------------------------------------------------
\* What is known of a label.
LEMMA LabelFacts ==
  ASSUME RInv, NEW i \in DOMAIN labels
  PROVE  /\ labels[i].cost \in Nat /\ labels[i].sort \in Int /\ labels[i].edge \in Edges
         /\ labels[i].edge \in g.access /\ labels[i].ends \in SUBSET {"origin", "dest"}
         /\ ToDest(i) => labels[i].sort = labels[i].cost
         /\ ~ToDest(i) => labels[i].sort = labels[i].cost + Get(ToDestination(labels[i].edge))
         /\ Get(ToDestination(labels[i].edge)) \in Nat
<1>1. /\ labels \in Seq(Label) /\ LabelsAddUp /\ DistancesKept /\ OnOpenEdges
      /\ g \in Graphs /\ IsLocation(g, destination)
  BY DEF RInv, IInv, TypeOK
<1>2. labels[i] \in Label
  BY <1>1
<1>3. /\ labels[i].cost \in Nat /\ labels[i].sort \in Int /\ labels[i].edge \in Edges
      /\ labels[i].ends \in SUBSET {"origin", "dest"}
  BY <1>2 DEF Label
<1>4. labels[i].sort = labels[i].cost + Get(labels[i].dist)
  BY <1>1 DEF LabelsAddUp
<1>5. labels[i].dist = DistanceOf(labels[i])
  BY <1>1 DEF DistancesKept
<1>6. Get(0) = 0
  BY SearchAssumption DEF Get
<1>7. Get(ToDestination(labels[i].edge)) \in Nat
  BY <1>1, <1>3, ToDestinationType, GetType
<1>8. ToDest(i) => labels[i].sort = labels[i].cost
  BY <1>3, <1>4, <1>5, <1>6 DEF ToDest, DistanceOf
<1>9. ~ToDest(i) => labels[i].sort = labels[i].cost + Get(ToDestination(labels[i].edge))
  BY <1>4, <1>5 DEF ToDest, DistanceOf
<1>10. labels[i].edge \in g.access
  BY <1>1 DEF OnOpenEdges
<1>. QED
  BY <1>3, <1>7, <1>8, <1>9, <1>10

\* The penalty of a turn and the cost of parts of an edge are natural numbers.
LEMMA CostTypes ==
  ASSUME g \in Graphs, NEW e \in Edges, NEW f \in Edges, NEW p \in Nat
  PROVE  g.penalty[e][f] \in Nat /\ PartCost(g, f) \in Nat /\ PartCost(g, f) * p \in Nat
<1>1. g.penalty \in [Edges -> [Edges -> Nat]]
  BY SearchAssumption DEF IsGraph, Edges
<1>2. PartCost(g, f) \in Nat
  BY PartCostType DEF Edges
<1>3. PartCost(g, f) * p \in Nat
  BY <1>2, Product
<1>. QED
  BY <1>1, <1>2, <1>3

\* What a way on from an expanded label costs, against a label of the destination on it.
Onward(a, d) ==
  labels[a].cost + g.penalty[labels[a].edge][d.edge] + PartCost(g, d.edge) * d.pos

\* A destination that a way on from an expanded label leads to has a label that costs no
\* more, in buckets.
LEMMA AlongReached ==
  ASSUME RInv, Clear, CurIsDone, pc # "origin", NEW a \in DOMAIN labels \ queue, ~ToDest(a),
         NEW d \in destination, Follows(g, labels[a].edge, d.edge)
  PROVE  /\ Onward(a, d) \in Nat
         /\ \E j \in DOMAIN labels :
              /\ ToDest(j)
              /\ NeverOverestimates(g) =>
                   labels[j].cost \div BucketSize <= Onward(a, d) \div BucketSize
<1>1. /\ g \in Graphs /\ destination \in Locations(g) /\ Parts \in Nat \ {0} /\ IInv
      /\ StatusIsLabel /\ DestinationsLabelled /\ Banded /\ WaysTaken
  BY SearchAssumption DEF RInv, IInv, TypeOK, InPlace
<1>. DEFINE e == labels[a].edge
            f == d.edge
            q == PartCost(g, f)
            y == g.penalty[e][f]
            c == labels[a].cost
            w == c + y + q * d.pos
<1>2. /\ c \in Nat /\ e \in Edges /\ e \in g.access
      /\ labels[a].ends = {} \/ labels[a].ends = {"origin"}
  BY LabelFacts DEF ToDest
<1>3. f \in Edges /\ d.pos \in 0 .. Parts /\ d.pos \in Nat
  BY <1>1, PlaceAlong DEF Edges
<1>4. y \in Nat /\ q \in Nat /\ q * d.pos \in Nat
  BY <1>1, <1>2, <1>3, CostTypes
<1>5. w \in Nat /\ Onward(a, d) = w
  <2>1. Onward(a, d) = w
    BY DEF Onward
  <2>. HIDE DEF c, y, q
  <2>2. w \in Nat
    BY <1>2, <1>4
  <2>. QED
    BY <2>1, <2>2
<1>. HIDE DEF w
<1>6. CASE d \notin DestinationsOn(destination, d.edge)
  <2>. DEFINE x == [edge |-> e, pos |-> Parts]
  <2>1. x \in DestinationsOn(destination, e) /\ d.pos = 0
    <3>1. g.head[e] = g.tail[d.edge]
      BY DEF Follows
    <3>. QED
      BY <1>2, <1>6, <3>1, SkippedDestination
  <2>2. x.edge = e /\ x.pos = Parts /\ Parts - x.pos = 0
    BY <1>1
  <2>. HIDE DEF x
  <2>3. PartCost(g, e) \in Nat
    BY <1>1, <1>2, PartCostType DEF Edges
  <2>4. \E j \in DOMAIN labels : ToDest(j) /\ labels[j].cost <= c
    <3>1. CASE labels[a].ends = {}
      <4>1. status[e].set # "unreached" /\ status[e].idx = a
        BY <1>1, <3>1 DEF StatusIsLabel
      <4>2. Reaches(g, labels, x, c)
        BY <1>1, <1>2, <2>1, <4>1 DEF DestinationsLabelled
      <4>3. PICK j \in DOMAIN labels :
                   /\ "dest" \in labels[j].ends
                   /\ labels[j].cost + PartCost(g, x.edge) * (Parts - x.pos) <= c
        BY <4>2 DEF Reaches
      <4>4. labels[j].cost \in Nat
        BY LabelFacts
      <4>5. PartCost(g, x.edge) * (Parts - x.pos) = 0
        BY <2>2, <2>3
      <4>6. labels[j].cost <= c
        <5>. HIDE DEF c
        <5>. QED
          BY <4>3, <4>4, <4>5
      <4>. QED
        BY <4>3, <4>6 DEF ToDest
    <3>2. CASE labels[a].ends = {"origin"}
      <4>1. PICK o \in origin : ~Skipped(origin, destination, o) /\ ToEnd(g, labels[a], o)
        BY <3>2 DEF RInv, OriginsLabelled
      <4>2. o.edge = e /\ c = PartCost(g, e) * (Parts - o.pos)
        BY <4>1 DEF ToEnd
      <4>3. o.pos \in 0 .. Parts
        BY <4>1, PlaceAlong DEF RInv, IInv, TypeOK, InPlace
      <4>4. x.pos >= o.pos
        BY <1>1, <2>2, <4>3
      <4>5. PICK j \in DOMAIN labels :
                   ToDest(j) /\ labels[j].cost = PartCost(g, o.edge) * (x.pos - o.pos)
        BY <2>1, <4>1, <4>2, <4>4, OriginHasLabels
      <4>6. labels[j].cost = c
        BY <2>2, <4>2, <4>5
      <4>. QED
        BY <1>2, <4>5, <4>6
    <3>. QED
      BY <1>2, <3>1, <3>2
  <2>5. PICK j \in DOMAIN labels : ToDest(j) /\ labels[j].cost <= c
    BY <2>4
  <2>6. labels[j].cost <= w /\ labels[j].cost \in Nat
    <3>1. labels[j].cost \in Nat
      BY LabelFacts
    <3>. HIDE DEF c, y, q
    <3>. QED
      BY <1>2, <1>4, <2>5, <3>1 DEF w
  <2>7. labels[j].cost \div BucketSize <= w \div BucketSize
    <3>1. labels[j].cost \in Int /\ w \in Int
      BY <1>5, <2>6
    <3>. QED
      BY <2>6, <3>1, Buckets
  <2>. QED
    BY <1>5, <2>5, <2>7
<1>7. CASE d \in DestinationsOn(destination, d.edge)
  <2>. DEFINE b == status[f].idx
  <2>1. Taken(g, labels, status, queue, a, f)
    BY <1>1, <1>3 DEF WaysTaken, ToDest
  <2>2. /\ status[f].set # "unreached" /\ b \in DOMAIN labels
        /\ labels[b].edge = f /\ labels[b].ends = {}
    BY <1>1, <1>3, <2>1 DEF Taken, StatusIsLabel, IInv, TypeOK
  <2>3. Reaches(g, labels, d, labels[b].cost)
    BY <1>1, <1>3, <1>7, <2>2 DEF DestinationsLabelled
  <2>4. PICK j \in DOMAIN labels :
               ToDest(j) /\ labels[j].cost + q * (Parts - d.pos) <= labels[b].cost
    BY <2>3 DEF Reaches, ToDest
  <2>5. /\ labels[j].cost \in Nat /\ labels[b].cost \in Nat /\ labels[b].sort \in Int
        /\ labels[b].cost <= labels[b].sort
    <3>1. labels[j].cost \in Nat
      BY LabelFacts
    <3>2. /\ labels[b].cost \in Nat /\ labels[b].sort \in Int
          /\ ~ToDest(b) => labels[b].sort = labels[b].cost + Get(ToDestination(labels[b].edge))
          /\ Get(ToDestination(labels[b].edge)) \in Nat
      BY <2>2, LabelFacts
    <3>3. ~ToDest(b)
      BY <2>2 DEF ToDest
    <3>. HIDE DEF b
    <3>. QED
      BY <3>1, <3>2, <3>3
  <2>6. /\ q * (Parts - d.pos) \in Nat /\ q * Parts \in Nat
        /\ c + y + q * d.pos + q * (Parts - d.pos) = c + y + q * Parts
    <3>1. c + y \in Nat
      BY <1>2, <1>4
    <3>. DEFINE z == c + y
    <3>2. /\ q * (Parts - d.pos) \in Nat /\ q * Parts \in Nat
          /\ z + q * d.pos + q * (Parts - d.pos) = z + q * Parts
      <4>. HIDE DEF z, q
      <4>. QED
        BY <1>3, <1>4, <3>1, CostSplits DEF z
    <3>. QED
      BY <3>2
  <2>7. ASSUME NeverOverestimates(g)
        PROVE  labels[j].cost \div BucketSize <= w \div BucketSize
    <3>1. \/ labels[b].cost <= c + y + q * Parts
          \/ b \notin queue /\ BandOf(labels[b]) <= BandOf(labels[a])
      BY <2>1, <2>7 DEF Taken
    <3>2. CASE labels[b].cost <= c + y + q * Parts
      <4>1. labels[j].cost <= w
        <5>. HIDE DEF b, c, y, q
        <5>. QED
          BY <1>2, <1>4, <2>4, <2>5, <2>6, <3>2 DEF w
      <4>2. labels[j].cost \in Int /\ w \in Int
        BY <1>5, <2>5
      <4>. QED
        BY <4>1, <4>2, Buckets
    <3>3. CASE BandOf(labels[b]) <= BandOf(labels[a])
      <4>1. labels[j].cost <= labels[b].sort
        <5>. HIDE DEF b, c, y, q
        <5>. QED
          BY <2>4, <2>5, <2>6
      <4>2. labels[j].cost \div BucketSize <= labels[b].sort \div BucketSize
        <5>1. labels[j].cost \in Int /\ labels[b].sort \in Int
          BY <2>5
        <5>. QED
          BY <4>1, <5>1, Buckets
      <4>3. labels[a].sort <= w
        <5>. DEFINE h == Get(ToDestination(e))
        <5>1. labels[a].sort = c + h /\ h \in Nat
          BY LabelFacts
        <5>2. h <= q * d.pos
          <6>1. Get(Distance(g.x[g.tail[d.edge]], Place(g, destination))) <= PartCost(g, d.edge) * d.pos
            <7>1. Place(g, destination) \in Int
              BY <1>1, PlaceAlong
            <7>. QED
              BY <1>1, <2>7, <7>1, HeuristicSteps
          <6>2. g.head[e] = g.tail[d.edge]
            BY DEF Follows
          <6>. QED
            BY <6>1, <6>2 DEF ToDestination
        <5>. HIDE DEF h, c, y, q
        <5>. QED
          BY <1>2, <1>4, <5>1, <5>2 DEF w
      <4>4. labels[a].sort \div BucketSize <= w \div BucketSize
        <5>1. labels[a].sort \in Int /\ w \in Int
          BY <1>5, LabelFacts
        <5>. QED
          BY <4>3, <5>1, Buckets
      <4>5. /\ labels[j].cost \div BucketSize \in Int /\ labels[b].sort \div BucketSize \in Int
            /\ labels[a].sort \div BucketSize \in Int /\ w \div BucketSize \in Int
        <5>1. labels[j].cost \in Int /\ labels[b].sort \in Int /\ labels[a].sort \in Int /\ w \in Int
          BY <1>5, <2>5, LabelFacts
        <5>. QED
          BY <5>1, Buckets
      <4>6. labels[b].sort \div BucketSize <= labels[a].sort \div BucketSize
        BY <3>3 DEF BandOf
      <4>. DEFINE s1 == labels[j].cost \div BucketSize
                  s2 == labels[b].sort \div BucketSize
                  s3 == labels[a].sort \div BucketSize
                  s4 == w \div BucketSize
      <4>7. s1 \in Int /\ s2 \in Int /\ s3 \in Int /\ s4 \in Int /\ s1 <= s2 /\ s2 <= s3 /\ s3 <= s4
        BY <4>2, <4>4, <4>5, <4>6
      <4>8. s1 <= s4
        <5>. HIDE DEF s1, s2, s3, s4
        <5>. QED
          BY <4>7
      <4>. QED
        BY <4>8
    <3>. QED
      BY <3>1, <3>2, <3>3
  <2>. QED
    BY <1>5, <2>4, <2>7
<1>. QED
  BY <1>6, <1>7

----------------------------------------------------------------------------
\* A search that fails without giving up has expanded an edge for every route, up to the
\* destination.
LEMMA FailedFindsNone ==
  ASSUME RInv, Clear, pc = "failed", nc <= MaxNoConvergence
  PROVE  Cheapest(g, origin, destination) >= Unreachable
<1>1. /\ g \in Graphs /\ destination \in Locations(g) /\ origin \in Locations(g)
      /\ IsLocation(g, origin) /\ IsLocation(g, destination)
      /\ StatusIsLabel /\ WaysTaken /\ IInv /\ CurIsDone /\ pc # "origin" /\ pc # "arrived"
      /\ Slack \in Nat /\ Parts \in Nat /\ Unreachable \in Nat
  BY SearchAssumption DEF RInv, IInv, TypeOK, InPlace, CurIsDone, Slack
<1>2. \A i \in DOMAIN labels : i \notin queue /\ ~ToDest(i)
  BY <1>1 DEF RInv, Ended, DestinationsWait
<1>. DEFINE Q == {x \in [edge : DOMAIN g.head, cost : Nat] :
                    \/ x.cost >= Unreachable
                    \/ \E a \in DOMAIN labels : labels[a].edge = x.edge
                    \/ \E c \in origin : Skipped(origin, destination, c) /\ c.edge = x.edge}
<1>3. \A e \in DOMAIN g.head : \A c \in Nat : c >= Unreachable => [edge |-> e, cost |-> c] \in Q
  OBVIOUS
<1>4. ASSUME NEW o \in origin
      PROVE  [edge |-> o.edge, cost |-> PartCost(g, o.edge) * (Parts - o.pos) + Slack] \in Q
  <2>1. o.edge \in DOMAIN g.head /\ Parts - o.pos \in Nat
    BY <1>1, PlaceAlong
  <2>2. PartCost(g, o.edge) * (Parts - o.pos) \in Nat
    BY <1>1, <2>1, PartCostType, Product
  <2>. DEFINE z == PartCost(g, o.edge) * (Parts - o.pos) + Slack
  <2>3. z \in Nat
    BY <1>1, <2>2
  <2>. HIDE DEF z
  <2>4. [edge |-> o.edge, cost |-> z] \in [edge : DOMAIN g.head, cost : Nat]
    BY <2>1, <2>3
  <2>5. CASE Skipped(origin, destination, o)
    BY <2>4, <2>5 DEF z
  <2>6. CASE ~Skipped(origin, destination, o)
    <3>1. PICK i \in DOMAIN labels : ToEnd(g, labels[i], o)
      BY <1>1, <2>6, OriginHasLabels
    <3>2. labels[i].edge = o.edge
      BY <3>1 DEF ToEnd
    <3>. QED
      BY <2>4, <3>2 DEF z
  <2>. QED
    BY <2>5, <2>6
<1>5. ASSUME NEW r \in Q, NEW f \in DOMAIN g.head, Follows(g, r.edge, f)
      PROVE  [edge |-> f, cost |-> r.cost + g.penalty[r.edge][f] + Parts * PartCost(g, f) + Slack] \in Q
  <2>. DEFINE y == g.penalty[r.edge][f]
              t == Parts * PartCost(g, f)
              z == r.cost + y + t + Slack
  <2>1. r.edge \in Edges /\ r.cost \in Nat /\ y \in Nat /\ t \in Nat
    <3>1. r.edge \in Edges /\ f \in Edges /\ r.cost \in Nat
      BY DEF Edges
    <3>2. y \in Nat /\ PartCost(g, f) \in Nat
      BY <1>1, <3>1, CostTypes
    <3>. QED
      BY <1>1, <3>1, <3>2, Product
  <2>. HIDE DEF y, t
  <2>2. z \in Nat /\ r.cost <= z
    BY <1>1, <2>1
  <2>. HIDE DEF z
  <2>3. [edge |-> f, cost |-> z] \in [edge : DOMAIN g.head, cost : Nat]
    BY <2>2
  <2>4. CASE r.cost >= Unreachable
    <3>1. z >= Unreachable
      BY <1>1, <2>1, <2>2, <2>4
    <3>. QED
      BY <2>3, <3>1 DEF z, y, t
  <2>5. ASSUME NEW a \in DOMAIN labels, labels[a].edge = f
        PROVE  [edge |-> f, cost |-> z] \in Q
    BY <2>3, <2>5
  <2>6. ASSUME NEW a \in DOMAIN labels, labels[a].edge = r.edge
        PROVE  [edge |-> f, cost |-> z] \in Q
    <3>1. Taken(g, labels, status, queue, a, f)
      BY <1>1, <1>2, <1>5, <2>6 DEF WaysTaken, ToDest, Edges
    <3>2. status[f].set # "unreached" /\ status[f].idx \in DOMAIN labels /\ labels[status[f].idx].edge = f
      BY <1>1, <3>1 DEF Taken, StatusIsLabel, IInv, TypeOK, Edges
    <3>. QED
      BY <2>5, <3>2
  <2>7. ASSUME NEW c \in origin, Skipped(origin, destination, c), c.edge = r.edge
        PROVE  [edge |-> f, cost |-> z] \in Q
    <3>1. PICK i \in DOMAIN labels : labels[i].edge = f
      BY <1>1, <1>5, <2>7, SkippedReached DEF Edges
    <3>. QED
      BY <2>5, <3>1
  <2>. QED
    BY <2>4, <2>6, <2>7 DEF z, y, t
<1>6. RouteEnds(g, origin) \subseteq Q
  <2>1. Q \in SUBSET [edge : DOMAIN g.head, cost : Nat]
    OBVIOUS
  <2>. HIDE DEF Q
  <2>. QED
    BY <1>1, <1>3, <1>4, <1>5, <2>1, RouteEndsWithin
<1>. DEFINE least == Cheapest(g, origin, destination)
<1>7. least \in Nat
  BY <1>1, CheapestIsARoute
<1>8. ASSUME NEW o \in origin, NEW d \in destination, o.edge = d.edge, o.pos <= d.pos
      PROVE  FALSE
  BY <1>1, <1>2, <1>8, DirectReached
<1>9. ASSUME NEW r \in RouteEnds(g, origin), NEW d \in destination, Follows(g, r.edge, d.edge),
             least = r.cost + g.penalty[r.edge][d.edge] + PartCost(g, d.edge) * d.pos + Slack
      PROVE  least >= Unreachable
  <2>1. r \in Q
    BY <1>6
  <2>2. CASE r.cost >= Unreachable
    <3>. DEFINE y == g.penalty[r.edge][d.edge]
                t == PartCost(g, d.edge) * d.pos
    <3>1. r.edge \in Edges /\ d.edge \in Edges /\ d.pos \in Nat /\ r.cost \in Nat
      BY <1>1, <2>1, PlaceAlong DEF Edges
    <3>2. y \in Nat /\ t \in Nat
      BY <1>1, <3>1, CostTypes
    <3>. HIDE DEF y, t
    <3>3. r.cost + y + t + Slack >= Unreachable
      BY <1>1, <2>2, <3>1, <3>2
    <3>. QED
      BY <1>9, <3>3 DEF y, t
  <2>3. ASSUME NEW a \in DOMAIN labels, labels[a].edge = r.edge PROVE FALSE
    <3>1. a \in DOMAIN labels \ queue /\ ~ToDest(a)
      BY <1>2
    <3>2. \E j \in DOMAIN labels : ToDest(j)
      BY <1>1, <1>9, <2>3, <3>1, AlongReached
    <3>. QED
      BY <1>2, <3>2
  <2>4. ASSUME NEW c \in origin, Skipped(origin, destination, c), c.edge = r.edge PROVE FALSE
    BY <1>1, <1>2, <1>9, <2>4, SkippedReached
  <2>. QED
    BY <2>1, <2>2, <2>3, <2>4
<1>. HIDE DEF least
<1>10. \/ least = Unreachable
       \/ \E o \in origin, d \in destination : o.edge = d.edge /\ o.pos <= d.pos
       \/ \E r \in RouteEnds(g, origin), d \in destination :
            /\ Follows(g, r.edge, d.edge)
            /\ least = r.cost + g.penalty[r.edge][d.edge] + PartCost(g, d.edge) * d.pos + Slack
  BY <1>1, CheapestIsARoute DEF least
<1>11. least >= Unreachable
  BY <1>1, <1>7, <1>8, <1>9, <1>10
<1>. QED
  BY <1>11 DEF least

\* If Allowed admits edges at all, a search that returns no path without giving up has found
\* that there is no route, in every network without restrictions and between all locations:
\* neither the edges that are permanent, nor skipped candidates, nor u-turns left to dead
\* ends lose one.
THEOREM NoRouteIsMissed == ASSUME MaxDistance # 0 PROVE Spec => []NoRouteMissed
<1>1. RInv => NoRouteMissed
  BY FailedFindsNone DEF NoRouteMissed, Clear
<1>. QED
  BY <1>1, InitRInv, NextRInv, PTL DEF Spec

----------------------------------------------------------------------------
\* The label that arrived costs no more than labels of the queue, and other labels of the
\* destination, may lead to, but for what a bucket leaves open.
LEMMA ArrivedFirst ==
  ASSUME RInv, Clear, NeverOverestimates(g), pc = "arrived"
  PROVE  /\ result \in DOMAIN labels /\ labels[result].cost \in Nat
         /\ \A l \in queue \cup {result} :
              /\ l \in DOMAIN labels
              /\ labels[result].cost \div BucketSize <= labels[l].sort \div BucketSize
              /\ labels[result].cost <= labels[l].sort + Slack
         /\ \A j \in DOMAIN labels : ToDest(j) =>
              labels[result].cost \div BucketSize <= labels[j].cost \div BucketSize
<1>1. /\ result \in DOMAIN labels \ queue /\ ToDest(result) /\ Banded /\ DestinationsWait
      /\ queue \subseteq DOMAIN labels /\ cursor \in Int
  BY DEF RInv, Ended, IInv, TypeOK
<1>2. /\ labels[result].cost \in Nat /\ labels[result].sort = labels[result].cost
  BY <1>1, LabelFacts
<1>3. \A l \in DOMAIN labels : labels[l].sort \in Int /\ labels[l].sort \div BucketSize \in Int
  <2>1. \A l \in DOMAIN labels : labels[l].sort \in Int
    BY LabelFacts
  <2>. QED
    BY <2>1, Buckets
<1>4. ASSUME NEW l \in queue \cup {result}
      PROVE  /\ l \in DOMAIN labels
             /\ labels[result].sort \div BucketSize <= labels[l].sort \div BucketSize
  <2>1. l \in DOMAIN labels
    BY <1>1
  <2>2. CASE l = result
    BY <1>1, <1>3, <2>2
  <2>3. CASE l \in queue
    <3>1. labels[result].sort \div BucketSize <= cursor /\ cursor <= labels[l].sort \div BucketSize
      BY <1>1, <2>3 DEF Banded, BandOf
    <3>. QED
      BY <1>1, <1>3, <2>1, <3>1
  <2>. QED
    BY <2>1, <2>2, <2>3
<1>5. ASSUME NEW l \in queue \cup {result}
      PROVE  labels[result].sort <= labels[l].sort + Slack
  <2>1. labels[result].sort \in Int /\ labels[l].sort \in Int
    BY <1>1, <1>3, <1>4
  <2>. QED
    BY <1>4, <2>1, Buckets
<1>6. ASSUME NEW j \in DOMAIN labels, ToDest(j)
      PROVE  labels[result].sort \div BucketSize <= labels[j].cost \div BucketSize
  <2>1. j \in queue \cup {result}
    BY <1>1, <1>6 DEF DestinationsWait
  <2>2. labels[j].sort = labels[j].cost
    BY <1>6, LabelFacts
  <2>. QED
    BY <1>4, <2>1, <2>2
<1>. QED
  BY <1>1, <1>2, <1>4, <1>5, <1>6

\* What a search that has arrived knows of the end of a route: it was expanded at no more
\* cost, or the arrived label and those still queued do not sort after what the route leads to.
Searched(x) ==
  \/ x.cost >= Unreachable
  \/ \E a \in DOMAIN labels \ queue :
       ~ToDest(a) /\ labels[a].edge = x.edge /\ labels[a].cost <= x.cost
  \/ \E l \in queue \cup {result} :
       labels[l].sort + Slack <= x.cost + Get(ToDestination(x.edge))
  \/ \E c \in origin : Skipped(origin, destination, c) /\ c.edge = x.edge

\* A label to the end of an edge shows it for all dearer ends of routes on that edge.
LEMMA LabelSearched ==
  ASSUME RInv, pc = "arrived", NEW i \in DOMAIN labels, ~ToDest(i), NEW x, x.edge = labels[i].edge,
         x.cost \in Nat, labels[i].cost + Slack <= x.cost
  PROVE  Searched(x)
<1>1. /\ labels[i].cost \in Nat /\ labels[i].edge \in Edges
      /\ labels[i].sort = labels[i].cost + Get(ToDestination(labels[i].edge))
      /\ Get(ToDestination(labels[i].edge)) \in Nat /\ Slack \in Nat
  BY LabelFacts, SearchAssumption DEF Slack
<1>2. CASE i \notin queue
  <2>1. labels[i].cost <= x.cost
    BY <1>1
  <2>. QED
    BY <1>2, <2>1 DEF Searched
<1>3. CASE i \in queue
  <2>. DEFINE h == Get(ToDestination(labels[i].edge))
  <2>1. h \in Nat /\ labels[i].sort = labels[i].cost + h
    BY <1>1
  <2>. HIDE DEF h
  <2>2. labels[i].sort + Slack <= x.cost + h
    BY <1>1, <2>1
  <2>. QED
    BY <1>3, <2>2 DEF Searched, h
<1>. QED
  BY <1>2, <1>3

\* The ends of all cheapest routes are known so.
LEMMA RoutesSearched ==
  ASSUME RInv, Clear, NeverOverestimates(g), pc = "arrived"
  PROVE  \A r \in RouteEnds(g, origin) :
           r \in [edge : DOMAIN g.head, cost : Nat] /\ Searched(r)
<1>1. /\ g \in Graphs /\ destination \in Locations(g) /\ origin \in Locations(g)
      /\ IsLocation(g, origin) /\ IsLocation(g, destination)
      /\ StatusIsLabel /\ WaysTaken /\ IInv /\ CurIsDone /\ pc # "origin"
      /\ Slack \in Nat /\ Parts \in Nat /\ Unreachable \in Nat
  BY SearchAssumption DEF RInv, IInv, TypeOK, InPlace, CurIsDone, Slack
<1>. DEFINE R == [edge : DOMAIN g.head, cost : Nat]
            Q == {x \in R : Searched(x)}
<1>2. \A e \in DOMAIN g.head : \A c \in Nat : c >= Unreachable => [edge |-> e, cost |-> c] \in Q
  BY DEF Searched
<1>3. ASSUME NEW o \in origin
      PROVE  [edge |-> o.edge, cost |-> PartCost(g, o.edge) * (Parts - o.pos) + Slack] \in Q
  <2>1. o.edge \in DOMAIN g.head /\ Parts - o.pos \in Nat
    BY <1>1, PlaceAlong
  <2>. DEFINE q == PartCost(g, o.edge) * (Parts - o.pos)
              x == [edge |-> o.edge, cost |-> q + Slack]
  <2>2. q \in Nat
    BY <1>1, <2>1, PartCostType, Product
  <2>. HIDE DEF q
  <2>3. x \in R /\ x.edge = o.edge /\ x.cost = q + Slack
    BY <1>1, <2>1, <2>2
  <2>. HIDE DEF x
  <2>4. CASE Skipped(origin, destination, o)
    <3>1. Searched(x)
      BY <2>3, <2>4 DEF Searched
    <3>. QED
      BY <2>3, <3>1 DEF x, q
  <2>5. CASE ~Skipped(origin, destination, o)
    <3>1. PICK i \in DOMAIN labels : ToEnd(g, labels[i], o)
      BY <1>1, <2>5, OriginHasLabels
    <3>2. labels[i].edge = o.edge /\ labels[i].cost = q /\ ~ToDest(i)
      BY <3>1 DEF ToEnd, ToDest, q
    <3>3. Searched(x)
      <4>1. labels[i].cost + Slack <= x.cost /\ x.cost \in Nat
        BY <1>1, <2>2, <2>3, <3>2
      <4>. QED
        BY <2>3, <3>2, <4>1, LabelSearched
    <3>. QED
      BY <2>3, <3>3 DEF x, q
  <2>. QED
    BY <2>4, <2>5
<1>4. ASSUME NEW r \in Q, NEW f \in DOMAIN g.head, Follows(g, r.edge, f)
      PROVE  [edge |-> f, cost |-> r.cost + g.penalty[r.edge][f] + Parts * PartCost(g, f) + Slack] \in Q
  <2>. DEFINE y == g.penalty[r.edge][f]
              t == Parts * PartCost(g, f)
              z == r.cost + y + t + Slack
              x == [edge |-> f, cost |-> z]
              h == Get(ToDestination(r.edge))
              hf == Get(ToDestination(f))
  <2>1. /\ r.edge \in Edges /\ f \in Edges /\ r.cost \in Nat /\ y \in Nat /\ t \in Nat
        /\ PartCost(g, f) * Parts = t /\ Searched(r)
    <3>1. r.edge \in Edges /\ f \in Edges /\ r.cost \in Nat /\ Searched(r)
      BY DEF Edges
    <3>2. y \in Nat /\ PartCost(g, f) \in Nat
      BY <1>1, <3>1, CostTypes
    <3>3. t \in Nat
      BY <1>1, <3>2, Product
    <3>4. PartCost(g, f) * Parts = Parts * PartCost(g, f)
      BY <1>1, <3>2
    <3>. QED
      BY <3>1, <3>2, <3>3, <3>4
  <2>2. h \in Nat /\ hf \in Nat /\ h <= t + hf
    <3>1. h \in Nat /\ hf \in Nat
      BY <1>1, <2>1, ToDestinationType, GetType
    <3>2. Place(g, destination) \in Int
      BY <1>1, PlaceType
    <3>3. Get(Distance(g.x[g.tail[f]], Place(g, destination))) <=
            Parts * PartCost(g, f) + Get(Distance(g.x[g.head[f]], Place(g, destination)))
      BY <1>1, <3>2, HeuristicSteps
    <3>4. g.tail[f] = g.head[r.edge]
      BY <1>4 DEF Follows
    <3>. QED
      BY <3>1, <3>3, <3>4 DEF ToDestination
  <2>3. SUFFICES Searched(x)
    <3>. HIDE DEF y, t
    <3>1. z \in Nat
      BY <1>1, <2>1
    <3>2. x \in R
      BY <3>1
    <3>. QED
      BY <2>3, <3>2 DEF y, t
  <2>. HIDE DEF y, t, h, hf
  <2>4. z \in Nat /\ r.cost + y + t + Slack = z
    BY <1>1, <2>1
  <2>. HIDE DEF z
  <2>5. x.edge = f /\ x.cost = z
    OBVIOUS
  <2>. HIDE DEF x
  <2>6. CASE r.cost >= Unreachable
    <3>1. x.cost >= Unreachable
      BY <1>1, <2>1, <2>4, <2>5, <2>6
    <3>. QED
      BY <3>1 DEF Searched
  <2>7. ASSUME NEW l \in queue \cup {result}, labels[l].sort + Slack <= r.cost + Get(ToDestination(r.edge))
        PROVE  Searched(x)
    <3>1. labels[l].sort \in Int
      <4>1. l \in DOMAIN labels
        BY ArrivedFirst
      <4>. QED
        BY <4>1, LabelFacts
    <3>2. labels[l].sort + Slack <= r.cost + h
      BY <2>7 DEF h
    <3>3. labels[l].sort + Slack <= z + hf
      BY <1>1, <2>1, <2>2, <2>4, <3>1, <3>2
    <3>. QED
      BY <2>5, <3>3 DEF Searched, hf
  <2>8. ASSUME NEW c \in origin, Skipped(origin, destination, c), c.edge = r.edge
        PROVE  Searched(x)
    <3>1. PICK i \in DOMAIN labels : /\ labels[i].edge = f /\ labels[i].ends = {"origin"}
                                     /\ labels[i].cost = PartCost(g, f) * Parts
      BY <1>1, <1>4, <2>1, <2>8, SkippedReached
    <3>2. ~ToDest(i) /\ labels[i].cost = t
      BY <2>1, <3>1 DEF ToDest
    <3>3. labels[i].cost + Slack <= x.cost /\ x.cost \in Nat
      BY <1>1, <2>1, <2>4, <2>5, <3>2
    <3>. QED
      BY <2>5, <3>1, <3>2, <3>3, LabelSearched
  <2>9. ASSUME NEW a \in DOMAIN labels \ queue, ~ToDest(a), labels[a].edge = r.edge,
               labels[a].cost <= r.cost
        PROVE  Searched(x)
    <3>. DEFINE b == status[f].idx
    <3>1. Taken(g, labels, status, queue, a, f)
      BY <1>1, <1>4, <2>1, <2>9 DEF WaysTaken, ToDest
    <3>2. b \in DOMAIN labels /\ labels[b].edge = f /\ ~ToDest(b)
      BY <1>1, <2>1, <3>1 DEF Taken, StatusIsLabel, IInv, TypeOK, ToDest
    <3>3. /\ labels[b].cost \in Nat /\ labels[b].sort \in Int /\ labels[b].sort = labels[b].cost + hf
      BY <3>2, LabelFacts DEF hf
    <3>4. /\ labels[a].cost \in Nat /\ labels[a].sort \in Int /\ labels[a].sort = labels[a].cost + h
      BY <2>9, LabelFacts DEF h
    <3>5. \/ labels[b].cost <= labels[a].cost + y + t
          \/ b \notin queue /\ BandOf(labels[b]) <= BandOf(labels[a])
      BY <2>1, <2>9, <3>1 DEF Taken, y
    <3>. HIDE DEF b
    <3>6. CASE labels[b].cost <= labels[a].cost + y + t
      <4>1. labels[b].cost + Slack <= x.cost /\ x.cost \in Nat
        BY <1>1, <2>1, <2>4, <2>5, <2>9, <3>3, <3>4, <3>6
      <4>. QED
        BY <2>5, <3>2, <4>1, LabelSearched
    <3>7. CASE b \notin queue /\ BandOf(labels[b]) <= BandOf(labels[a])
      <4>1. labels[b].sort <= labels[a].sort + Slack
        BY <3>3, <3>4, <3>7, Buckets DEF BandOf
      <4>2. labels[b].cost <= x.cost
        BY <1>1, <2>1, <2>2, <2>4, <2>5, <2>9, <3>3, <3>4, <4>1
      <4>. QED
        BY <2>5, <3>2, <3>7, <4>2 DEF Searched
    <3>. QED
      BY <3>5, <3>6, <3>7
  <2>. QED
    BY <2>1, <2>6, <2>7, <2>8, <2>9 DEF Searched
<1>5. Q \in SUBSET [edge : DOMAIN g.head, cost : Nat]
  OBVIOUS
<1>6. RouteEnds(g, origin) \subseteq Q
  <2>. HIDE DEF Q
  <2>. QED
    BY <1>1, <1>2, <1>3, <1>4, <1>5, RouteEndsWithin
<1>. QED
  BY <1>6

----------------------------------------------------------------------------
\* Each way the cheapest route may end leads to a label that did not sort before the result.
LEMMA ArrivedIsOptimal ==
  ASSUME RInv, Clear, NeverOverestimates(g), pc = "arrived"
  PROVE  Optimal
<1>1. /\ g \in Graphs /\ destination \in Locations(g) /\ origin \in Locations(g)
      /\ IsLocation(g, origin) /\ IsLocation(g, destination)
      /\ CurIsDone /\ pc # "origin"
      /\ Slack \in Nat /\ Parts \in Nat /\ Unreachable \in Nat
  BY SearchAssumption DEF RInv, IInv, TypeOK, InPlace, CurIsDone, Slack
<1>. DEFINE least == Cheapest(g, origin, destination)
            c == labels[result].cost
<1>2. c \in Nat
  BY ArrivedFirst
<1>3. ASSUME NEW j \in DOMAIN labels, ToDest(j), NEW w \in Nat,
             labels[j].cost \div BucketSize <= w \div BucketSize
      PROVE  c <= w + Slack
  <2>1. c \in Int /\ w \in Int /\ labels[j].cost \in Int
    BY <1>2, LabelFacts
  <2>2. c \div BucketSize <= labels[j].cost \div BucketSize
    BY <1>3, ArrivedFirst
  <2>. HIDE DEF c
  <2>3. /\ c \div BucketSize \in Int /\ labels[j].cost \div BucketSize \in Int
        /\ w \div BucketSize \in Int
    BY <2>1, Buckets
  <2>4. c \div BucketSize <= w \div BucketSize
    BY <1>3, <2>2, <2>3
  <2>. QED
    BY <2>1, <2>4, Buckets
<1>4. ASSUME NEW j \in DOMAIN labels, ToDest(j), NEW w \in Nat, labels[j].cost <= w
      PROVE  c <= w + Slack
  <2>1. labels[j].cost \in Int /\ w \in Int
    BY LabelFacts
  <2>2. labels[j].cost \div BucketSize <= w \div BucketSize
    BY <1>4, <2>1, Buckets
  <2>. QED
    BY <1>3, <1>4, <2>2
<1>5. ASSUME NEW o \in origin, NEW d \in destination, o.edge = d.edge, o.pos <= d.pos,
             least = PartCost(g, o.edge) * (d.pos - o.pos) + Slack
      PROVE  c <= least
  <2>. DEFINE w == PartCost(g, o.edge) * (d.pos - o.pos)
  <2>1. w \in Nat
    <3>1. o.edge \in DOMAIN g.head /\ o.pos \in 0 .. Parts /\ d.pos \in 0 .. Parts
      BY <1>1, PlaceAlong
    <3>2. d.pos - o.pos \in Nat
      BY <1>1, <1>5, <3>1
    <3>. QED
      BY <1>1, <3>1, <3>2, PartCostType, Product
  <2>2. PICK j \in DOMAIN labels : ToDest(j) /\ labels[j].cost <= w
    BY <1>1, <1>5, DirectReached
  <2>. HIDE DEF w, c
  <2>3. c <= w + Slack
    BY <1>4, <2>1, <2>2
  <2>. QED
    BY <1>5, <2>3 DEF w
<1>6. ASSUME NEW r \in RouteEnds(g, origin), NEW d \in destination, Follows(g, r.edge, d.edge),
             least = r.cost + g.penalty[r.edge][d.edge] + PartCost(g, d.edge) * d.pos + Slack,
             least < Unreachable
      PROVE  c <= least
  <2>. DEFINE y == g.penalty[r.edge][d.edge]
              t == PartCost(g, d.edge) * d.pos
  <2>1. Searched(r) /\ r.edge \in Edges /\ r.cost \in Nat
    BY RoutesSearched DEF Edges
  <2>2. y \in Nat /\ t \in Nat /\ d.edge \in Edges
    <3>1. d.edge \in Edges /\ d.pos \in Nat
      BY <1>1, PlaceAlong DEF Edges
    <3>. QED
      BY <1>1, <2>1, <3>1, CostTypes
  <2>3. least = r.cost + y + t + Slack
    BY <1>6
  <2>4. ~(r.cost >= Unreachable)
    <3>. HIDE DEF least, y, t
    <3>. QED
      BY <1>1, <1>6, <2>1, <2>2, <2>3
  <2>5. ASSUME NEW a \in DOMAIN labels \ queue, ~ToDest(a), labels[a].edge = r.edge,
               labels[a].cost <= r.cost
        PROVE  c <= least
    <3>. DEFINE w == Onward(a, d)
    <3>1. w \in Nat /\ w = labels[a].cost + y + t
      BY <1>1, <1>6, <2>5, AlongReached DEF Onward
    <3>2. PICK j \in DOMAIN labels : ToDest(j) /\ labels[j].cost \div BucketSize <= w \div BucketSize
      BY <1>1, <1>6, <2>5, AlongReached
    <3>3. labels[a].cost \in Nat
      BY <2>5, LabelFacts
    <3>. HIDE DEF w, c, y, t, least
    <3>4. c <= w + Slack
      BY <1>3, <3>1, <3>2
    <3>. QED
      BY <1>1, <1>2, <2>1, <2>2, <2>3, <2>5, <3>1, <3>3, <3>4
  <2>6. ASSUME NEW l \in queue \cup {result},
               labels[l].sort + Slack <= r.cost + Get(ToDestination(r.edge))
        PROVE  c <= least
    <3>. DEFINE h == Get(ToDestination(r.edge))
    <3>1. c <= labels[l].sort + Slack /\ l \in DOMAIN labels
      BY ArrivedFirst
    <3>2. labels[l].sort \in Int
      BY <3>1, LabelFacts
    <3>3. h \in Nat /\ h <= t
      <4>1. h \in Nat
        BY <1>1, <2>1, ToDestinationType, GetType
      <4>2. Place(g, destination) \in Int
        BY <1>1, PlaceType
      <4>3. Get(Distance(g.x[g.tail[d.edge]], Place(g, destination))) <= PartCost(g, d.edge) * d.pos
        BY <1>1, <4>2, HeuristicSteps
      <4>4. g.tail[d.edge] = g.head[r.edge]
        BY <1>6 DEF Follows
      <4>. QED
        BY <4>1, <4>3, <4>4 DEF ToDestination
    <3>4. labels[l].sort + Slack <= r.cost + h
      BY <2>6
    <3>. HIDE DEF h, c, y, t, least
    <3>. QED
      BY <1>1, <1>2, <2>1, <2>2, <2>3, <3>1, <3>2, <3>3, <3>4
  <2>7. ASSUME NEW o \in origin, Skipped(origin, destination, o), o.edge = r.edge
        PROVE  c <= least
    <3>1. PICK j \in DOMAIN labels : ToDest(j) /\ labels[j].cost = t
      BY <1>1, <1>6, <2>7, SkippedReached
    <3>. HIDE DEF c, y, t, least
    <3>2. labels[j].cost <= t
      BY <2>2, <3>1
    <3>3. c <= t + Slack
      BY <1>4, <2>2, <3>1, <3>2
    <3>. QED
      BY <1>1, <1>2, <2>1, <2>2, <2>3, <3>3
  <2>. QED
    BY <2>1, <2>4, <2>5, <2>6, <2>7 DEF Searched
<1>7. /\ least \in Nat
      /\ \/ least = Unreachable
         \/ \E o \in origin, d \in destination :
              /\ o.edge = d.edge /\ o.pos <= d.pos
              /\ least = PartCost(g, o.edge) * (d.pos - o.pos) + Slack
         \/ \E r \in RouteEnds(g, origin), d \in destination :
              /\ Follows(g, r.edge, d.edge)
              /\ least = r.cost + g.penalty[r.edge][d.edge] + PartCost(g, d.edge) * d.pos + Slack
  BY <1>1, CheapestIsARoute
<1>. HIDE DEF least, c
<1>8. ASSUME least < Unreachable PROVE c <= least
  BY <1>1, <1>5, <1>6, <1>7, <1>8
<1>. QED
  BY <1>8 DEF Optimal, least, c

\* The route that a search arrives with is a cheapest one, but for the width of a bucket per
\* edge, in every network without restrictions, between all locations and whatever the
\* candidates, as long as the heuristic underestimates.
THEOREM BestRouteIsFound == ASSUME MaxDistance # 0 PROVE Spec => []BestRoute
<1>1. RInv => BestRoute
  BY ArrivedIsOptimal DEF BestRoute, Clear
<1>. QED
  BY <1>1, InitRInv, NextRInv, PTL DEF Spec
====
