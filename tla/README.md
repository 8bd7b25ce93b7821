# TLA+ verification of shaded-routing

shaded-routing is a fork of the Valhalla routing engine (C++) that adds *environment scores* to
road graphs: tree canopy and other layers of a region are written into the graph tiles, and
pedestrian, bicycle and car costing may prefer edges that have them. This directory holds TLA+
modules that model parts of the engine, TLC configurations that check them on small instances,
and proofs that TLAPS checks for every value of the constants.

`PROJECT.json` lists components, runs, mutants, hazards, findings and theorems, and maps every
definition to the lines it stands for. To repeat a run or a proof:

    tlc -config Search.cfg MCUnidirectionalAStar.tla
    tlapm UnidirectionalAStarProofs.tla

The sections: 1 the system's parts, 2 the modules, 3 the runs, 4 the proofs, 5 what was found,
6 what is not modelled, 7 what could come next.

## 1. Inventory

### How the parts interact

    OSM, transit, elevation ── mjolnir ──> tiles on disk <── AddEnvironment (region layers)
                                             │                add_elevation, landmarks, traffic
                                             v
       incidents, traffic ──> baldr: GraphReader + tile cache + incident cache
                                             │
       request ──> loki (correlate) ──> thor (search; sif costs; baldr queue) ──> odin ──> tyr
                                             └─ meili (map matching), skadi (heights)

       web page (src/web/index.html): form, timers ──> request ──> routes on the map ──> shade scores

Within a process the parts are connected by calls. State is shared between threads in four
places: the tile cache of `GraphReader` when it is global, the tiles themselves (reference
counts), the incident cache with its watcher thread, and the counters that batch jobs share
between their worker threads. Between processes it is shared by files: tiles rewritten in
place, incident tiles and their log. The web page has one thread, but its handlers give way at
every `await`, and nothing orders the answers to its requests.

### Components

| component | state | operations | hard behaviours | what makes it correct |
|---|---|---|---|---|
| **baldr `DoubleBucketQueue`** | low level buckets, overflow bucket, current bucket and cost | reuse, clear, add, decrease, pop | labels below the current cost; rebasing on the overflow; reuse after an aborted search | labels are neither lost nor duplicated, are where `decrease` looks, come out in order of cost |
| **baldr `incident_singleton_t`** | cached tiles, times of the last and current scan, memory mapped log, `initialized` | scan, visit, read, store, purge, notify; constructor's wait | files written during a scan, time stamps in whole seconds, lost wake-up | no update is missed, the cache converges, `get()` answers |
| **baldr `GraphReader` and tile caches** | cache (flat, map, LRU), its byte count, failed downloads | GetGraphTile, Put, Trim, Clear, OverCommitted | two threads load one tile; eviction during an update; two ways of counting bytes | counts are of tiles held, limits kept, the right tile answered |
| **baldr `graph_tile_ptr`** | reference count per tile | copy, drop, clear | counts changed by several threads | a tile lives exactly as long as it is referred to |
| baldr `CurlerPool` | idle connections under a lock | acquire, release | waiting threads, exceptions while a connection is out | nobody waits for ever, no connection is used twice |
| baldr graph elements | immutable records | bit fields, time domains | - | - |
| **mjolnir `GraphTileBuilder`, `ElevationBuilder`** | edge infos by offset, offset map, text list, bins | open, AddTaggedValues, set_elevation, StoreTileData | growth moves everything behind it; padding; capped lists | edges keep their edge info, values can be read back |
| **mjolnir `AddEnvironment`** | tile files, shared counter, failure flag, per-worker builder | claim, check, read, build, open, write, join | threads, exceptions, kills, full disk, reruns | success means all is scored and intact |
| mjolnir landmarks, traffic, statistics | files between passes, sqlite | two passes over tiles in threads | partial results | - |
| mjolnir graph building | files of ways, nodes, edges; tiles | parse, build, enhance, hierarchy, shortcuts, restrictions, validate | size of data | - |
| loki | candidates per location, reach | correlate, reach, actions | geometry; trimming a shared cache between requests | candidates of a location are the same place |
| **thor `UnidirectionalAStar`** | labels, edge status, queue, best connection, counters | SetOrigin, Expand, ExpandInner, update, reset, convergence test | restrictions reset what was expanded; updates change predecessors; dropped candidates; u-turns | cheapest route, found if there is one, restrictions obeyed, ends |
| **thor `BidirectionalAStar`** | labels, status, queue of two trees, best connection, threshold | SetOrigin, SetDestination, pop, SetForward/ReverseConnection, Choose, Expand, FormPath | where trees meet is decided on settled and on queued labels; labels change after they met; restrictions across the meeting edge | as above, and a connection is a route of the cost it has |
| thor Dijkstras, matrices, multimodal | labels and status per mode | expand, settle | time dependence | as above |
| thor optimizer, trip legs, actions | - | annealing, assembling replies | - | - |
| **sif pedestrian costing** | options | Allowed, Restricted, EdgeCost, TransitionCost, AStarCostFactor | heuristic and cost must agree | the heuristic underestimates |
| sif other costings | options | the same | canopy discounts against A* factors | the same |
| meili | columns of candidates, Viterbi queue | match, interpolate | breaks in the trace | best sequence of candidates |
| odin, tyr, midgard, skadi | none or read-only | text, formats, geometry, heights | - | - |
| service | worker pipeline of prime_server | loki, thor, odin stages | protocol is outside the repository | - |
| loop routes (`scripts/loop_route_*.py`) | attempts, radius, best so far | try via points, scale | loop must end with the best found | - |
| **web page** (requests, routes, shade scores) | form, timers, requests under way, routes drawn and held, selection, generation, scorings | generateRoutes, fetch, retry, displayRoutes, annotateRoutesWithShade, refresh, clear, select | answers and scores that come late, overlapping requests, failures | one answer on the map, late scores do not select, the button comes back |
| bindings, tools, regions, the rest of the page | - | wrappers, UI, data | - | - |

Components in bold are modelled, some of them in part (section 6). The hazards, each at its line and with the properties that
guard it, are in `PROJECT.json`; those without a property carry a note.

## 2. Modules

| module | models | state and actions |
|---|---|---|
| `LabelQueue` | what a search relies on in its adjacency list | abstract: a set of labels. `Clear`, `Reuse`, `Relax` (add, decrease), `Pop` of a label that is cheapest up to a bucket's width, `PopNothing` |
| `DoubleBucketQueue` | `valhalla/baldr/double_bucket_queue.h` | `bucket`, `current`, `currentcost`, `mincost`, `maxcost` are the fields of the class; `sortcost` is the caller's label container. `Reuse`, `Clear`, `Add`, `Decrease`, `PopLow`, `PopExhausted`, `PopOverflow` |
| `IncidentWatcher` | `src/baldr/incident_singleton.h` | Watcher: `BeginScan`, `Visit`, `ReadTile`, `UpdateTile`, `EndScan`, `SetInitialized`, `Notify`; constructor: `CtorCheck`, `CtorBlock`, `CtorTimeout`; the program that writes tiles: `BeginWrite`, `EndWrite`, `LogChange`, `Remove` |
| `GraphTileBuilder` | `graphtilebuilder.cc`, `edgeinfobuilder.cc`, `elevationbuilder.cc` | `disk` and `builder` are a tile file and the object read from it: `Deserialize`, `AddTaggedValues`, `AddElevations`, `StoreTileData` |
| `EnvironmentJob` | `environment.cc`, `EdgeInfo::environment` | workers: `Claim`, `Check`, `Read`, `Build`, `Open`, `Write` and their failures; the job: `Begin`, `Kill`, `Join` |
| `TileCache` | `GraphReader::GetGraphTile` and four caches | per thread: `Call`, `Get`, `Load`, `Look`, `Fetch`, `Note`, `Put`, `Cleanup`, `Trim`, `ClearCache`; other jobs replace files: `Replace` |
| `TileRefCount` | `graph_tile_ptr` under `SynchronizedTileCache` | reads and writes of a count are steps of their own: `Put`, `GetBegin`/`GetEnd`, `ReleaseBegin`/`ReleaseEnd`, `ClearBegin`/`ClearEnd` |
| `RoadNetwork` | what both searches search | road networks, the candidates of locations, `PartCost`, the heuristic; the reference `Cheapest`. No variables |
| `UnidirectionalAStar` | `unidirectional_astar.cc` (forward), `pedestriancost.cc`, `dynamiccost.h` | `labels` is `edgelabels_`, `status` `edgestatus_`, `queue`/`cursor` `adjacencylist_`. `SetOrigin`, `Begin`, then per iteration `Arrive`, `PopCloser`, `PopOther`, `GiveUp` or `Fail`, then an edge at a time `ExpandEdge`, `SkipBack`, `UTurn`, `ExpandBlocked`, `EndExpand` |
| `BidirectionalAStar` | `bidirectional_astar.cc` | the variables of the search, as functions of the direction; `best` is the front of `best_connections_`. `SetOrigin`, `SetDestination`, then `Exhausted`, `Stop`, `Connect` or `PopOther` for a direction that pops, `Choose`, and the expansion an edge at a time; `FormPath` reads the labels when the search has ended |
| `RoutePage` | `src/web/index.html` | an action is the code between two awaits: `PressButton`, `EnterOrSelect`, `TimerFires`, `MoveSlider`, `resetCostingParameters`, `ClearMap`, `FetchEnds` (retry, further attempt of a loop, answer, failure), `LoadTrees`, `ScoringEnds`, `Refresh`, `Click` |

Each `MC...` module gives small instances, each `...Proofs` module theorems. Operators named as
*faulty variants* in a comment (for example `SettledOrigin`) are not part of a model: a mutant
puts one in the place of the definition after it, and the named property must then fail.

How the modules fit together:

    UnidirectionalAStar ──uses──┐                        ┌──implements── DoubleBucketQueue
                                ├────> LabelQueue <──────┘
    BidirectionalAStar ──twice──┘

    both searches EXTEND RoadNetwork;  EnvironmentJob relies on GraphTileBuilder

`LabelQueue` is the contract between the searches and their adjacency list, and it has two
sides. `DoubleBucketQueue` implements it (`ImplementsLabelQueue`, an `INSTANCE ... WITH` whose
refinement mapping forgets the buckets). A caller keeps to it when the projection of its steps on
labels, queued indices and what was popped last are steps of it: `UsesLabelQueue` of
`UnidirectionalAStar`, and `TreesUseLabelQueue` for either tree of `BidirectionalAStar`. The caller's
half is what the code of the queue takes for granted (`decrease` is called for labels that
are queued, with a lower cost; the container grows only as labels are added), and where it
may go wrong: a label reset by a restriction, or one of the other tree, is not in the queue. All three
statements are model-checked and proved.

`EnvironmentJob` treats rewriting a tile as one step whose content is what was asked for; that is
`TileConsistent` and `TextsKept` of `GraphTileBuilder`.

## 3. Runs

| run | bounds | what it shows |
|---|---|---|
| `queue` | 3 labels, costs 0..8, bucket size 2, range 5, which it does not divide, minimum costs 0 and 3, drift at most 12 | the bucket queue implements `LabelQueue`: no label lost, duplicated or misplaced, order of pops, exhaustion. Costs beyond the range reach the overflow bucket, and the minimum cost 3 is rounded down to 2 |
| `incidents` | 2 tiles, 3 seconds, 3 writes, directory, log and no configuration, a static tileset with one tile | no update missed, cache converges, slots only where they may be, constructor returns. Any number of steps fit in a second, so equal time stamps occur at every point of a scan |
| `tile_rewrite` | 3 edges, 2 of them twins, 2 values of 6 and 7 bytes, batches of 1 and 2, elevations of 0, 2 or 8 bytes, at most 2 names per edge | offsets survive any number of rewrites, with padding and without, and any elevations, values can be read back |
| `env_job` | 2 workers, 2 tiles, 2 runs, scores 0..2, 1 edge info, room for 2 values | workers never meet, success means intact and scored, a job ends |
| `env_rerun` | 1 worker, 1 tile, 2 runs | **violation**: a rerun has no effect (finding 1) |
| `cache_counts` | 2 threads, 2 tiles of 2, 3 or 6 bytes in a cache of 5, one file replaced, every cache over files, the map-like ones over an extract | counting, eviction, right answers |
| `tile_refs_safe` | 3 threads, 3 loads | a tile lives exactly as long as it is referred to, with atomic counts |
| `search` | 19 networks of up to 8 nodes and 16 edges (`MCUnidirectionalAStar`), every pair of locations at a node or at a third of an edge, bucket size 5, 8 iterations without convergence | cheapest route, no route missed, restrictions, labels, status and queue agree, the contract of the queue, the search ends |
| `search_shade` | 1 network, bucket size 1 | **violation**: canopy breaks the heuristic (finding 2) |
| `bidir` | networks of 7 or 8 nodes and 14 or 16 edges (`MCBidirectionalAStar`), every pair of locations that are not adjacent, at nodes or half way, bucket size 2, cost factor 5, threshold 5 | connections are routes that cost what they say, the best one is the cheapest, none is missed, both trees keep the contract of their queues |
| `bidir_turn` | 1 network with two restrictions, threshold 40 | **violation**: the returned route is not the connection and takes a restricted turn (finding 3) |
| `route_page` | 2 requests, 2 settings, 2 routes an answer, loops of 2 attempts, 4 scorings | one answer on the map at a time, only the first scores of the routes on it select, the button comes back, routes get scores |

*Why the bounds are enough.* The faults that the properties are about need two actors at one
object (two threads and one tile, two workers and one counter, a writer and a scan, two requests
and one map) or two rewrites of one tile; each instance has one more than that where it can be
afforded. In `search` the networks were drawn for the cases of the code: two ways of different
lengths with closed and one-way links, a blocked node, a turn that makes a later label cheaper (an
update of a queued label), restrictions that force the way round and leave one way round, and a loop
of three restrictions. `Parts = 3` gives locations at both ends and at two places within an edge,
before and after each other. In `bidir` the ends are at least an edge apart, as
`get_path_algorithm` sees to, so the networks have a longer middle: two ways round with dear turns
on one of them, so that the first connection is not the best and a dear turn lies on either side of
where the trees meet, and restrictions whose three edges lie in one tree or across the meeting edge.
A cost factor of 5, half the true cost, keeps the trees growing past each other. Four
scorings in `route_page` are two of new routes and two refreshes, before, between and after them. Every
mutant is found within these bounds. In `tile_rewrite` an edge info has 13 bytes, 16 with its padding: 2 bytes of
elevation stay within the padding, 8 move what lies behind by 8, and a name moves it by 4.

*Bounds in the models.* `MaxTime`, `MaxWrites`, `MaxRuns`, `MaxObjects`, `MaxReplace`, `MaxHeld`,
`MaxBatch`, `DriftBound`, `MaxRequests`, `MaxScorings` bound what the environment does and are
conjuncts of guards. `MaxTags`, `kMaxNamesPerEdge`, `max_cache_size`, `BucketRange`,
`MaxNoConvergence`, `ThresholdDelta`, `LOOP_MAX_ATTEMPTS` are limits of the code, made small so that
they are reached. Tiles are rewritten without a bound in `tile_rewrite`: the states repeat once the
edge infos are full.

*Reading `BestRoute`.* A queue orders labels only up to a bucket, so a settled edge may cost up
to `BucketSize - 1` more than the best way to it. `Cheapest`, the reference that a route is
compared with, allows this `Slack` per edge. In both searches it is stated for networks where the
heuristic underestimates (`NeverOverestimates`) and without restrictions, because an edge based search with
restrictions on longer paths is not meant to be optimal. Networks with restrictions are checked for
`RestrictionsObeyed`, `SearchEnds` and `ConnectionsHold`, networks with canopy only where the
heuristic stays below the cost.

*Deadlock* is checked in `queue`, `tile_rewrite` and `cache_counts`. The others may stop: a search
and a job end, the watcher stops when nothing is configured, the loads of a tile and the requests
of the page are bounded.

### Further configurations

Six `.cfg` files show what the code does where the properties above are not claimed. TLC
reports a violation in each, which is what section 5 describes:

| configuration | module | fails | shows |
|---|---|---|---|
| `TileTwins.cfg` | `MCGraphTileBuilder` | `NoValueTwice` | finding 4 |
| `CacheHardExtract.cfg` | `MCTileCache` | `NeverOvercommitted` | finding 5 |
| `RefCountDefault.cfg` | `MCTileRefCount` | `HeldIsLive` | finding 6 |
| `PageSliders.cfg` | `MCRoutePage` | `RoutesFollowSliders` | finding 7 |
| `BidirPruned.cfg` | `MCBidirectionalAStar` | `BestRoute` | finding 8 |
| `BidirLongEdge.cfg` | `MCBidirectionalAStar` | `BestRoute` | finding 9 |

### Fairness

`FairSpec` of `IncidentWatcher` has weak fairness of the watcher thread, of the constructor's
thread, and of the log entry that follows a write (the program that writes tiles finishes what it
began); no fairness of writes, time or removal. `FairSpec` of `EnvironmentJob` has weak fairness
of each worker and of the join, no fairness of `Kill`. Both are what a scheduler gives to
runnable threads: none of the steps waits for a lock that others may hold again and again.
`Spec` of `RoutePage` has weak fairness of the end of each fetch (a GET is aborted after ten seconds,
and a browser ends every request with an answer or an error), of the load of the trees, and of the
end of each scoring, because promises that are settled are run; none of the user, the timers or the
refresh. The other specifications state safety only. That a search ends is stated without fairness:
`SearchEnds` bounds the number of its iterations.

## 4. Proofs

| module | theorems | inductive invariant, and why it is needed |
|---|---|---|
| `DoubleBucketQueueProofs` | `TypeCorrect`, `LabelsAlwaysPlaced`, `LabelsConserved`, `ExhaustedMeansEmpty`, `LabelsInOrder`, `QueueRefines` | `TypeOK`, `Located`, `NothingBehindCurrent`, `CurrentCostOK`, `NoLabelLost` together: where a label is depends on the current cost, which must stay aligned with the current bucket. `QueueRefines` maps each step to one of `LabelQueue` by them |
| `IncidentWatcherProofs` | `TypeCorrect`, `NoUpdateIsMissed`, `ReadyIsLoaded` | `Times` orders the clock, the stamps and the two scans; `Overlooked` says that what a scan no longer visits was announced after it began; `ReadOK` that what was read and not stored is current or will be read again. For `ReadyIsLoaded` also: until the first scan has ended, a tile of before the start is in the cache or still to be visited |
| `EnvironmentJobProofs` | `TypeCorrect`, `NoTwoWorkers`, `SuccessMeansIntact`, `SuccessMeansTagged` | `Claims`: claimed numbers are below the counter and differ; `Covered`: while nothing has failed, a truncated tile, or one that lacks a score, is still unclaimed or in a worker's hands; `Leaving`: workers leave only at the end of the list |
| `TileRefCountProofs` | `TypeCorrect`, `TilesLiveWhileUsed` | `Counted`: a count is the number of threads that refer to the tile and the cache; `Deleted`: deleted is what has count 0. Cardinalities from `FiniteSetTheorems` |
| `TileCacheProofs` | `TypeCorrect`, `BooksStayBalanced`, `LimitIsKept`, `CallersGetTheirTiles`, `TrimAlwaysRelieves` | `BInv`: the count is the bytes held modulo the word, keys and list are in step, an LRU cache with hard control holds no more than its limit, an index of a flat cache is that of its tile, a cache without a lock has one caller (`Alone`), which does not put a tile that is there. See below |
| `UnidirectionalAStarProofs` | `TypeCorrect`, `LabelsAlwaysConsistent`, `RestrictionsAlwaysObeyed`, `SearchUsesQueue`, `SearchAlwaysEnds`, `NoRouteIsMissed`, `BestRouteIsFound` | the first three hold each other up. Predecessors have left the queue (part of `LabelsAddUp`), updates change queued labels only (`TemporaryIsQueued`), so a label that others were made from never changes, and the restriction that was checked when a label was made stays true. `ExpandedIsPopped` starts the chain; `LabelledEdges` says that an edge reset by a restriction still has an index when it is settled later. For the others see below. The module begins with facts about road networks: what `Cheapest` computes (`RouteEndsWithin`: what holds of the ends of one edge, and is kept by one more edge, holds of the ends of all cheapest routes), bucket arithmetic, and that the heuristic falls along an edge by no more than the edge costs (`HeuristicSteps`) |
| `BidirectionalAStarProofs` | `TypeCorrect`, `SearchUsesQueues`, `ConnectionsAlwaysHold`, `RouteReturnedHolds`, `NoRouteIsMissed`, `BestRouteIsFound` | for each tree, `TemporaryIsQueued`, `LabelledEdges` and `PredsAreLabels`, and that what was popped last is not queued; `Stages` says which trees have a label to expand, since one tree's pop may wait for the other's. A step leaves the tree alone that it does not expand. On top of it `SInv`: what each tree keeps (`TInv`, `FTree`), what became of each settled edge (`Fates`), and that every route goes on or is beaten (`Safe`). See below |
| `RoutePageProofs` | `TypeCorrect`, `OneAnswerAlways`, `SelectionHeld` | `OneAnswer` and `ButtonWaits` relate what is shown to the requests under way; `ScoringsBehind`: a scoring that may select is of the routes of its own generation, and generations only grow |

The proofs rest on the `ASSUME` of each module only, which TLC evaluates in the runs:
`SearchAssumption`, for instance, says that the networks are networks (`IsGraph`), `RefAssumption`
that there are finitely many threads. `TilesLiveWhileUsed` has `ThreadSafe` as a
hypothesis, as the default build does not have the property. The theorems of `TileCacheProofs` but
`TypeCorrect` have `LruOverFiles`: LRU caches are over a tile directory, because over an extract they
count wrong (finding 5); flat and simple caches may be over either. Every proof is `Init => IInv`, `IInv /\
[Next]_vars => IInv'` with a step per action, and `PTL`. Where a property is an action property or a
refinement (`QueueRefines`, `SearchUsesQueue`, `SearchUsesQueues`, `SelectionHeld`, `TrimAlwaysRelieves`), the invariant
at both ends of a step gives the step.

*Assumptions worth a word.* `PageAssumption` has `MaxRequests <= MaxScorings`: every answer is scored
once, so the bound on scorings, which is one of the model, must leave room for that.
`Unreachable`, the cost that stands for "no route" in the reference, is any natural number; for
networks whose routes cost more than it the theorems say nothing about those routes.
`NoRouteIsMissed` and `BestRouteIsFound` have `MaxDistance # 0` as a hypothesis: `Allowed` compares a
truth value with `max_distance_` (section 5), so that a maximum of 0 admits no edge at all,
and every other one admits all.

*The tile caches.* `cache_size` is a `size_t`: it is the sum of the tiles' sizes only modulo `Word`, and
this is what an induction can carry (`Counted`). `BooksStayBalanced` therefore says that the keys are right
always, and that the count is the bytes held as long as these fit into a word; for an LRU cache with hard
control `LimitIsKept` says that they do. The core is `TrimKeepsCount`: `TrimToFit` leaves the longest front part of
the list that has room for what is required, and subtracts what it evicts;
so if the head alone has room, the head stays. That is why `PutAgain`, which moves its entry to the head
*before* it makes room, never evicts the entry it updates: `CallersGetTheirTiles`.

*`SearchAlwaysEnds`.* An iteration either finds a node closer to the destination than any before, or
counts towards `MaxNoConvergence`. `Counted` says so with a number: the iterations so far are at
most `MaxNoConvergence + 2` for each node that is no closer than `mindist`, and the present count
on top. It needs `DistancesKept` (a label's distance is that of the end of its edge, also after updates),
so that a smaller `mindist` means that a node has left the set of closer ones.

*`NoRouteIsMissed` and `BestRouteIsFound`.* Both compare the labels with a reference that knows
nothing of labels, so the inductive invariant `RInv` has to say what the search has already done for
every route. Its parts: `WaysTaken`, from every label that was expanded each way on that turns
back nowhere was taken: the edge has a label, and if the heuristic underestimates that label costs
no more than this way, or was popped from an earlier bucket or the same.
`Banded`: what was popped lies at or before the cursor, what is queued at or behind it, because a new label
never sorts before the one it comes from (`NextSortsLater`, by `HeuristicSteps`).
`OriginsLabelled` and `DestinationsLabelled` start and end the routes, `StatusIsLabel` says that an edge's
status points at the label that stands for it, `InPlace` and `OnOpenEdges` tie labels to the network, and
`Ended` says what was popped last, or that the queue is empty. With it, when the search has failed, every end of
a cheapest route was labelled and expanded, by induction over the number of edges (`RouteEndsWithin`),
so a destination would have been labelled; when it has arrived, each end of a route that is
cheaper than the result, by the same induction, has a label that costs no more and left the queue before.

*The search from both ends.* `StepMoves` says what a step does to either tree alone (`TreeStep`: the tree
stays, pops a label, takes a label, unreaches an edge, or gets its first labels), so that what one
tree keeps is proved for one tree. Then there are two arguments.

*The labels are routes* (`ConnectionsAlwaysHold`, with restrictions and without). `TInv` says that labels
add up, that none completes a restriction of its tree, and, by `Ranked`, that every predecessor
was popped before its label was; so the labels behind a label end at a candidate of the location
(`LabelsAreWalks`) and, reversed where the tree is the reverse one, are a walk that costs what the label
says. `LabelsMeet` puts two of them together at the edge and its opposing edge. That is said of
the route at the step that makes the connection. `RouteReturnedHolds`, that `FormPath` returns a route
that costs what the search says, is for networks without restrictions, where the labels of a connection no
longer change (`BestStands`); with restrictions it is false (finding 3).

*No better route is lost* (`NoRouteIsMissed`, `BestRouteIsFound`, without restrictions). `Fates`: a settled
edge waits, is being expanded, is one whose opposing edge has a label of the other tree that no longer changes, was pruned, or
each way on from it has a label that costs no more than this way plus a bucket (`Way`). A route that
turns back nowhere is numbered from both ends (`Proper`), and each tree has opened some number of its
edges at no more than they cost (`Opened`). `Prospects` is the heart: if one tree is still alive on the route, so is the other,
or the route is `Beaten`, that is, there is a connection and it is as cheap. Where a tree stopped, there are three reasons: it met the other
tree (`MetBeaten`: the connection over both labels costs no more than the route), it was pruned
(`PrunedBeaten`), or the label popped sorts beyond the threshold (`StopBeaten`); the last two compare
the cost of the route with the cursor of either queue by the monotony of the heuristic (`HeuristicSteps`).
`ReferenceIsProper` ends it: what `Cheapest` computes is the cost of such a route. `NoRouteIsMissed` has no hypothesis:
a search that fails has not met, hence has pruned nothing, whatever its edges cost.

*`EdgesWithinThreshold`*, the hypothesis of `BestRouteIsFound`, says that no edge costs more than half of
`kThresholdDelta`, the 420 seconds for which the search goes on after the first connection. The code
does not guarantee it: streets of a town have such edges, long roads do not, and the comment at
`bidirectional_astar.cc` 21-25 names routes for which the value was raised. Without
a condition of this kind the theorem is false in two ways (findings 8 and 9, which TLC shows). It
is sufficient and not necessary: `bidir` checks `BestRoute` with a threshold that is
below the cost of every edge, where the theorem says nothing.

*Induction.* The reference of the search, the bytes of a list and the counts of `TrimToFit` are recursive
functions on `0 .. N`. `SetInduction` (a set of naturals with 0
that is closed under successor has them all, from the well-foundedness of `<`) shows that the function
exists (`RouteEndsDefined`, `BytesDefined`) and carries the arguments about it, each with the set of the numbers
for which the claim holds.

*Only model-checked*: liveness (`CacheConverges`, `ConstructorReturns`, `JobEnds`, `ButtonComesBack`,
`RoutesGetScores`), which needs ENABLED; everything about `GraphTileBuilder` (`TypeOK`, `TileConsistent`,
`TextsKept`), whose sizes and growths are folds over sequences and sets, so that a proof needs
them as recursive functions first. `TypeOK` of the search from both ends does not speak of the route returned;
`RouteReturnedHolds` does.

## 5. What was found

By runs:

1. **A rerun of `valhalla_add_environment` has no effect** (`env_rerun`): new scores are
   appended behind the old ones and the reader takes the first, against `regions/README.md` 88-89.
2. **Canopy breaks the heuristic** (`search_shade`): `AStarCostFactor` does not know the
   canopy reduction, and the search returns a street for 60 where a way under trees costs 54.
3. **The search from both ends may return another route than it connected** (`bidir_turn`):
   `FormPath` (`bidirectional_astar.cc` 1230) takes the label that the edge of the best connection
   has *when the search has ended*. A restriction met after the connection resets that edge, and the
   label made afterwards has another predecessor, whose turn onto the reverse half nobody checked. In
   the run, where a half of an edge costs 10, the connection is 1, 3, 5, 7, 9 for 90, and the route returned is
   1, 11, 13, 5, 7, 9, which costs 110 and takes the restricted turn 13, 5, 7, although connections
   that are part of a restriction are disallowed (comment at 832). It needs a threshold that lets the search go on for a while, and the default
   does.

By the further configurations of section 3:

4. **A value is stored twice** (`TileTwins.cfg`): the last text of a tile read from disk
   has the padding of the file as part of it, is not recognised when it is offered again, and a second
   copy is attached to the edge info (`graphtilebuilder.cc` 223, 1349).
5. **The hard LRU cache exceeds its limit over a tile extract** (`CacheHardExtract.cfg`): tiles are
   counted at 1024 bytes when they come and at their size when they go.
6. **Tiles are deleted while in use in the default build** (`RefCountDefault.cfg`): reference counts
   are not atomic although the synchronized cache hands tiles to several threads. `LiveExactlyWhileUsed`,
   in `tile_refs_safe`, is about the thread-safe build only.
7. **Routes of an old setting stay** (`PageSliders.cfg`): a slider moved while a request is under
   way finds no routes on the map and schedules no update (`index.html` 5764), so the routes that come
   are not those of the sliders, although "Auto-update routes on slider change" is checked.
8. **Pruning may lose the cheaper route** (`BidirPruned.cfg`): `Expand` is not called for a label whose
   "lower bound cost for the shortest path that goes through the current edge"
   (`bidirectional_astar.cc` 742, 794) exceeds the threshold. The bound adds the cost up to the
   edge and the cursor of the other tree, less the other tree's estimate for the *end* of
   the edge. For an edge that leads back towards where the search came from, this is no lower bound: it may exceed the route's
   cost by up to twice the edge's. In the run the way back over a shaded street costs 202, and the
   route returned 210. It needs such an edge that is dearer than the threshold allows for.
9. **An edge at the end of a route counts whole** (`BidirLongEdge.cfg`): the tree from the other end reaches
   the edge of a location with the cost of the whole edge, and stops when this exceeds the
   threshold, although the route ends within the edge. In the run it returns a route for 190 where
   one for 170 goes along the other direction of the street. The comment at 21-25 knows that the threshold
   was chosen for very long edges, and that a better measure is missing.

Behaviours modelled as they are written, without a configuration of their own:

- `PedestrianCost::Allowed` compares the maximum walking distance with a truth value
  (`pedestriancost.cc` 679), so it stops nothing; `update_label` leaves the path length of the old
  way (`unidirectional_astar.cc` 363).
- Three restrictions on a loop reset each other for ever; the search ends by the count of
  iterations without convergence (1.8 million in the code), and `SearchEnds` bounds exactly that.
- A restriction resets its via edge only when it is met during expansion. Edges expanded before the
  reset stay settled, so a legal way through them can be lost: `NoRouteMissed` is stated for networks
  without restrictions.
- A settled edge counts as "could be expanded" before access or restrictions are looked at
  (`unidirectional_astar.cc` 161), so a u-turn at a dead end may be withheld. `NoRouteMissed`
  therefore speaks of routes that turn back nowhere.
- In the first iteration of the search from both ends both directions pop, and a connection goes on
  to the next iteration at once, so that a forward label may have been popped and never be expanded.
  This happens only where origin and destination touch, and `get_path_algorithm`
  (`route_action.cc` 270-283) gives those to the other search.
- A download that failed for a passing reason is remembered as missing until the process ends
  (`graphreader.cc` 619).
- On the page, a refresh that starts while new routes await their first scores scores the *old*
  entries again under the *new* generation, and puts them into the chooser until the new ones come
  (`index.html` 5021, 4970-4977). The map itself keeps to one answer.
- Answers are shown in the order in which they come: where requests overlap, that of an older one may
  come last and stay on the map.
  `OneAnswerAtATime` speaks of what is on the map together, not of which answer it is.
- The first scores of the routes on the map choose a route, also when the user has clicked another in
  the meantime (`index.html` 4999). `SelectionRespected` allows this.
- `clearRoutes` leaves the chooser, timers and requests under way alone: a request that was made
  before *Clear Map* still shows its routes.
- An index of trees that fails to load leaves the routes on the map without scores: `Refresh`
  scores again only what was scored before. `RoutesGetScores` is stated for when it is loaded.

Read in the code, outside of what the modules say:

- A file moved into the incident directory with an older write time (rename, `rsync -t`) is not
  seen (`incident_singleton.h` 289); when the first scan takes longer than the configured latency
  the constructor throws, and the next call starts a second watcher (73). The model has writes with the
  present time, and one constructor.
- `valhalla_add_environment` with a tile extract configured lists and reads tiles of the extract, but
  rewrites those of the tile directory (`environment.cc` 691).
- Explore mode's list of places to avoid is overwritten by those of constraint points
  (`index.html` 4185-4209), although a comment there says they are merged.
- Turn alerts are armed for the first route, not the selected one; the timeout of a fetch covers the
  headers of an answer only.

## 6. What is not modelled, and why

The mapped lines are about 3 % of the implementation, which is 146 000 lines, most of them of
kinds that a model of states and steps has little to say about: floating point and geometry (midgard,
skadi, scoring of edges, meili's likelihoods), text (odin, tyr), data import and the batch passes of
graph building (sequential per tile, with results that depend on tags and geometry), generated tables
(time zones), the annealing of the optimizer, bindings, and the protocol between service stages,
which belongs to a library outside this repository. The modules cover the places where state is shared
between threads, processes or handlers, or is changed in an order that matters.

In the modelled components:

- `UnidirectionalAStar`: the reverse direction, transitions between hierarchy levels (pedestrian
  costing never stops expanding one), time dependence of restrictions and of access, restrictions
  with more than one via edge, shortcuts and closures.
- `BidirectionalAStar`: the same, and hierarchy limits, connections refused for u-turns on internal edges
  (828-830, 901-903; no network has internal edges), the threshold of iterations (568-571, at its
  maximum unless alternatives are asked for), pruning of edges that are no through edges
  with the second pass it may need, the extended search, and more than one connection (alternatives).
- Costing: pedestrians only. Options are taken as they come out of parsing.
- `GraphTileBuilder`: filling a fresh tile. `EnvironmentJob`: how an edge is scored.
- `TileCache`: how a tile is downloaded beyond whether it comes; traffic tiles.
- `IncidentWatcher`: exceptions of the directory iterator, the retry of the static initialisation.
- `RoutePage`: explore mode, constraint points, layers other than routes and trees, the assistant,
  navigation; a second timer when costing is reset twice within 300 ms (5637); the geometry that
  decides whether an attempt of a loop is good enough (either outcome
  is possible in the model).

Not modelled but within reach of a model: `CurlerPool`, whose waiting threads share a condition
variable; the Dijkstras of isochrones and matrices, which repeat the labelling scheme that the searches
were checked for; the two passes of `landmarks.cc`; the scaling of the radius in
`loop_route_orchestrator.py`; the canopy discounts of bicycle and car costing.

## 7. Plan

Done, in this order: queue, incident watcher, tile builder, environment job, tile cache, reference
counts, forward search; `LabelQueue` with its refinement from both sides; the search from both ends;
the web page; proofs for all but the builder. What could come next, the most useful first:

1. `TileStore`: what `GetGraphTile` promises (the answer is a version of the tile that was there
   between call and return), implemented by `TileCache` with `TileRefCount` below it.
2. In `BidirectionalAStar`: hierarchy limits, the second pass and the pruning of edges that are no
   through edges; alternatives, for which the threshold is stretched.
3. `CurlerPool`; the two passes of `landmarks.cc`.
4. The reverse direction of `UnidirectionalAStar`, and `Dijkstras` over the same networks.
5. Proofs: offsets of `GraphTileBuilder`, with sums as recursive functions as in `TileCacheProofs`;
   a bound for `BestRoute` of the search from both ends where edges are dearer than the threshold.
