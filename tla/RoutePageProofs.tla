----------------------------- MODULE RoutePageProofs -----------------------------
(***************************************************************************)
(* Proofs about the web page, for any number of requests, attempts and     *)
(* scorings: the map shows one answer, and the selection is respected.     *)
(***************************************************************************)
EXTENDS RoutePage, FiniteSetTheorems, TLAPS

\* The map, the routes held and the alerts are of the same answer.
OneAnswer ==
  /\ routeLayers = routesData /\ turnAlertQueue = routesData
  /\ routesData = {} \/ \E n \in Nat : routesData = {n}

\* The button is disabled only while an answer is awaited.
ButtonWaits == disabled => requests # {}

AnyScoring ==
  [no : Nat, entries : Nat, generation : Nat, autoSelect : BOOLEAN,
   trees : {"waits", "has", "none"}]

Shape ==
  /\ routeGeneration \in Nat /\ made \in Nat /\ begun \in Nat /\ lastChooserEntries \in Nat
  /\ requests \subseteq [id : Nat, loop : BOOLEAN, fetch : {"GET", "POST"}, attempt : Nat,
                         best : BOOLEAN]
  /\ scorings \subseteq AnyScoring

\* No scoring is ahead of the routes shown, and a first scoring of the present generation
\* has the routes on the map.
ScoringsBehind ==
  \A a \in scorings :
    /\ a.generation <= routeGeneration
    /\ a.autoSelect /\ a.generation = routeGeneration => routeLayers \subseteq {a.entries}

IInv == Shape /\ OneAnswer /\ ButtonWaits /\ ScoringsBehind

----------------------------------------------------------------------------
\* Nothing is shown at first.
LEMMA InitInv == Init => IInv
BY DEF Init, IInv, Shape, OneAnswer, ButtonWaits, ScoringsBehind, AnyScoring

\* A call of generateRoutes() clears the map and awaits an answer.
LEMMA GenerateInv ==
  ASSUME IInv, generateRoutes
  PROVE  IInv'
<1> USE DEF generateRoutes, clearRoutes, choice, shade
<1>1. PICK loop \in BOOLEAN :
        requests' = requests \cup
          {[id |-> made + 1, loop |-> loop, fetch |-> "GET", attempt |-> 1, best |-> FALSE]}
  OBVIOUS
<1>2. [id |-> made + 1, loop |-> loop, fetch |-> "GET", attempt |-> 1, best |-> FALSE]
        \in [id : Nat, loop : BOOLEAN, fetch : {"GET", "POST"}, attempt : Nat, best : BOOLEAN]
  <2>1. made + 1 \in Nat
    BY DEF IInv, Shape
  <2> QED  BY <2>1, Zenon
<1>3. Shape'
  BY <1>1, <1>2 DEF IInv, Shape
<1>4. OneAnswer' /\ ButtonWaits'
  BY <1>1 DEF OneAnswer, ButtonWaits
<1>5. ScoringsBehind'
  BY DEF IInv, ScoringsBehind
<1> QED  BY <1>3, <1>4, <1>5 DEF IInv

\* An answer is shown.
LEMMA ShowInv ==
  ASSUME IInv, NEW r \in requests, Show(r)
  PROVE  IInv'
<1> USE DEF Show, displayRoutes, Score
<1>1. r.id \in Nat
  BY DEF IInv, Shape
<1> DEFINE new == [no |-> begun + 1, entries |-> r.id, generation |-> routeGeneration + 1,
                   autoSelect |-> TRUE,
                   trees |-> IF shadeTreeIndex THEN "has" ELSE "waits"]
<1>2. scorings' = scorings \cup {new} /\ routeGeneration' = routeGeneration + 1
  OBVIOUS
<1>3. new \in AnyScoring
  <2>1. begun + 1 \in Nat /\ routeGeneration + 1 \in Nat
    BY DEF IInv, Shape
  <2> QED  BY <1>1, <2>1, Zenon DEF AnyScoring
<1>4. Shape'
  <2>1. scorings' \subseteq AnyScoring
    BY <1>2, <1>3 DEF IInv, Shape
  <2> QED  BY <2>1 DEF IInv, Shape
<1>5. OneAnswer' /\ ButtonWaits'
  BY <1>1 DEF OneAnswer, ButtonWaits
<1>6. ScoringsBehind'
  <2> SUFFICES ASSUME NEW a \in scorings'
               PROVE  /\ a.generation <= routeGeneration'
                      /\ a.autoSelect /\ a.generation = routeGeneration'
                           => routeLayers' \subseteq {a.entries}
    BY DEF ScoringsBehind
  <2>1. routeGeneration \in Nat
    BY DEF IInv, Shape
  <2>2. CASE a = new
    <3>1. a.generation = routeGeneration + 1 /\ a.entries = r.id
      BY <2>2
    <3> QED  BY <1>2, <2>1, <3>1
  <2>3. CASE a \in scorings
    <3>1. a.generation <= routeGeneration /\ a.generation \in Nat
      BY <2>3 DEF IInv, Shape, ScoringsBehind, AnyScoring
    <3> QED  BY <1>2, <2>1, <3>1
  <2> QED  BY <1>2, <2>2, <2>3
<1> QED  BY <1>4, <1>5, <1>6 DEF IInv

\* A call ends with an error.
LEMMA FailInv ==
  ASSUME IInv, NEW r \in requests, Fail(r)
  PROVE  IInv'
BY DEF Fail, IInv, Shape, OneAnswer, ButtonWaits, ScoringsBehind, shown, choice, shade

\* A call goes on with another fetch.
LEMMA GoInv ==
  ASSUME IInv, NEW r \in requests, NEW s, Go(r, s),
         s \in [id : Nat, loop : BOOLEAN, fetch : {"GET", "POST"}, attempt : Nat,
                best : BOOLEAN]
  PROVE  IInv'
BY DEF Go, IInv, Shape, OneAnswer, ButtonWaits, ScoringsBehind, form, shown, choice, shade

\* The three ways in which a call goes on.
LEMMA GoesOn ==
  ASSUME IInv, NEW r \in requests
  PROVE  LET All == [id : Nat, loop : BOOLEAN, fetch : {"GET", "POST"}, attempt : Nat,
                     best : BOOLEAN]
         IN /\ [r EXCEPT !.fetch = "POST"] \in All
            /\ [r EXCEPT !.fetch = "GET", !.attempt = @ + 1, !.best = TRUE] \in All
            /\ [r EXCEPT !.fetch = "GET", !.attempt = @ + 1] \in All
<1> DEFINE All == [id : Nat, loop : BOOLEAN, fetch : {"GET", "POST"}, attempt : Nat,
                   best : BOOLEAN]
<1>1. r \in All
  BY DEF IInv, Shape
<1>2. r.attempt + 1 \in Nat
  BY <1>1
<1>3. [r EXCEPT !.fetch = "POST"] \in All
  BY <1>1
<1>4. [r EXCEPT !.fetch = "GET", !.attempt = @ + 1, !.best = TRUE] \in All
  BY <1>1, <1>2, Zenon
<1>5. [r EXCEPT !.fetch = "GET", !.attempt = @ + 1] \in All
  BY <1>1, <1>2, Zenon
<1> QED  BY <1>3, <1>4, <1>5

\* A fetch ends.
LEMMA FetchInv ==
  ASSUME IInv, NEW r \in requests, FetchEnds(r)
  PROVE  IInv'
<1> DEFINE posted == [r EXCEPT !.fetch = "POST"]
           better == [r EXCEPT !.fetch = "GET", !.attempt = @ + 1, !.best = TRUE]
           again  == [r EXCEPT !.fetch = "GET", !.attempt = @ + 1]
<1>1. \/ Show(r) \/ Fail(r) \/ Go(r, posted) \/ Go(r, better) \/ Go(r, again)
  BY Zenon DEF FetchEnds, GetFails, Answered, Refused
<1>2. /\ Go(r, posted) => IInv'
      /\ Go(r, better) => IInv'
      /\ Go(r, again) => IInv'
  <2>1. LET All == [id : Nat, loop : BOOLEAN, fetch : {"GET", "POST"}, attempt : Nat,
                    best : BOOLEAN]
        IN posted \in All /\ better \in All /\ again \in All
    BY GoesOn
  <2> HIDE DEF posted, better, again
  <2> QED  BY <2>1, GoInv
<1> QED  BY <1>1, <1>2, ShowInv, FailInv

----------------------------------------------------------------------------
\* The load of the trees ends.
LEMMA LoadInv ==
  ASSUME IInv, NEW ok \in BOOLEAN, LoadTrees(ok)
  PROVE  IInv'
<1> DEFINE Told(a) == [a EXCEPT !.trees = IF @ # "waits" THEN @ ELSE IF ok THEN "has" ELSE "none"]
<1>1. scorings' = {Told(a) : a \in scorings}
  BY DEF LoadTrees
<1>2. /\ routeGeneration' = routeGeneration /\ begun' = begun
      /\ lastChooserEntries' = lastChooserEntries /\ made' = made /\ requests' = requests
      /\ disabled' = disabled /\ UNCHANGED shown
  BY DEF LoadTrees, form
<1>3. ASSUME NEW a \in scorings
      PROVE  /\ Told(a) \in AnyScoring
             /\ Told(a).generation = a.generation
             /\ Told(a).autoSelect = a.autoSelect
             /\ Told(a).entries = a.entries
  <2>1. a \in AnyScoring
    BY DEF IInv, Shape
  <2>2. (IF a.trees # "waits" THEN a.trees ELSE IF ok THEN "has" ELSE "none")
          \in {"waits", "has", "none"}
    BY <2>1 DEF AnyScoring
  <2> QED  BY <2>1, <2>2, Zenon DEF AnyScoring
<1> HIDE DEF Told
<1>4. Shape'
  BY <1>1, <1>2, <1>3 DEF IInv, Shape
<1>5. OneAnswer' /\ ButtonWaits'
  BY <1>2 DEF IInv, OneAnswer, ButtonWaits, shown
<1>6. ScoringsBehind'
  <2> SUFFICES ASSUME NEW b \in scorings'
               PROVE  /\ b.generation <= routeGeneration'
                      /\ b.autoSelect /\ b.generation = routeGeneration'
                           => routeLayers' \subseteq {b.entries}
    BY DEF ScoringsBehind
  <2>1. PICK a \in scorings : b = Told(a)
    BY <1>1
  <2>2. /\ b.generation = a.generation /\ b.entries = a.entries
        /\ b.autoSelect = a.autoSelect
    BY <1>3, <2>1
  <2>3. /\ a.generation <= routeGeneration
        /\ a.autoSelect /\ a.generation = routeGeneration => routeLayers \subseteq {a.entries}
    BY DEF IInv, ScoringsBehind
  <2>4. routeLayers' = routeLayers /\ routeGeneration' = routeGeneration
    BY <1>2 DEF shown
  <2> QED  BY <2>2, <2>3, <2>4
<1> QED  BY <1>4, <1>5, <1>6 DEF IInv

\* A scoring ends.
LEMMA ScoringInv ==
  ASSUME IInv, NEW a \in scorings, ScoringEnds(a)
  PROVE  IInv'
<1>1. /\ scorings' = scorings \ {a} /\ routeGeneration' = routeGeneration /\ begun' = begun
      /\ made' = made /\ requests' = requests /\ disabled' = disabled /\ UNCHANGED shown
      /\ lastChooserEntries' \in {lastChooserEntries, a.entries}
  BY DEF ScoringEnds, form
<1>2. a.entries \in Nat
  BY DEF IInv, Shape, AnyScoring
<1> QED  BY <1>1, <1>2 DEF IInv, Shape, OneAnswer, ButtonWaits, ScoringsBehind, shown

\* A refresh begins: it does not select.
LEMMA RefreshInv ==
  ASSUME IInv, Refresh
  PROVE  IInv'
<1> DEFINE new == [no |-> begun + 1, entries |-> lastChooserEntries,
                   generation |-> routeGeneration, autoSelect |-> FALSE,
                   trees |-> IF shadeTreeIndex THEN "has" ELSE "waits"]
<1>1. /\ scorings' = scorings \cup {new} /\ begun' = begun + 1
      /\ routeGeneration' = routeGeneration /\ lastChooserEntries' = lastChooserEntries
      /\ made' = made /\ requests' = requests /\ disabled' = disabled /\ UNCHANGED shown
  BY DEF Refresh, Score, form
<1>2. new \in AnyScoring
  <2>1. begun + 1 \in Nat /\ routeGeneration \in Nat /\ lastChooserEntries \in Nat
    BY DEF IInv, Shape
  <2> QED  BY <2>1, Zenon DEF AnyScoring
<1>3. new.generation = routeGeneration /\ ~new.autoSelect
  OBVIOUS
<1> HIDE DEF new
<1>4. Shape'
  BY <1>1, <1>2 DEF IInv, Shape
<1>5. OneAnswer' /\ ButtonWaits'
  BY <1>1 DEF IInv, OneAnswer, ButtonWaits, shown
<1>6. ScoringsBehind'
  <2>1. routeGeneration \in Nat /\ routeLayers' = routeLayers
    BY <1>1 DEF IInv, Shape, shown
  <2> QED  BY <1>1, <1>3, <2>1 DEF IInv, ScoringsBehind
<1> QED  BY <1>4, <1>5, <1>6 DEF IInv

\* What the user does but for requests leaves the invariant alone.
LEMMA UserInv ==
  ASSUME IInv, User
  PROVE  IInv'
<1>1. CASE PressButton \/ EnterOrSelect
  BY <1>1, GenerateInv DEF PressButton, EnterOrSelect
<1>2. ASSUME NEW s \in Settings, MoveSlider(s) PROVE IInv'
  BY <1>2 DEF MoveSlider, IInv, Shape, OneAnswer, ButtonWaits, ScoringsBehind, shown, choice, shade
<1>3. CASE resetCostingParameters
  BY <1>3 DEF resetCostingParameters, IInv, Shape, OneAnswer, ButtonWaits, ScoringsBehind,
     shown, choice, shade
<1>4. CASE ClearMap
  BY <1>4 DEF ClearMap, clearRoutes, IInv, Shape, OneAnswer, ButtonWaits, ScoringsBehind,
     form, choice, shade
<1>5. ASSUME NEW i \in Routes, Click(i) PROVE IInv'
  BY <1>5 DEF Click, IInv, Shape, OneAnswer, ButtonWaits, ScoringsBehind, form, shown, shade
<1> QED  BY <1>1, <1>2, <1>3, <1>4, <1>5 DEF User

\* Every step keeps the invariant.
LEMMA StepInv == IInv /\ [Next]_vars => IInv'
<1> SUFFICES ASSUME IInv, [Next]_vars PROVE IInv'
  OBVIOUS
<1>1. CASE UNCHANGED vars
  BY <1>1 DEF vars, form, shown, choice, shade, IInv, Shape, OneAnswer, ButtonWaits,
     ScoringsBehind
<1>2. ASSUME NEW t \in timers, TimerFires(t) PROVE IInv'
  BY <1>2, GenerateInv DEF TimerFires
<1>3. CASE Next
  BY <1>2, <1>3, UserInv, FetchInv, LoadInv, ScoringInv, RefreshInv DEF Next
<1> QED  BY <1>1, <1>3

\* However requests overlap, what is on the map is of one answer, and a disabled button
\* means that an answer is awaited.
THEOREM OneAnswerAlways == Spec => []OneAnswerAtATime
<1>1. IInv => OneAnswerAtATime
  <2> SUFFICES ASSUME IInv PROVE OneAnswerAtATime
    OBVIOUS
  <2>1. Cardinality(routesData) <= 1
    <3>1. CASE routesData = {}
      BY <3>1, FS_EmptySet
    <3>2. ASSUME NEW n \in Nat, routesData = {n} PROVE Cardinality(routesData) <= 1
      <4>1. Cardinality({n}) = 1
        BY FS_Singleton
      <4> QED  BY <3>2, <4>1
    <3> QED  BY <3>1, <3>2 DEF IInv, OneAnswer
  <2> QED  BY <2>1 DEF IInv, OneAnswer, ButtonWaits, OneAnswerAtATime
<1> QED  BY <1>1, InitInv, StepInv, PTL DEF Spec

----------------------------------------------------------------------------
Respected ==
  activeRouteIndex' # activeRouteIndex =>
    \/ routeGeneration' = routeGeneration + 1
    \/ \E i \in Routes : Click(i)
    \/ \E a \in scorings \ scorings' : a.autoSelect /\ a.entries \in routeLayers

\* Calls that begin or end without an answer leave the selection alone, and so do loads.
LEMMA OthersRespect ==
  /\ generateRoutes => Respected
  /\ \A s \in Settings : MoveSlider(s) => Respected
  /\ resetCostingParameters \/ ClearMap \/ Refresh => Respected
  /\ \A ok \in BOOLEAN : LoadTrees(ok) => Respected
  /\ \A i \in Routes : Click(i) => Respected
BY DEF Respected, generateRoutes, MoveSlider, resetCostingParameters, ClearMap, Refresh,
   LoadTrees, choice

\* A fetch that ends selects only with the routes it shows.
LEMMA FetchRespects ==
  ASSUME NEW r \in requests, FetchEnds(r)
  PROVE  Respected
<1>1. Show(r) => Respected
  BY DEF Show, displayRoutes, Respected
<1>2. Fail(r) => Respected
  BY DEF Fail, choice, Respected
<1>3. ASSUME NEW s, Go(r, s) PROVE Respected
  BY <1>3 DEF Go, choice, Respected
<1> QED  BY <1>1, <1>2, <1>3 DEF FetchEnds, GetFails, Answered, Refused

\* A scoring that selects is the first of the routes on the map.
LEMMA ScoringRespects ==
  ASSUME IInv, NEW a \in scorings, ScoringEnds(a)
  PROVE  Respected
<1> SUFFICES ASSUME activeRouteIndex' # activeRouteIndex
             PROVE  \E b \in scorings \ scorings' : b.autoSelect /\ b.entries \in routeLayers
  BY DEF Respected
<1>1. Current(a) /\ a.autoSelect /\ routeLayers # {}
  BY DEF ScoringEnds, choice
<1>2. routeLayers \subseteq {a.entries}
  BY <1>1 DEF IInv, ScoringsBehind, Current
<1>3. a \in scorings \ scorings'
  BY DEF ScoringEnds
<1> QED  BY <1>1, <1>2, <1>3

\* No step selects without a reason.
LEMMA StepRespects == IInv /\ [Next]_vars => [Respected]_vars
<1> SUFFICES ASSUME IInv, Next PROVE Respected
  OBVIOUS
<1>1. CASE User
  BY <1>1, OthersRespect DEF User, PressButton, EnterOrSelect
<1>2. ASSUME NEW t \in timers, TimerFires(t) PROVE Respected
  BY <1>2, OthersRespect DEF TimerFires
<1> QED  BY <1>1, <1>2, OthersRespect, FetchRespects, ScoringRespects DEF Next

\* The selection changes only by an answer that is shown, the user, or the first scores of
\* the routes on the map.
THEOREM SelectionHeld == Spec => SelectionRespected
<1> QED  BY InitInv, StepInv, StepRespects, PTL DEF Spec, SelectionRespected, Respected

----------------------------------------------------------------------------
\* Types with their bounds: an answer is shown at most once per call, and each answer
\* begins one scoring for which MaxScorings has room.

Controls ==
  /\ sliders \in Settings
  /\ timers \subseteq {"slider", "reset"}
  /\ disabled \in BOOLEAN
  /\ activeRouteIndex \in Routes
  /\ shadeTreeIndex \in BOOLEAN
  /\ asked \in [Numbers -> Settings]

Call(n) ==
  [id : 1 .. n, loop : BOOLEAN, fetch : {"GET", "POST"}, attempt : 1 .. LOOP_MAX_ATTEMPTS,
   best : BOOLEAN]

Calls ==
  /\ made <= MaxRequests
  /\ requests \subseteq Call(made)
  /\ IsFiniteSet(requests)
  /\ routeGeneration + Cardinality(requests) <= made

Work(b, n) ==
  [no : 1 .. b, entries : 1 .. n, generation : Nat, autoSelect : BOOLEAN,
   trees : {"waits", "has", "none"}]

Scorings ==
  /\ scorings \subseteq Work(begun, made)
  /\ begun + (MaxRequests - routeGeneration) <= MaxScorings

Drawn ==
  /\ routesData \subseteq 1 .. made /\ turnAlertQueue \subseteq 1 .. made
  /\ routeLayers \subseteq 1 .. made /\ scored \subseteq 1 .. made
  /\ chooser \in 0 .. made /\ lastChooserEntries \in 0 .. made

Bounds == Controls /\ Calls /\ Scorings /\ Drawn

\* What the numbers of calls and scorings are bounded by grows.
LEMMA Widen ==
  ASSUME NEW b \in Nat, NEW n \in Nat, NEW c \in Nat, NEW m \in Nat, b <= c, n <= m
  PROVE  Work(b, n) \subseteq Work(c, m) /\ Call(n) \subseteq Call(m)
<1>1. 1 .. b \subseteq 1 .. c /\ 1 .. n \subseteq 1 .. m
  OBVIOUS
<1>2. ASSUME NEW a \in Work(b, n) PROVE a \in Work(c, m)
  BY <1>1 DEF Work
<1>3. ASSUME NEW r \in Call(n) PROVE r \in Call(m)
  BY <1>1 DEF Call
<1> QED  BY <1>2, <1>3

\* One more element is at most one more.
LEMMA AddOne ==
  ASSUME NEW S, IsFiniteSet(S), NEW x
  PROVE  /\ IsFiniteSet(S \cup {x}) /\ Cardinality(S) \in Nat
         /\ Cardinality(S \cup {x}) <= Cardinality(S) + 1
<1>1. Cardinality(S) \in Nat
  BY FS_CardinalityType
<1>2. IsFiniteSet(S \cup {x}) /\ Cardinality(S \cup {x}) \in {Cardinality(S), Cardinality(S) + 1}
  BY FS_AddElement
<1> QED  BY <1>1, <1>2

\* Nothing is under way at first.
LEMMA InitBounds == Init => Bounds
<1> SUFFICES ASSUME Init PROVE Bounds
  OBVIOUS
<1> USE PageAssumption DEF Init
<1>1. Controls
  BY DEF Controls
<1>2. Calls
  BY FS_EmptySet DEF Calls
<1>3. Scorings /\ Drawn
  BY DEF Scorings, Drawn
<1> QED  BY <1>1, <1>2, <1>3 DEF Bounds

\* A call begins.
LEMMA GenerateBounds ==
  ASSUME Shape, Bounds, generateRoutes, sliders' = sliders, timers' \subseteq timers
  PROVE  Bounds'
<1> USE PageAssumption DEF generateRoutes, clearRoutes, choice, shade
<1>1. PICK loop \in BOOLEAN :
        requests' = requests \cup
          {[id |-> made + 1, loop |-> loop, fetch |-> "GET", attempt |-> 1, best |-> FALSE]}
  OBVIOUS
<1> DEFINE new == [id |-> made + 1, loop |-> loop, fetch |-> "GET", attempt |-> 1, best |-> FALSE]
<1>2. made' = made + 1 /\ made \in Nat /\ made' \in Nat /\ made < MaxRequests
  BY DEF Shape
<1>3. new \in Call(made')
  <2>1. made' \in 1 .. made' /\ 1 \in 1 .. LOOP_MAX_ATTEMPTS
    BY <1>2
  <2> QED  BY <1>2, <2>1, Zenon DEF Call
<1>4. Work(begun, made) \subseteq Work(begun, made') /\ Call(made) \subseteq Call(made')
  BY <1>2, Widen DEF Shape
<1>5. Calls'
  <2>1. Cardinality(requests) \in Nat /\ IsFiniteSet(requests') /\ Cardinality(requests') <= Cardinality(requests) + 1
    <3>1. IsFiniteSet(requests) /\ requests' = requests \cup {new}
      BY <1>1 DEF Bounds, Calls
    <3> HIDE DEF new, generateRoutes
    <3> QED  BY <3>1, AddOne
  <2>2. Cardinality(requests') \in Nat
    BY <2>1, FS_CardinalityType
  <2>3. requests' \subseteq Call(made')
    BY <1>1, <1>3, <1>4 DEF Bounds, Calls
  <2>4. routeGeneration \in Nat /\ routeGeneration' = routeGeneration
    BY DEF Shape
  <2> HIDE DEF generateRoutes
  <2> QED  BY <1>2, <2>1, <2>2, <2>3, <2>4 DEF Bounds, Calls
<1>6. Scorings' /\ Drawn'
  BY <1>2, <1>4 DEF Bounds, Scorings, Drawn
<1>7. Controls'
  BY <1>2 DEF Bounds, Controls, Numbers
<1> QED  BY <1>5, <1>6, <1>7 DEF Bounds

\* An answer is shown: its call is over, and its scoring has room.
LEMMA ShowBounds ==
  ASSUME Shape, Bounds, NEW r \in requests, Show(r)
  PROVE  Bounds'
<1> USE PageAssumption DEF Show, displayRoutes, Score
<1>1. /\ requests' = requests \ {r} /\ made' = made /\ routeGeneration' = routeGeneration + 1
      /\ begun' = begun + 1 /\ made \in Nat /\ begun \in Nat /\ routeGeneration \in Nat
  BY DEF Shape
<1>2. r.id \in 1 .. made
  BY DEF Bounds, Calls, Call
<1>3. Calls'
  <2>1. IsFiniteSet(requests') /\ Cardinality(requests') = Cardinality(requests) - 1
    BY <1>1, FS_RemoveElement DEF Bounds, Calls
  <2>2. Cardinality(requests) \in Nat /\ Cardinality(requests') \in Nat
    BY <2>1, FS_CardinalityType DEF Bounds, Calls
  <2> QED  BY <1>1, <2>1, <2>2 DEF Bounds, Calls
<1> DEFINE new == [no |-> begun + 1, entries |-> r.id, generation |-> routeGeneration + 1,
                   autoSelect |-> TRUE,
                   trees |-> IF shadeTreeIndex THEN "has" ELSE "waits"]
<1>4. new \in Work(begun', made')
  <2>1. begun + 1 \in 1 .. begun' /\ r.id \in 1 .. made' /\ routeGeneration + 1 \in Nat
    BY <1>1, <1>2
  <2> QED  BY <2>1, Zenon DEF Work
<1>5. Scorings'
  <2>1. Work(begun, made) \subseteq Work(begun', made')
    BY <1>1, Widen
  <2>2. scorings' = scorings \cup {new}
    OBVIOUS
  <2>3. scorings' \subseteq Work(begun', made')
    BY <1>4, <2>1, <2>2 DEF Bounds, Scorings
  <2>4. begun' + (MaxRequests - routeGeneration') <= MaxScorings
    BY <1>1 DEF Bounds, Scorings
  <2> QED  BY <2>3, <2>4 DEF Scorings
<1>6. Drawn'
  BY <1>1, <1>2 DEF Bounds, Drawn
<1>7. Controls'
  BY DEF Bounds, Controls
<1> QED  BY <1>3, <1>5, <1>6, <1>7 DEF Bounds

\* A call ends with an error.
LEMMA FailBounds ==
  ASSUME Shape, Bounds, NEW r \in requests, Fail(r)
  PROVE  Bounds'
<1> USE DEF Fail, shown, choice, shade
<1>1. IsFiniteSet(requests') /\ Cardinality(requests') = Cardinality(requests) - 1
  BY FS_RemoveElement DEF Bounds, Calls
<1>2. Cardinality(requests) \in Nat /\ Cardinality(requests') \in Nat
  BY <1>1, FS_CardinalityType DEF Bounds, Calls
<1>3. Calls'
  BY <1>1, <1>2 DEF Shape, Bounds, Calls
<1>4. Controls' /\ Scorings' /\ Drawn'
  BY DEF Bounds, Controls, Scorings, Drawn
<1> QED  BY <1>3, <1>4 DEF Bounds

\* A call goes on: it is the same call.
LEMMA GoBounds ==
  ASSUME Shape, Bounds, NEW r \in requests, NEW s \in Call(made), Go(r, s)
  PROVE  Bounds'
<1> USE DEF Go, form, shown, choice, shade
<1> DEFINE rest == requests \ {r}
<1>1. IsFiniteSet(rest) /\ Cardinality(rest) = Cardinality(requests) - 1
  BY FS_RemoveElement DEF Bounds, Calls
<1>2. requests' = rest \cup {s}
  OBVIOUS
<1> HIDE DEF rest
<1>3. IsFiniteSet(requests') /\ Cardinality(requests') <= Cardinality(rest) + 1
  BY <1>1, <1>2, AddOne
<1>4. Cardinality(requests) \in Nat /\ Cardinality(requests') \in Nat /\ Cardinality(rest) \in Nat
  BY <1>1, <1>3, FS_CardinalityType DEF Bounds, Calls
<1>5. requests' \subseteq Call(made)
  BY <1>2 DEF rest, Bounds, Calls
<1>6. Calls'
  BY <1>1, <1>3, <1>4, <1>5 DEF Shape, Bounds, Calls
<1>7. Controls' /\ Scorings' /\ Drawn'
  BY DEF Bounds, Controls, Scorings, Drawn
<1> QED  BY <1>6, <1>7 DEF Bounds

\* A fetch ends.  A loop makes another attempt only while it has one left.
LEMMA FetchBounds ==
  ASSUME Shape, Bounds, NEW r \in requests, FetchEnds(r)
  PROVE  Bounds'
<1> DEFINE posted == [r EXCEPT !.fetch = "POST"]
           better == [r EXCEPT !.fetch = "GET", !.attempt = @ + 1, !.best = TRUE]
           again  == [r EXCEPT !.fetch = "GET", !.attempt = @ + 1]
<1>1. \/ Show(r) \/ Fail(r) \/ Go(r, posted)
      \/ r.attempt < LOOP_MAX_ATTEMPTS /\ (Go(r, better) \/ Go(r, again))
  BY Zenon DEF FetchEnds, GetFails, Answered, Refused
<1>2. r \in Call(made)
  BY DEF Bounds, Calls
<1>3. posted \in Call(made)
  BY <1>2 DEF Call
<1>4. ASSUME r.attempt < LOOP_MAX_ATTEMPTS PROVE better \in Call(made) /\ again \in Call(made)
  <2>1. r.attempt + 1 \in 1 .. LOOP_MAX_ATTEMPTS
    BY <1>2, <1>4, PageAssumption DEF Call
  <2> QED  BY <1>2, <2>1, Zenon DEF Call
<1> HIDE DEF posted, better, again
<1> QED  BY <1>1, <1>3, <1>4, ShowBounds, FailBounds, GoBounds

\* The load of the trees ends.
LEMMA LoadBounds ==
  ASSUME Shape, Bounds, NEW ok \in BOOLEAN, LoadTrees(ok)
  PROVE  Bounds'
<1> DEFINE Told(a) == [a EXCEPT !.trees = IF @ # "waits" THEN @ ELSE IF ok THEN "has" ELSE "none"]
<1>1. scorings' = {Told(a) : a \in scorings}
  BY DEF LoadTrees
<1>2. ASSUME NEW a \in scorings PROVE Told(a) \in Work(begun, made)
  <2>1. a \in Work(begun, made)
    BY DEF Bounds, Scorings
  <2>2. (IF a.trees # "waits" THEN a.trees ELSE IF ok THEN "has" ELSE "none")
          \in {"waits", "has", "none"}
    BY <2>1 DEF Work
  <2> QED  BY <2>1, <2>2, Zenon DEF Work
<1> HIDE DEF Told
<1>3. scorings' \subseteq Work(begun, made)
  BY <1>1, <1>2
<1>4. /\ routeGeneration' = routeGeneration /\ begun' = begun /\ scored' = scored
      /\ lastChooserEntries' = lastChooserEntries /\ made' = made /\ requests' = requests
      /\ shadeTreeIndex' = ok /\ asked' = asked /\ UNCHANGED <<form, shown, choice>>
  BY DEF LoadTrees
<1>5. Scorings'
  BY <1>3, <1>4 DEF Bounds, Scorings
<1> QED  BY <1>4, <1>5 DEF Bounds, Controls, Calls, Drawn, form, shown, choice

\* A scoring ends: its routes were made.
LEMMA ScoringBounds ==
  ASSUME Shape, Bounds, NEW a \in scorings, ScoringEnds(a)
  PROVE  Bounds'
<1>1. a.entries \in 1 .. made
  BY DEF Bounds, Scorings, Work
<1>2. Controls' /\ Calls' /\ Scorings'
  BY DEF ScoringEnds, form, shown, choice, Bounds, Controls, Calls, Scorings
<1>3. /\ made' = made /\ UNCHANGED shown
      /\ scored' \in {scored, scored \cup {a.entries}} /\ chooser' \in {chooser, a.entries}
      /\ lastChooserEntries' \in {lastChooserEntries, a.entries}
  BY DEF ScoringEnds, choice
<1>4. Drawn'
  BY <1>1, <1>3 DEF shown, Bounds, Drawn
<1> QED  BY <1>2, <1>4 DEF Bounds

\* A refresh begins if there is room.
LEMMA RefreshBounds ==
  ASSUME Shape, Bounds, Refresh
  PROVE  Bounds'
<1> DEFINE new == [no |-> begun + 1, entries |-> lastChooserEntries,
                   generation |-> routeGeneration, autoSelect |-> FALSE,
                   trees |-> IF shadeTreeIndex THEN "has" ELSE "waits"]
<1>1. /\ scorings' = scorings \cup {new} /\ begun' = begun + 1 /\ scored' = scored
      /\ routeGeneration' = routeGeneration /\ lastChooserEntries' = lastChooserEntries
      /\ made' = made /\ requests' = requests /\ shadeTreeIndex' = shadeTreeIndex
      /\ asked' = asked /\ UNCHANGED <<form, shown, choice>>
      /\ lastChooserEntries # 0 /\ begun + (MaxRequests - routeGeneration) < MaxScorings
  BY DEF Refresh, Score
<1>2. begun \in Nat /\ made \in Nat /\ routeGeneration \in Nat
  BY DEF Shape
<1>3. new \in Work(begun', made)
  <2>1. begun + 1 \in 1 .. begun' /\ lastChooserEntries \in 1 .. made
    BY <1>1, <1>2 DEF Bounds, Drawn
  <2> QED  BY <1>2, <2>1, Zenon DEF Work
<1> HIDE DEF new
<1>4. Scorings'
  <2>1. Work(begun, made) \subseteq Work(begun', made)
    BY <1>1, <1>2, Widen
  <2>2. scorings' \subseteq Work(begun', made')
    BY <1>1, <1>3, <2>1 DEF Bounds, Scorings
  <2>3. begun' + (MaxRequests - routeGeneration') <= MaxScorings
    BY <1>1, <1>2, PageAssumption
  <2> QED  BY <2>2, <2>3 DEF Scorings
<1> QED  BY <1>1, <1>4 DEF Bounds, Controls, Calls, Drawn, form, shown, choice

\* What the user does stays in bounds.
LEMMA UserBounds ==
  ASSUME Shape, Bounds, User
  PROVE  Bounds'
<1>1. CASE PressButton \/ EnterOrSelect
  BY <1>1, GenerateBounds DEF PressButton, EnterOrSelect
<1>2. ASSUME NEW s \in Settings, MoveSlider(s) \/ resetCostingParameters PROVE Bounds'
  <2>1. Controls'
    BY <1>2, PageAssumption DEF MoveSlider, resetCostingParameters, choice, shade, Bounds, Controls
  <2> QED  BY <1>2, <2>1 DEF MoveSlider, resetCostingParameters, Bounds, Calls, Scorings, Drawn,
                         shown, choice, shade
<1>3. CASE ClearMap
  BY <1>3 DEF ClearMap, clearRoutes, Bounds, Controls, Calls, Scorings, Drawn, form, choice, shade
<1>4. ASSUME NEW i \in Routes, Click(i) PROVE Bounds'
  BY <1>4 DEF Click, Bounds, Controls, Calls, Scorings, Drawn, form, shown, shade
<1>5. Default \in Settings
  BY PageAssumption
<1> QED  BY <1>1, <1>2, <1>3, <1>4, <1>5 DEF User

\* Every step stays in bounds.
LEMMA StepBounds ==
  ASSUME Shape, Bounds, [Next]_vars
  PROVE  Bounds'
<1>1. CASE UNCHANGED vars
  BY <1>1 DEF vars, form, shown, choice, shade, Bounds, Controls, Calls, Scorings, Drawn
<1>2. ASSUME NEW t \in timers, TimerFires(t) PROVE Bounds'
  BY <1>2, GenerateBounds DEF TimerFires
<1>3. CASE Next
  BY <1>2, <1>3, UserBounds, FetchBounds, LoadBounds, ScoringBounds, RefreshBounds DEF Next
<1> QED  BY <1>1, <1>3

\* Type correctness, the bounds on calls, answers and scorings included.
THEOREM TypeCorrect == Spec => []TypeOK
<1>1. Init => IInv /\ Bounds
  BY InitInv, InitBounds
<1>2. IInv /\ Bounds /\ [Next]_vars => IInv' /\ Bounds'
  BY StepInv, StepBounds DEF IInv
<1>3. IInv /\ Bounds => TypeOK
  <2> SUFFICES ASSUME IInv, Bounds PROVE TypeOK
    OBVIOUS
  <2>1. made \in Nat /\ begun \in Nat /\ routeGeneration \in Nat /\ made <= MaxRequests
    BY DEF IInv, Shape, Bounds, Calls
  <2>2. routeGeneration <= made
    <3>1. Cardinality(requests) \in Nat
      BY FS_CardinalityType DEF Bounds, Calls
    <3> QED  BY <2>1, <3>1 DEF Bounds, Calls
  <2>3. begun <= MaxScorings
    BY <2>1, <2>2, PageAssumption DEF Bounds, Scorings
  <2>4. requests \subseteq Request /\ 1 .. made \subseteq Numbers
    BY <2>1, PageAssumption DEF Bounds, Calls, Call, Request, Numbers
  <2>5. scorings \subseteq Scoring
    <3>1. 1 .. begun \subseteq 1 .. MaxScorings
      BY <2>1, <2>3, PageAssumption
    <3> QED  BY <2>4, <3>1 DEF Bounds, Scorings, Work, Scoring
  <2> QED  BY <2>1, <2>2, <2>3, <2>4, <2>5, PageAssumption DEF Bounds, Controls, Calls, Drawn, TypeOK
<1> QED  BY <1>1, <1>2, <1>3, PTL DEF Spec

====
