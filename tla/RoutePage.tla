-------------------------------- MODULE RoutePage --------------------------------
(***************************************************************************)
(* The routes on the web page, src/web/index.html: requests to the route   *)
(* server, the routes shown on the map, and the shade scores computed for  *)
(* them afterwards.                                                        *)
(*                                                                         *)
(* A script runs without interruption up to an await, so an action here is *)
(* the code between two awaits.  Nothing keeps a second call of            *)
(* generateRoutes() from starting while the first awaits its answer: the   *)
(* Enter key, a place picked from the search, a slider and the reset of    *)
(* the sliders start one without regard to the button that is disabled.    *)
(*                                                                         *)
(* Abstractions.  The form is the setting of the sliders; origin and       *)
(* destination are filled in, and auto-update is checked, as it is when    *)
(* the page opens.  The routes of an answer are known by the number of     *)
(* their request, and each answer has the same number of routes, all of    *)
(* which can be drawn.  Explore mode and constraint points are left out.   *)
(***************************************************************************)
EXTENDS Integers, FiniteSets

CONSTANTS
  Settings,           \* of the sliders
  Default,            \* the setting that a reset restores
  Routes,             \* indices of the routes of an answer
  LOOP_MAX_ATTEMPTS,
  MaxRequests,        \* bound on calls of generateRoutes()
  MaxScorings         \* bound on shade scorings: at least the first one of each answer

ASSUME PageAssumption ==
  /\ Default \in Settings
  /\ 0 \in Routes /\ Routes \subseteq Nat
  /\ LOOP_MAX_ATTEMPTS \in Nat \ {0}
  /\ MaxRequests \in Nat /\ MaxScorings \in Nat /\ MaxRequests <= MaxScorings

VARIABLES
  sliders,
  timers,             \* calls of generateRoutes() that are scheduled
  disabled,           \* whether the button is
  requests,           \* the calls that await an answer
  made,               \* calls so far: a call's number tells its routes apart
  routesData,         \* number of the routes held, as a set of at most one
  routeLayers,        \* numbers of the routes drawn
  turnAlertQueue,     \* number of the routes that turn alerts are armed for
  chooser,            \* number of the routes in the chooser on the map; 0: none
  activeRouteIndex,
  routeGeneration,
  scorings,           \* calls of annotateRoutesWithShade() that await data
  begun,              \* how many there have been
  lastChooserEntries, \* number of the routes last scored; 0: none
  shadeTreeIndex,     \* whether the index of trees is loaded
  scored,             \* numbers of routes that have a shade score
  asked               \* the setting each request was made with

form   == <<sliders, timers, disabled>>
shown  == <<routesData, routeLayers, turnAlertQueue>>
choice == <<chooser, activeRouteIndex>>
shade  == <<routeGeneration, scorings, begun, lastChooserEntries, shadeTreeIndex, scored>>
vars   == <<form, requests, made, shown, choice, shade, asked>>

Numbers == 1 .. MaxRequests

\* A call that awaits the answer to a GET or to the POST that follows when the GET fails.
\* A loop makes several attempts; best says whether one has brought routes.
Request ==
  [id : Numbers, loop : BOOLEAN, fetch : {"GET", "POST"},
   attempt : 1 .. LOOP_MAX_ATTEMPTS, best : BOOLEAN]

\* A scoring of routes, begun in a generation; the first one of new routes may select.  It
\* waits for the index of trees, has it, or has learnt that it cannot be loaded.
Scoring ==
  [no : 1 .. MaxScorings, entries : Numbers, generation : Nat, autoSelect : BOOLEAN,
   trees : {"waits", "has", "none"}]

Init ==
  /\ sliders = Default
  /\ timers = {}
  /\ disabled = FALSE
  /\ requests = {}
  /\ made = 0
  /\ routesData = {} /\ routeLayers = {} /\ turnAlertQueue = {}
  /\ chooser = 0
  /\ activeRouteIndex = 0
  /\ routeGeneration = 0
  /\ scorings = {}
  /\ begun = 0
  /\ lastChooserEntries = 0
  /\ shadeTreeIndex = FALSE
  /\ scored = {}
  /\ asked = [n \in Numbers |-> Default]

----------------------------------------------------------------------------
\* clearRoutes(): the chooser keeps its rows, and scorings go on.
clearRoutes ==
  routesData' = {} /\ routeLayers' = {} /\ turnAlertQueue' = {}

\* generateRoutes(), up to its first await.  The form is read now.
generateRoutes ==
  /\ made < MaxRequests
  /\ made' = made + 1
  /\ disabled' = TRUE
  /\ clearRoutes
  /\ \E loop \in BOOLEAN :
       requests' = requests \cup
         {[id |-> made + 1, loop |-> loop, fetch |-> "GET", attempt |-> 1, best |-> FALSE]}
  /\ asked' = [asked EXCEPT ![made + 1] = sliders]
  /\ UNCHANGED <<choice, shade>>

\* The button; the Enter key, a place picked from the search and the other callers, which
\* do not look at the button; and a timer.
PressButton   == ~disabled /\ generateRoutes /\ UNCHANGED <<sliders, timers>>
EnterOrSelect == generateRoutes /\ UNCHANGED <<sliders, timers>>

TimerFires(t) ==
  /\ t \in timers
  /\ timers' = timers \ {t}
  /\ generateRoutes
  /\ UNCHANGED sliders

\* A slider is moved: with routes on the map, they are requested anew in half a second.
MoveSlider(s) ==
  /\ s # sliders
  /\ sliders' = s
  /\ timers' = IF routesData # {} THEN timers \cup {"slider"} ELSE timers
  /\ UNCHANGED <<disabled, requests, made, shown, choice, shade, asked>>

\* resetCostingParameters() moves each slider and sets a timer of its own.  Every reset sets
\* another one, which nothing cancels; resets within 300 ms share one here.
resetCostingParameters ==
  /\ sliders' = Default
  /\ timers' = IF routesData # {} THEN timers \cup {"slider", "reset"} ELSE timers
  /\ UNCHANGED <<disabled, requests, made, shown, choice, shade, asked>>

\* The button "Clear Map".  Timers and requests are not cancelled.
ClearMap ==
  /\ clearRoutes
  /\ UNCHANGED <<form, requests, made, choice, shade, asked>>

----------------------------------------------------------------------------
\* annotateRoutesWithShade(), up to its await: it waits for the index of trees unless that
\* is there.  All that wait share one load.
Score(n, generation, autoSelect) ==
  /\ begun' = begun + 1
  /\ scorings' = scorings \cup
       {[no |-> begun + 1, entries |-> n, generation |-> generation, autoSelect |-> autoSelect,
         trees |-> IF shadeTreeIndex THEN "has" ELSE "waits"]}

\* Faulty variant: a route that is replaced stays on the map.
displayRoutesOver(n) ==
  /\ routeLayers' = routeLayers \cup {n}
  /\ chooser' = n
  /\ activeRouteIndex' = 0
  /\ routeGeneration' = routeGeneration + 1
  /\ Score(n, routeGeneration + 1, TRUE)

\* Faulty variant: the generation is counted after the scoring has begun.
displayRoutesLate(n) ==
  /\ routeLayers' = {n}
  /\ chooser' = n
  /\ activeRouteIndex' = 0
  /\ routeGeneration' = routeGeneration + 1
  /\ Score(n, routeGeneration, TRUE)

\* displayRoutes(): the lines drawn before are removed, the first route is selected, and
\* the scoring of the new generation begins.
displayRoutes(n) ==
  /\ routeLayers' = {n}
  /\ chooser' = n
  /\ activeRouteIndex' = 0
  /\ routeGeneration' = routeGeneration + 1
  /\ Score(n, routeGeneration + 1, TRUE)

\* An answer is shown, whatever has been asked since, and the button is enabled, whatever
\* is still awaited.
Show(r) ==
  /\ requests' = requests \ {r}
  /\ routesData' = {r.id}
  /\ displayRoutes(r.id)
  /\ turnAlertQueue' = {r.id}
  /\ disabled' = FALSE
  /\ UNCHANGED <<sliders, timers, made, lastChooserEntries, shadeTreeIndex, scored, asked>>

\* Faulty variant: the button is enabled only after a success.
FailKeepsButton(r) ==
  /\ requests' = requests \ {r}
  /\ UNCHANGED <<form, made, shown, choice, shade, asked>>

\* generateRoutes() ends with an error message.
Fail(r) ==
  /\ requests' = requests \ {r}
  /\ disabled' = FALSE
  /\ UNCHANGED <<sliders, timers, made, shown, choice, shade, asked>>

Go(r, s) ==
  /\ requests' = (requests \ {r}) \cup {s}
  /\ UNCHANGED <<form, made, shown, choice, shade, asked>>

\* A GET that finds no server or takes ten seconds is followed by a POST.
GetFails(r) ==
  /\ r.fetch = "GET"
  /\ Go(r, [r EXCEPT !.fetch = "POST"])

\* The answer holds routes.  A loop is content with them or makes another attempt, and
\* after the last one shows the best it has.
Answered(r) ==
  \/ Show(r)
  \/ /\ r.loop /\ r.attempt < LOOP_MAX_ATTEMPTS
     /\ Go(r, [r EXCEPT !.fetch = "GET", !.attempt = @ + 1, !.best = TRUE])

\* The POST fails too, or the answer is an error or without routes.
Refused(r) ==
  \/ /\ r.loop /\ r.attempt < LOOP_MAX_ATTEMPTS
     /\ Go(r, [r EXCEPT !.fetch = "GET", !.attempt = @ + 1])
  \/ /\ r.loop /\ r.attempt = LOOP_MAX_ATTEMPTS /\ r.best
     /\ Show(r)
  \/ /\ r.loop => r.attempt = LOOP_MAX_ATTEMPTS /\ ~r.best
     /\ Fail(r)

\* The fetch that the call r awaits ends.
FetchEnds(r) == GetFails(r) \/ Answered(r) \/ Refused(r)

----------------------------------------------------------------------------
\* Faulty variant: scores are shown for whatever is on the map by now.
CurrentAlways(a) == TRUE

\* The routes on the map are those that the scoring began with.
Current(a) == a.generation = routeGeneration

\* ensureShadeTreeIndex(): the load ends.  When it fails, the next scoring tries again.
LoadTrees(ok) ==
  /\ \E a \in scorings : a.trees = "waits"
  /\ shadeTreeIndex' = ok
  /\ scorings' = {[a EXCEPT !.trees = IF @ # "waits" THEN @ ELSE IF ok THEN "has" ELSE "none"]
                  : a \in scorings}
  /\ UNCHANGED <<form, requests, made, shown, choice, routeGeneration, begun,
                 lastChooserEntries, scored, asked>>

\* annotateRoutesWithShade() resumes when its trees, weather and buildings have come.
\* Without trees, or when other routes are shown by now, it does nothing.  Else the chooser
\* shows the scores, and the first scoring selects the most shaded route.
ScoringEnds(a) ==
  /\ a.trees # "waits"
  /\ scorings' = scorings \ {a}
  /\ IF a.trees = "has" /\ Current(a)
     THEN /\ scored' = scored \cup {a.entries}
          /\ lastChooserEntries' = a.entries
          /\ chooser' = a.entries
          /\ IF a.autoSelect /\ routeLayers # {}
             THEN activeRouteIndex' \in Routes
             ELSE UNCHANGED activeRouteIndex
     ELSE UNCHANGED <<scored, lastChooserEntries, choice>>
  /\ UNCHANGED <<form, requests, made, shown, routeGeneration, begun, shadeTreeIndex, asked>>

\* Faulty variant: a refresh does not ask whether anything was scored before.
RefreshUnguarded ==
  /\ begun + (MaxRequests - routeGeneration) < MaxScorings
  /\ Score(lastChooserEntries, routeGeneration, FALSE)
  /\ UNCHANGED <<form, requests, made, shown, choice, routeGeneration, lastChooserEntries,
                 shadeTreeIndex, scored, asked>>

\* Every five minutes, and when the tab wakes, the routes scored last are scored again,
\* as of the generation that is shown now.  MaxScorings leaves room for the answers.
Refresh ==
  /\ lastChooserEntries # 0
  /\ begun + (MaxRequests - routeGeneration) < MaxScorings
  /\ Score(lastChooserEntries, routeGeneration, FALSE)
  /\ UNCHANGED <<form, requests, made, shown, choice, routeGeneration, lastChooserEntries,
                 shadeTreeIndex, scored, asked>>

\* selectRoute(), by a click on a line, a card or a row of the chooser.
Click(i) ==
  /\ routeLayers # {}
  /\ activeRouteIndex' = i
  /\ UNCHANGED <<form, requests, made, shown, chooser, shade, asked>>

----------------------------------------------------------------------------
User ==
  \/ PressButton \/ EnterOrSelect
  \/ \E s \in Settings : MoveSlider(s)
  \/ resetCostingParameters \/ ClearMap
  \/ \E i \in Routes : Click(i)

Next ==
  \/ User
  \/ \E t \in timers : TimerFires(t)
  \/ \E r \in requests : FetchEnds(r)
  \/ \E ok \in BOOLEAN : LoadTrees(ok)
  \/ \E a \in scorings : ScoringEnds(a)
  \/ Refresh

\* Every fetch ends, with an answer or without, and so do the loads that a scoring awaits.
\* The user owes nothing.
Fairness ==
  /\ \A n \in Numbers : WF_vars(\E r \in requests : r.id = n /\ FetchEnds(r))
  /\ WF_vars(\E ok \in BOOLEAN : LoadTrees(ok))
  /\ \A n \in 1 .. MaxScorings : WF_vars(\E a \in scorings : a.no = n /\ ScoringEnds(a))

Spec == Init /\ [][Next]_vars /\ Fairness

----------------------------------------------------------------------------
TypeOK ==
  /\ sliders \in Settings
  /\ timers \subseteq {"slider", "reset"}
  /\ disabled \in BOOLEAN
  /\ requests \subseteq Request
  /\ made \in 0 .. MaxRequests
  /\ routesData \subseteq Numbers /\ turnAlertQueue \subseteq Numbers
  /\ routeLayers \subseteq Numbers
  /\ chooser \in 0 .. made
  /\ activeRouteIndex \in Routes
  /\ routeGeneration \in 0 .. made
  /\ scorings \subseteq Scoring
  /\ begun \in 0 .. MaxScorings
  /\ lastChooserEntries \in 0 .. made
  /\ shadeTreeIndex \in BOOLEAN
  /\ scored \subseteq Numbers
  /\ asked \in [Numbers -> Settings]

\* However calls of generateRoutes() overlap, the lines on the map, the routes held and the
\* turn alerts are of one answer, and the button is disabled only while one is awaited.
\* Which answer that is, it does not say: the page shows the one that comes last.
OneAnswerAtATime ==
  /\ routeLayers = routesData /\ turnAlertQueue = routesData
  /\ Cardinality(routesData) <= 1
  /\ disabled => requests # {}

\* The selection changes when an answer is shown, when the user selects, and once when
\* the routes on the map are scored: a refresh, or scores of other routes, never select.
\* The first scores of the routes on the map do, also after the user has clicked one.
SelectionRespected ==
  [][activeRouteIndex' # activeRouteIndex =>
       \/ routeGeneration' = routeGeneration + 1
       \/ \E i \in Routes : Click(i)
       \/ \E a \in scorings \ scorings' : a.autoSelect /\ a.entries \in routeLayers]_vars

\* The button does not stay disabled.
ButtonComesBack == disabled ~> ~disabled

\* Once the trees are loaded, routes on the map get their shade scores or are replaced or
\* cleared, also when other routes and a refresh came in between.
RoutesGetScores ==
  \A n \in Numbers : n \in routeLayers /\ shadeTreeIndex ~> n \in scored \/ n \notin routeLayers

\* "Auto-update routes on slider change": when nothing is under way, the routes on the map
\* were asked for with the sliders as they are.
RoutesFollowSliders ==
  requests = {} /\ timers = {} => \A n \in routesData : asked[n] = sliders

====
