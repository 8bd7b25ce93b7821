-------------------------- MODULE EnvironmentJobProofs --------------------------
(***************************************************************************)
(* Proofs about the environment job, for any number of workers, tiles and  *)
(* runs: workers never meet at a tile, and success means that no tile is   *)
(* left truncated.                                                         *)
(***************************************************************************)
EXTENDS EnvironmentJob, TLAPS

Active == Busy \cup {"check"}

\* Tiles at work have numbers below the counter, each number at most once.
Claims ==
  \A v \in Workers : pc[v] \in Active =>
    /\ index[v] < next_tile
    /\ \A w \in Workers : v # w /\ pc[w] \in Active => index[v] # index[w]

\* Workers run only while the job does, and leave without a failure only at the end of
\* the list.
Leaving ==
  /\ job # "running" => \A w \in Workers : pc[w] = "done"
  /\ job = "running" /\ ~failed => \A w \in Workers : pc[w] = "done" => next_tile >= NTiles

\* While nothing has failed, a truncated tile was lost in this run or is still to be claimed or in a worker's hands.
Covered ==
  job = "running" /\ ~failed =>
    \A t \in broken \ lost : t >= next_tile \/ \E w \in Workers : pc[w] \in Active /\ index[w] = t

\* The inductive invariants.
IInv == TypeOK /\ Claims
JInv == IInv /\ Leaving /\ Covered /\ OkMeansIntact

\* The job is not running at first.
LEMMA InitInv == Init => IInv /\ JInv
<1> SUFFICES ASSUME Init PROVE IInv /\ JInv
  OBVIOUS
<1> USE JobAssumption DEF Init, Active, Busy
<1>1. TypeOK
  <2>1. [i \in Infos |-> <<>>] \in Content
    BY DEF Content
  <2>2. [i \in Infos |-> 0] \in [Infos -> Scores]
    OBVIOUS
  <2> QED  BY <2>1, <2>2 DEF TypeOK
<1>2. Claims /\ Leaving /\ Covered /\ OkMeansIntact
  BY DEF Claims, Leaving, Covered, OkMeansIntact
<1> QED  BY <1>1, <1>2 DEF IInv, JInv

----------------------------------------------------------------------------
\* Each step keeps types and claims.

\* The job starts with a fresh counter.
LEMMA BeginClaims ==
  ASSUME IInv, NEW sc \in [Tiles -> [Infos -> Scores]], Begin(sc)
  PROVE  IInv'
<1> USE JobAssumption DEF Begin, shared, workers, Busy
<1>1. TypeOK'
  <2>1. pc' \in [Workers -> {"claim", "check", "done"} \cup Busy]
    OBVIOUS
  <2>2. ASSUME NEW w \in Workers PROVE pc'[w] \notin Busy \cup {"check"}
    OBVIOUS
  <2>3. score' = sc /\ runs' \in Nat /\ next_tile' \in Nat /\ failed' \in BOOLEAN
    <3>1. runs \in Nat
      BY DEF IInv, TypeOK
    <3>2. runs' = runs + 1 /\ next_tile' = 0 /\ score' = sc
      OBVIOUS
    <3>3. failed' \in BOOLEAN
      BY Zenon
    <3> HIDE DEF Begin
    <3> QED  BY <3>1, <3>2, <3>3
  <2>4. /\ tile' \in [Tiles -> Content] /\ broken' \subseteq Tiles /\ lost' \subseteq Tiles
        /\ index' \in [Workers -> Nat] /\ buf' \in [Workers -> Content]
    BY DEF IInv, TypeOK
  <2>5. job' = "running"
    OBVIOUS
  <2> HIDE DEF Begin
  <2> QED  BY <2>1, <2>2, <2>3, <2>4, <2>5 DEF TypeOK
<1>2. Claims'
  BY DEF IInv, TypeOK, Claims, Active
<1> QED  BY <1>1, <1>2 DEF IInv

\* The job is killed.
LEMMA KillClaims ==
  ASSUME IInv, Kill
  PROVE  IInv'
<1> USE JobAssumption DEF Kill, shared, workers, Busy, Tiles
<1>1. TypeOK'
  BY DEF IInv, TypeOK, Content
<1>2. Claims'
  BY DEF IInv, TypeOK, Claims, Active
<1> QED  BY <1>1, <1>2 DEF IInv

\* A tile is claimed: its number is new to all other workers.
LEMMA ClaimClaims ==
  ASSUME IInv, NEW u \in Workers, Claim(u)
  PROVE  IInv'
<1> USE JobAssumption DEF Claim, shared, workers, Busy, Tiles
<1>1. TypeOK'
  <2>1. pc' \in [Workers -> {"claim", "check", "done"} \cup Busy] /\ index' \in [Workers -> Nat]
    BY DEF IInv, TypeOK
  <2>2. ASSUME NEW w \in Workers, pc'[w] \in Busy \cup {"check"} PROVE index'[w] \in Tiles
    BY <2>2 DEF IInv, TypeOK
  <2> QED  BY <2>1, <2>2 DEF IInv, TypeOK
<1>2. Claims'
  BY DEF IInv, TypeOK, Claims, Active
<1> QED  BY <1>1, <1>2 DEF IInv

\* The failure flag is looked at.
LEMMA CheckClaims ==
  ASSUME IInv, NEW u \in Workers, Check(u)
  PROVE  IInv'
<1> USE JobAssumption DEF Check, shared, workers, Busy, Tiles
<1>1. TypeOK'
  BY DEF IInv, TypeOK, Content
<1>2. Claims'
  BY DEF IInv, TypeOK, Claims, Active
<1> QED  BY <1>1, <1>2 DEF IInv

\* A tile is left alone only if it is intact.
LEMMA ReadClaims ==
  ASSUME IInv, NEW u \in Workers, Read(u)
  PROVE  IInv'
<1> USE JobAssumption DEF Read, Fail, shared, workers, Busy, Tiles
<1>1. TypeOK'
  BY DEF IInv, TypeOK, Content
<1>2. Claims'
  BY DEF IInv, TypeOK, Claims, Active
<1> QED  BY <1>1, <1>2 DEF IInv

\* A tile is read into a builder.
LEMMA BuildClaims ==
  ASSUME IInv, NEW u \in Workers, Build(u)
  PROVE  IInv'
<1> USE JobAssumption DEF Build, Fail, shared, workers, Busy, Tiles
<1>1. TypeOK'
  <2>1. CASE index[u] \in broken
    BY <2>1 DEF IInv, TypeOK
  <2>2. CASE index[u] \notin broken
    <3> DEFINE t == index[u]
    <3>1. PICK b \in [Infos -> UNION {Tagged(tile[t][i], score[t][i]) : i \in Infos}] :
            /\ \A i \in Infos : b[i] \in Tagged(tile[t][i], score[t][i])
            /\ buf' = [buf EXCEPT ![u] = b]
      BY <2>2
    <3>2. t \in Tiles
      BY DEF IInv, TypeOK
    <3>3. b \in Content
      <4>1. ASSUME NEW i \in Infos PROVE b[i] \in Seq(Scores \ {0})
        <5>1. tile[t][i] \in Seq(Scores \ {0}) /\ score[t][i] \in Scores
          <6>1. tile \in [Tiles -> Content] /\ score \in [Tiles -> [Infos -> Scores]]
            BY DEF IInv, TypeOK
          <6>2. tile[t] \in Content /\ score[t] \in [Infos -> Scores]
            BY <3>2, <6>1, Zenon
          <6> QED  BY <6>2, Zenon DEF Content
        <5>2. score[t][i] # 0 =>
                Append(tile[t][i], score[t][i]) \in Seq(Scores \ {0})
          BY <5>1
        <5>3. b[i] \in {tile[t][i], Append(tile[t][i], score[t][i])}
              /\ (score[t][i] = 0 => b[i] = tile[t][i])
          <6>1. b[i] \in Tagged(tile[t][i], score[t][i])
            BY <3>1
          <6> HIDE DEF t
          <6> QED  BY <6>1, Zenon DEF Tagged
        <5> HIDE DEF t
        <5> QED  BY <5>1, <5>2, <5>3
      <4>2. b = [i \in Infos |-> b[i]]
        OBVIOUS
      <4> HIDE DEF t
      <4> QED  BY <4>1, <4>2 DEF Content
    <3>4. buf' \in [Workers -> Content]
      BY <3>1, <3>3 DEF IInv, TypeOK
    <3> QED  BY <2>2, <3>2, <3>4 DEF IInv, TypeOK
  <2> QED  BY <2>1, <2>2
<1>2. Claims'
  BY DEF IInv, TypeOK, Claims, Active
<1> QED  BY <1>1, <1>2 DEF IInv

\* A tile is truncated by the worker that claimed it.
LEMMA OpenClaims ==
  ASSUME IInv, NEW u \in Workers, Open(u)
  PROVE  IInv'
<1> USE JobAssumption DEF Open, shared, workers, Busy, Tiles
<1>1. TypeOK'
  BY DEF IInv, TypeOK, Content
<1>2. Claims'
  BY DEF IInv, TypeOK, Claims, Active
<1> QED  BY <1>1, <1>2 DEF IInv

\* A tile cannot be opened.
LEMMA OpenFailsClaims ==
  ASSUME IInv, NEW u \in Workers, OpenFails(u)
  PROVE  IInv'
<1> USE JobAssumption DEF OpenFails, Fail, shared, workers, Busy, Tiles
<1>1. TypeOK'
  BY DEF IInv, TypeOK, Content
<1>2. Claims'
  BY DEF IInv, TypeOK, Claims, Active
<1> QED  BY <1>1, <1>2 DEF IInv

\* A tile is written.
LEMMA WriteClaims ==
  ASSUME IInv, NEW u \in Workers, Write(u)
  PROVE  IInv'
<1> USE JobAssumption DEF Write, shared, workers, Busy, Tiles
<1>1. TypeOK'
  BY DEF IInv, TypeOK, Content
<1>2. Claims'
  BY DEF IInv, TypeOK, Claims, Active
<1> QED  BY <1>1, <1>2 DEF IInv

\* A write fails unnoticed.
LEMMA WriteFailsClaims ==
  ASSUME IInv, NEW u \in Workers, WriteFails(u)
  PROVE  IInv'
<1> USE JobAssumption DEF WriteFails, shared, workers, Busy, Tiles
<1>1. TypeOK'
  BY DEF IInv, TypeOK, Content
<1>2. Claims'
  BY DEF IInv, TypeOK, Claims, Active
<1> QED  BY <1>1, <1>2 DEF IInv

\* The threads are joined.
LEMMA JoinClaims ==
  ASSUME IInv, Join
  PROVE  IInv'
<1> USE JobAssumption DEF Join, shared, workers, Busy, Tiles
<1>1. TypeOK'
  BY DEF IInv, TypeOK, Content
<1>2. Claims'
  BY DEF IInv, TypeOK, Claims, Active
<1> QED  BY <1>1, <1>2 DEF IInv

\* Any step does.
LEMMA NextClaims ==
  ASSUME IInv, [Next]_vars
  PROVE  IInv'
<1>1. CASE UNCHANGED vars
  BY <1>1 DEF vars, shared, workers, IInv, TypeOK, Claims
<1>2. CASE Next
  BY <1>2, BeginClaims, KillClaims, ClaimClaims, CheckClaims, ReadClaims, BuildClaims, OpenClaims, OpenFailsClaims, WriteClaims, WriteFailsClaims, JoinClaims DEF Next, Worker
<1> QED  BY <1>1, <1>2

----------------------------------------------------------------------------
\* Each step keeps truncated tiles in view.

\* The job starts with a fresh counter.
LEMMA BeginCovered ==
  ASSUME JInv, NEW sc \in [Tiles -> [Infos -> Scores]], Begin(sc)
  PROVE  Leaving' /\ Covered' /\ OkMeansIntact'
<1> USE JobAssumption DEF Begin, shared, workers, Busy, Tiles, Active, JInv, IInv
<1>1. Leaving'
  BY DEF TypeOK, Leaving
<1>2. Covered'
  BY DEF TypeOK, Claims, Leaving, Covered
<1>3. OkMeansIntact'
  BY DEF TypeOK, Leaving, Covered, OkMeansIntact
<1> QED  BY <1>1, <1>2, <1>3

\* The job is killed.
LEMMA KillCovered ==
  ASSUME JInv, Kill
  PROVE  Leaving' /\ Covered' /\ OkMeansIntact'
<1> USE JobAssumption DEF Kill, shared, workers, Busy, Tiles, Active, JInv, IInv
<1>1. Leaving'
  BY DEF TypeOK, Leaving
<1>2. Covered'
  BY DEF TypeOK, Claims, Leaving, Covered
<1>3. OkMeansIntact'
  BY DEF TypeOK, Leaving, Covered, OkMeansIntact
<1> QED  BY <1>1, <1>2, <1>3

\* A tile is claimed: its number is new to all other workers.
LEMMA ClaimCovered ==
  ASSUME JInv, NEW u \in Workers, Claim(u)
  PROVE  Leaving' /\ Covered' /\ OkMeansIntact'
<1> USE JobAssumption DEF Claim, shared, workers, Busy, Tiles, Active, JInv, IInv
<1>1. Leaving'
  BY DEF TypeOK, Leaving
<1>2. Covered'
  <2> SUFFICES ASSUME job' = "running", ~failed', NEW t \in (broken \ lost)'
               PROVE  t >= next_tile' \/ \E w \in Workers : pc'[w] \in Active /\ index'[w] = t
    BY DEF Covered
  <2>1. t \in Nat /\ t < NTiles /\ next_tile \in Nat
    BY DEF TypeOK
  <2>2. CASE t >= next_tile + 1
    BY <2>2
  <2>3. CASE t = next_tile
    BY <2>1, <2>3 DEF TypeOK
  <2>4. CASE t < next_tile
    <3>1. PICK w \in Workers : pc[w] \in Active /\ index[w] = t
      BY <2>1, <2>4 DEF Covered
    <3>2. w # u
      BY <3>1
    <3> QED  BY <3>1, <3>2 DEF TypeOK
  <2> QED  BY <2>1, <2>2, <2>3, <2>4
<1>3. OkMeansIntact'
  BY DEF TypeOK, Leaving, Covered, OkMeansIntact
<1> QED  BY <1>1, <1>2, <1>3

\* The failure flag is looked at.
LEMMA CheckCovered ==
  ASSUME JInv, NEW u \in Workers, Check(u)
  PROVE  Leaving' /\ Covered' /\ OkMeansIntact'
<1> USE JobAssumption DEF Check, shared, workers, Busy, Tiles, Active, JInv, IInv
<1>1. Leaving'
  BY DEF TypeOK, Leaving
<1>2. Covered'
  BY DEF TypeOK, Claims, Leaving, Covered
<1>3. OkMeansIntact'
  BY DEF TypeOK, Leaving, Covered, OkMeansIntact
<1> QED  BY <1>1, <1>2, <1>3

\* A tile is left alone only if it is intact.
LEMMA ReadCovered ==
  ASSUME JInv, NEW u \in Workers, Read(u)
  PROVE  Leaving' /\ Covered' /\ OkMeansIntact'
<1> USE JobAssumption DEF Read, Fail, shared, workers, Busy, Tiles, Active, JInv, IInv
<1>1. Leaving'
  BY DEF TypeOK, Leaving
<1>2. Covered'
  <2> SUFFICES ASSUME job' = "running", ~failed', NEW t \in (broken \ lost)', t < next_tile'
               PROVE  \E w \in Workers : pc'[w] \in Active /\ index'[w] = t
    BY DEF TypeOK, Covered
  <2>1. ~failed /\ index[u] \notin broken
    OBVIOUS
  <2>2. PICK w \in Workers : pc[w] \in Active /\ index[w] = t
    BY <2>1 DEF TypeOK, Covered
  <2>3. w # u
    BY <2>1, <2>2
  <2> QED  BY <2>1, <2>2, <2>3 DEF TypeOK
<1>3. OkMeansIntact'
  BY DEF TypeOK, Leaving, Covered, OkMeansIntact
<1> QED  BY <1>1, <1>2, <1>3

\* A tile is read into a builder.
LEMMA BuildCovered ==
  ASSUME JInv, NEW u \in Workers, Build(u)
  PROVE  Leaving' /\ Covered' /\ OkMeansIntact'
<1> USE JobAssumption DEF Build, Fail, shared, workers, Busy, Tiles, Active, JInv, IInv
<1>1. Leaving'
  BY DEF TypeOK, Leaving
<1>2. Covered'
  BY DEF TypeOK, Claims, Leaving, Covered
<1>3. OkMeansIntact'
  BY DEF TypeOK, Leaving, Covered, OkMeansIntact
<1> QED  BY <1>1, <1>2, <1>3

\* A tile is truncated by the worker that claimed it.
LEMMA OpenCovered ==
  ASSUME JInv, NEW u \in Workers, Open(u)
  PROVE  Leaving' /\ Covered' /\ OkMeansIntact'
<1> USE JobAssumption DEF Open, shared, workers, Busy, Tiles, Active, JInv, IInv
<1>1. Leaving'
  BY DEF TypeOK, Leaving
<1>2. Covered'
  BY DEF TypeOK, Claims, Leaving, Covered
<1>3. OkMeansIntact'
  BY DEF TypeOK, Leaving, Covered, OkMeansIntact
<1> QED  BY <1>1, <1>2, <1>3

\* A tile cannot be opened.
LEMMA OpenFailsCovered ==
  ASSUME JInv, NEW u \in Workers, OpenFails(u)
  PROVE  Leaving' /\ Covered' /\ OkMeansIntact'
<1> USE JobAssumption DEF OpenFails, Fail, shared, workers, Busy, Tiles, Active, JInv, IInv
<1>1. Leaving'
  BY DEF TypeOK, Leaving
<1>2. Covered'
  BY DEF TypeOK, Claims, Leaving, Covered
<1>3. OkMeansIntact'
  BY DEF TypeOK, Leaving, Covered, OkMeansIntact
<1> QED  BY <1>1, <1>2, <1>3

\* A tile is written.
LEMMA WriteCovered ==
  ASSUME JInv, NEW u \in Workers, Write(u)
  PROVE  Leaving' /\ Covered' /\ OkMeansIntact'
<1> USE JobAssumption DEF Write, shared, workers, Busy, Tiles, Active, JInv, IInv
<1>1. Leaving'
  BY DEF TypeOK, Leaving
<1>2. Covered'
  BY DEF TypeOK, Claims, Leaving, Covered
<1>3. OkMeansIntact'
  BY DEF TypeOK, Leaving, Covered, OkMeansIntact
<1> QED  BY <1>1, <1>2, <1>3

\* A write fails unnoticed.
LEMMA WriteFailsCovered ==
  ASSUME JInv, NEW u \in Workers, WriteFails(u)
  PROVE  Leaving' /\ Covered' /\ OkMeansIntact'
<1> USE JobAssumption DEF WriteFails, shared, workers, Busy, Tiles, Active, JInv, IInv
<1>1. Leaving'
  BY DEF TypeOK, Leaving
<1>2. Covered'
  BY DEF TypeOK, Claims, Leaving, Covered
<1>3. OkMeansIntact'
  BY DEF TypeOK, Leaving, Covered, OkMeansIntact
<1> QED  BY <1>1, <1>2, <1>3

\* The threads are joined.
LEMMA JoinCovered ==
  ASSUME JInv, Join
  PROVE  Leaving' /\ Covered' /\ OkMeansIntact'
<1> USE JobAssumption DEF Join, shared, workers, Busy, Tiles, Active, JInv, IInv
<1>1. Leaving'
  BY DEF TypeOK, Leaving
<1>2. Covered'
  BY DEF TypeOK, Claims, Leaving, Covered
<1>3. OkMeansIntact'
  <2> SUFFICES ASSUME ~failed, NEW t \in broken, t \notin lost PROVE FALSE
    BY DEF OkMeansIntact
  <2>1. next_tile >= NTiles /\ t < NTiles /\ next_tile \in Nat /\ t \in Nat
    BY DEF TypeOK, Leaving
  <2>2. \E w \in Workers : pc[w] \in Active
    BY <2>1 DEF Covered
  <2> QED  BY <2>2
<1> QED  BY <1>1, <1>2, <1>3

\* Any step does.
LEMMA NextCovered ==
  ASSUME JInv, [Next]_vars
  PROVE  JInv'
<1>1. IInv'
  BY NextClaims DEF JInv
<1>2. CASE UNCHANGED vars
  BY <1>1, <1>2 DEF vars, shared, workers, JInv, Leaving, Covered, OkMeansIntact
<1>3. CASE Next
  BY <1>1, <1>3, BeginCovered, KillCovered, ClaimCovered, CheckCovered, ReadCovered,
     BuildCovered, OpenCovered, OpenFailsCovered, WriteCovered, WriteFailsCovered, JoinCovered
  DEF Next, Worker, JInv
<1> QED  BY <1>2, <1>3

----------------------------------------------------------------------------
\* Each step keeps the scores of finished tiles.

\* An edge info with these values under the tag holds the score, or is full.
Holds(tags, s) == s # 0 => (\E k \in DOMAIN tags : tags[k] = s) \/ Len(tags) >= MaxTags

\* Every edge info of the tile holds its score.
Finished(t) == \A i \in Infos : Holds(tile[t][i], score[t][i])

\* While nothing has failed, a tile is finished, lost, still to be claimed or in a
\* worker's hands, and what a worker is about to write holds the scores.
Tagging ==
  /\ job = "running" /\ ~failed =>
       \A t \in Tiles \ lost :
         \/ t >= next_tile
         \/ \E w \in Workers : pc[w] \in Active /\ index[w] = t
         \/ Finished(t)
  /\ \A w \in Workers : pc[w] \in {"open", "write"} =>
       \A i \in Infos : Holds(buf[w][i], score[index[w]][i])
  /\ job = "ok" => \A t \in Tiles \ lost : Finished(t)

KInv == JInv /\ Tagging

\* AddTaggedValues() leaves the edge info with the value or full.
LEMMA TaggedHolds ==
  ASSUME NEW tags \in Seq(Scores \ {0}), NEW s \in Scores, NEW b \in Tagged(tags, s)
  PROVE  Holds(b, s)
<1>1. CASE s = 0 \/ Len(tags) >= MaxTags
  BY <1>1 DEF Tagged, Holds
<1>2. CASE s # 0 /\ b = tags /\ \E k \in DOMAIN tags : tags[k] = s
  BY <1>2 DEF Holds
<1>3. CASE s # 0 /\ b = Append(tags, s)
  <2>1. Append(tags, s) \in Seq(Scores \ {0}) /\ Len(Append(tags, s)) = Len(tags) + 1
        /\ Append(tags, s)[Len(tags) + 1] = s /\ Len(tags) \in Nat
    BY <1>3
  <2>2. Len(tags) + 1 \in DOMAIN Append(tags, s)
    BY <2>1
  <2> QED  BY <1>3, <2>1, <2>2 DEF Holds
<1> QED  BY <1>1, <1>2, <1>3, Zenon DEF Tagged

\* No tile is finished at first, and nothing is reported.
LEMMA InitTagging == Init => Tagging
<1> SUFFICES ASSUME Init PROVE Tagging
  OBVIOUS
<1>1. job = "idle" /\ \A w \in Workers : pc[w] = "done"
  BY DEF Init
<1>2. job # "running" /\ job # "ok" /\ \A w \in Workers : pc[w] \notin {"open", "write"}
  BY <1>1
<1> QED  BY <1>2, Zenon DEF Tagging

\* A killed job reports nothing.
LEMMA KillTagging ==
  ASSUME KInv, Kill
  PROVE  Tagging'
<1> USE JobAssumption DEF Kill, Fail, shared, workers, Busy, Active, KInv, JInv, IInv
<1>1. job' = "running" /\ ~failed' =>
        \A t \in Tiles \ lost' :
          \/ t >= next_tile'
          \/ \E w \in Workers : pc'[w] \in Active /\ index'[w] = t
          \/ Finished(t)'
  BY DEF TypeOK, Tiles, Tagging, Finished, Holds
<1>2. ASSUME NEW w \in Workers, pc'[w] \in {"open", "write"}, NEW i \in Infos
      PROVE  Holds(buf[w][i], score[index[w]][i])' 
  BY <1>2 DEF TypeOK, Tagging, Holds
<1>3. job' = "ok" => \A t \in Tiles \ lost' : Finished(t)'
  BY DEF TypeOK, Tagging, Leaving, Finished, Holds
<1> QED  BY <1>1, <1>2, <1>3 DEF Tagging

\* A claimed tile is in a worker's hands.
LEMMA ClaimTagging ==
  ASSUME KInv, NEW u \in Workers, Claim(u)
  PROVE  Tagging'
<1> USE JobAssumption DEF Claim, Fail, shared, workers, Busy, Active, KInv, JInv, IInv
<1>1. job' = "running" /\ ~failed' =>
        \A t \in Tiles \ lost' :
          \/ t >= next_tile'
          \/ \E w \in Workers : pc'[w] \in Active /\ index'[w] = t
          \/ Finished(t)'
  <2> SUFFICES ASSUME job' = "running", ~failed', NEW t \in Tiles \ lost'
               PROVE  \/ t >= next_tile'
                      \/ \E w \in Workers : pc'[w] \in Active /\ index'[w] = t
                      \/ Finished(t)'
    OBVIOUS
  <2>1. t \in Nat /\ t < NTiles /\ next_tile \in Nat
    BY DEF TypeOK, Tiles
  <2>2. Finished(t) => Finished(t)'
    BY DEF Finished
  <2>3. CASE t >= next_tile + 1
    BY <2>3
  <2>4. CASE t = next_tile
    BY <2>1, <2>4 DEF TypeOK
  <2>5. CASE t < next_tile
    <3>1. (\E w \in Workers : pc[w] \in Active /\ index[w] = t) \/ Finished(t)
      BY <2>1, <2>5 DEF Tagging
    <3>2. ASSUME NEW w \in Workers, pc[w] \in Active, index[w] = t
          PROVE  pc'[w] \in Active /\ index'[w] = t
      BY <3>2 DEF TypeOK
    <3> QED  BY <2>2, <3>1, <3>2
  <2> QED  BY <2>1, <2>3, <2>4, <2>5
<1>2. ASSUME NEW w \in Workers, pc'[w] \in {"open", "write"}, NEW i \in Infos
      PROVE  Holds(buf[w][i], score[index[w]][i])' 
  BY <1>2 DEF TypeOK, Tagging, Holds
<1>3. job' = "ok" => \A t \in Tiles \ lost' : Finished(t)'
  BY DEF TypeOK, Tagging, Leaving, Finished, Holds
<1> QED  BY <1>1, <1>2, <1>3 DEF Tagging

\* A worker that leaves knows of a failure.
LEMMA CheckTagging ==
  ASSUME KInv, NEW u \in Workers, Check(u)
  PROVE  Tagging'
<1> USE JobAssumption DEF Check, Fail, shared, workers, Busy, Active, KInv, JInv, IInv
<1>1. job' = "running" /\ ~failed' =>
        \A t \in Tiles \ lost' :
          \/ t >= next_tile'
          \/ \E w \in Workers : pc'[w] \in Active /\ index'[w] = t
          \/ Finished(t)'
  BY DEF TypeOK, Tiles, Tagging, Finished, Holds
<1>2. ASSUME NEW w \in Workers, pc'[w] \in {"open", "write"}, NEW i \in Infos
      PROVE  Holds(buf[w][i], score[index[w]][i])' 
  BY <1>2 DEF TypeOK, Tagging, Holds
<1>3. job' = "ok" => \A t \in Tiles \ lost' : Finished(t)'
  BY DEF TypeOK, Tagging, Leaving, Finished, Holds
<1> QED  BY <1>1, <1>2, <1>3 DEF Tagging

\* A tile is left alone only if it has no scores.
LEMMA ReadTagging ==
  ASSUME KInv, NEW u \in Workers, Read(u)
  PROVE  Tagging'
<1> USE JobAssumption DEF Read, Fail, shared, workers, Busy, Active, KInv, JInv, IInv
<1>1. job' = "running" /\ ~failed' =>
        \A t \in Tiles \ lost' :
          \/ t >= next_tile'
          \/ \E w \in Workers : pc'[w] \in Active /\ index'[w] = t
          \/ Finished(t)'
  BY DEF TypeOK, Tiles, Tagging, Finished, Holds
<1>2. ASSUME NEW w \in Workers, pc'[w] \in {"open", "write"}, NEW i \in Infos
      PROVE  Holds(buf[w][i], score[index[w]][i])' 
  BY <1>2 DEF TypeOK, Tagging, Holds
<1>3. job' = "ok" => \A t \in Tiles \ lost' : Finished(t)'
  BY DEF TypeOK, Tagging, Leaving, Finished, Holds
<1> QED  BY <1>1, <1>2, <1>3 DEF Tagging

\* The file is truncated, the builder is not touched.
LEMMA OpenTagging ==
  ASSUME KInv, NEW u \in Workers, Open(u)
  PROVE  Tagging'
<1> USE JobAssumption DEF Open, Fail, shared, workers, Busy, Active, KInv, JInv, IInv
<1>1. job' = "running" /\ ~failed' =>
        \A t \in Tiles \ lost' :
          \/ t >= next_tile'
          \/ \E w \in Workers : pc'[w] \in Active /\ index'[w] = t
          \/ Finished(t)'
  BY DEF TypeOK, Tiles, Tagging, Finished, Holds
<1>2. ASSUME NEW w \in Workers, pc'[w] \in {"open", "write"}, NEW i \in Infos
      PROVE  Holds(buf[w][i], score[index[w]][i])' 
  BY <1>2 DEF TypeOK, Tagging, Holds
<1>3. job' = "ok" => \A t \in Tiles \ lost' : Finished(t)'
  BY DEF TypeOK, Tagging, Leaving, Finished, Holds
<1> QED  BY <1>1, <1>2, <1>3 DEF Tagging

\* A tile that cannot be opened is a failure.
LEMMA OpenFailsTagging ==
  ASSUME KInv, NEW u \in Workers, OpenFails(u)
  PROVE  Tagging'
<1> USE JobAssumption DEF OpenFails, Fail, shared, workers, Busy, Active, KInv, JInv, IInv
<1>1. job' = "running" /\ ~failed' =>
        \A t \in Tiles \ lost' :
          \/ t >= next_tile'
          \/ \E w \in Workers : pc'[w] \in Active /\ index'[w] = t
          \/ Finished(t)'
  BY DEF TypeOK, Tiles, Tagging, Finished, Holds
<1>2. ASSUME NEW w \in Workers, pc'[w] \in {"open", "write"}, NEW i \in Infos
      PROVE  Holds(buf[w][i], score[index[w]][i])' 
  BY <1>2 DEF TypeOK, Tagging, Holds
<1>3. job' = "ok" => \A t \in Tiles \ lost' : Finished(t)'
  BY DEF TypeOK, Tagging, Leaving, Finished, Holds
<1> QED  BY <1>1, <1>2, <1>3 DEF Tagging

\* A write that failed unnoticed is in the history.
LEMMA WriteFailsTagging ==
  ASSUME KInv, NEW u \in Workers, WriteFails(u)
  PROVE  Tagging'
<1> USE JobAssumption DEF WriteFails, Fail, shared, workers, Busy, Active, KInv, JInv, IInv
<1>1. job' = "running" /\ ~failed' =>
        \A t \in Tiles \ lost' :
          \/ t >= next_tile'
          \/ \E w \in Workers : pc'[w] \in Active /\ index'[w] = t
          \/ Finished(t)'
  BY DEF TypeOK, Tiles, Tagging, Finished, Holds
<1>2. ASSUME NEW w \in Workers, pc'[w] \in {"open", "write"}, NEW i \in Infos
      PROVE  Holds(buf[w][i], score[index[w]][i])' 
  BY <1>2 DEF TypeOK, Tagging, Holds
<1>3. job' = "ok" => \A t \in Tiles \ lost' : Finished(t)'
  BY DEF TypeOK, Tagging, Leaving, Finished, Holds
<1> QED  BY <1>1, <1>2, <1>3 DEF Tagging

\* All tiles are still to be claimed.
LEMMA BeginTagging ==
  ASSUME KInv, NEW sc \in [Tiles -> [Infos -> Scores]], Begin(sc)
  PROVE  Tagging'
  BY JobAssumption DEF Begin, Tiles, Tagging

\* What is built holds the scores.
LEMMA BuildTagging ==
  ASSUME KInv, NEW u \in Workers, Build(u)
  PROVE  Tagging'
<1> USE JobAssumption DEF Build, Fail, shared, workers, Busy, Active, KInv, JInv, IInv
<1>1. job' = "running" /\ ~failed' =>
        \A t \in Tiles \ lost' :
          \/ t >= next_tile'
          \/ \E w \in Workers : pc'[w] \in Active /\ index'[w] = t
          \/ Finished(t)'
  BY DEF TypeOK, Tiles, Tagging, Finished, Holds
<1>2. ASSUME NEW w \in Workers, pc'[w] \in {"open", "write"}, NEW i \in Infos
      PROVE  Holds(buf[w][i], score[index[w]][i])'
  <2>1. CASE w # u
    BY <1>2, <2>1 DEF TypeOK, Tagging, Holds
  <2>2. CASE w = u
    <3> DEFINE t == index[u]
    <3>1. t \notin broken
      BY <1>2, <2>2 DEF TypeOK
    <3>2. PICK b \in [Infos -> UNION {Tagged(tile[t][j], score[t][j]) : j \in Infos}] :
            /\ \A j \in Infos : b[j] \in Tagged(tile[t][j], score[t][j])
            /\ buf' = [buf EXCEPT ![u] = b]
      BY <3>1
    <3>3. t \in Tiles /\ tile \in [Tiles -> Content] /\ score \in [Tiles -> [Infos -> Scores]]
      BY DEF TypeOK
    <3>4. tile[t][i] \in Seq(Scores \ {0}) /\ score[t][i] \in Scores
      <4>1. tile[t] \in Content /\ score[t] \in [Infos -> Scores]
        BY <3>3, Zenon
      <4> QED  BY <4>1, Zenon DEF Content
    <3>5. Holds(b[i], score[t][i])
      BY <3>2, <3>4, TaggedHolds
    <3>6. buf'[u] = b /\ index' = index /\ score' = score
      BY <3>2 DEF TypeOK
    <3> QED  BY <2>2, <3>5, <3>6
  <2> QED  BY <2>1, <2>2
<1>3. job' = "ok" => \A t \in Tiles \ lost' : Finished(t)'
  BY DEF TypeOK, Tagging, Finished, Holds
<1> QED  BY <1>1, <1>2, <1>3 DEF Tagging

\* A tile that is written is finished, and no other is changed.
LEMMA WriteTagging ==
  ASSUME KInv, NEW u \in Workers, Write(u)
  PROVE  Tagging'
<1> USE JobAssumption DEF Write, shared, workers, Busy, Active, KInv, JInv, IInv
<1>1. ASSUME job' = "running" /\ ~failed', NEW t \in Tiles \ lost'
      PROVE  \/ t >= next_tile'
             \/ \E w \in Workers : pc'[w] \in Active /\ index'[w] = t
             \/ Finished(t)'
  <2>1. CASE t = index[u]
    <3>1. tile'[t] = buf[u] /\ score' = score
      BY <2>1 DEF TypeOK
    <3>2. \A i \in Infos : Holds(buf[u][i], score[index[u]][i])
      BY DEF Tagging
    <3> QED  BY <2>1, <3>1, <3>2 DEF Finished
  <2>2. CASE t # index[u]
    <3>1. tile'[t] = tile[t] /\ score' = score
      BY <2>2 DEF TypeOK
    <3>2. Finished(t) => Finished(t)'
      BY <3>1 DEF Finished
    <3> QED  BY <1>1, <2>2, <3>2 DEF TypeOK, Tagging
  <2> QED  BY <2>1, <2>2
<1>2. ASSUME NEW w \in Workers, pc'[w] \in {"open", "write"}, NEW i \in Infos
      PROVE  Holds(buf[w][i], score[index[w]][i])'
  BY <1>2 DEF TypeOK, Tagging, Holds
<1>3. job' # "ok"
  BY DEF Leaving
<1> QED  BY <1>1, <1>2, <1>3 DEF Tagging

\* When all workers have left without a failure, no tile is unclaimed or in hand.
LEMMA JoinTagging ==
  ASSUME KInv, Join
  PROVE  Tagging'
<1> USE JobAssumption DEF Join, shared, workers, Busy, Active, KInv, JInv, IInv
<1>1. job' # "running" /\ \A w \in Workers : pc'[w] = "done"
  OBVIOUS
<1>2. ASSUME job' = "ok", NEW t \in Tiles \ lost' PROVE Finished(t)'
  <2>1. ~failed /\ job = "running"
    BY <1>2
  <2>2. t < next_tile /\ ~(t >= next_tile)
    BY <2>1 DEF TypeOK, Leaving, Tiles
  <2>3. Finished(t)
    BY <2>1, <2>2 DEF Tagging
  <2> QED  BY <2>3 DEF Finished
<1> QED  BY <1>1, <1>2 DEF Tagging

\* Any step does.
LEMMA NextTagging ==
  ASSUME KInv, [Next]_vars
  PROVE  KInv'
<1>1. JInv'
  BY NextCovered DEF KInv
<1>2. CASE UNCHANGED vars
  BY <1>1, <1>2 DEF vars, shared, workers, KInv, Tagging, Finished, Holds
<1>3. CASE Next
  BY <1>1, <1>3, BeginTagging, KillTagging, ClaimTagging, CheckTagging, ReadTagging,
     BuildTagging, OpenTagging, OpenFailsTagging, WriteTagging, WriteFailsTagging, JoinTagging
  DEF Next, Worker, KInv
<1> QED  BY <1>2, <1>3

----------------------------------------------------------------------------
\* Type correctness of the job.
THEOREM TypeCorrect == Spec => []TypeOK
<1>1. IInv => TypeOK
  BY DEF IInv
<1> QED  BY <1>1, InitInv, NextClaims, PTL DEF Spec

\* The counter of AddEnvironment() keeps any number of workers apart.
THEOREM NoTwoWorkers == Spec => []OneWorkerPerTile
<1>1. IInv => OneWorkerPerTile
  BY DEF IInv, Claims, OneWorkerPerTile, Active
<1> QED  BY <1>1, InitInv, NextClaims, PTL DEF Spec

\* AddEnvironment() returns true only over intact tiles, except for writes that failed
\* unnoticed in this run: truncated tiles of killed and of earlier runs make it fail.
THEOREM SuccessMeansIntact == Spec => []OkMeansIntact
<1>1. JInv => OkMeansIntact
  BY DEF JInv
<1>2. JInv /\ [Next]_vars => JInv'
  BY NextCovered
<1> QED  BY <1>1, <1>2, InitInv, PTL DEF Spec

\* AddEnvironment() returns true only over tiles in which every edge info with a score
\* holds it or is full, except for writes that failed unnoticed in this run.
THEOREM SuccessMeansTagged == Spec => []OkMeansTagged
<1>1. KInv => OkMeansTagged
  BY DEF KInv, Tagging, Finished, Holds, OkMeansTagged
<1>2. Init => KInv
  BY InitInv, InitTagging DEF KInv
<1>3. KInv /\ [Next]_vars => KInv'
  BY NextTagging
<1> QED  BY <1>1, <1>2, <1>3, PTL DEF Spec

====
