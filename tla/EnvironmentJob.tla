----------------------------- MODULE EnvironmentJob -----------------------------
(***************************************************************************)
(* valhalla_add_environment: AddEnvironment() in                           *)
(* src/src/mjolnir/environment.cc, with EdgeInfo::environment(), the       *)
(* reader of what it writes, in src/src/baldr/edgeinfo.cc.                 *)
(*                                                                         *)
(* Worker threads claim tiles from a shared counter, score the edge infos  *)
(* of a tile against the region's layers, and rewrite the tile in place    *)
(* with the scores as a tagged value.  The job may be killed at any time   *)
(* and is run again, on the same tiles, when the manifest changes.         *)
(*                                                                         *)
(* Abstractions.  Tiles are numbered in the order of the job's list.  A    *)
(* tile is what its edge infos hold under the environment tag, oldest      *)
(* first; it is broken while its file is shorter than its header says.     *)
(* The scores that the layers give an edge info are one number, 0 when all *)
(* of them are zero.  How a tile is rewritten is the subject of            *)
(* GraphTileBuilder.                                                       *)
(***************************************************************************)
EXTENDS Integers, Sequences, FiniteSets

CONSTANTS
  Workers,      \* worker threads
  NTiles,       \* tiles in the tile set
  Infos,        \* edge infos of a tile
  Scores,       \* scores an edge info can get, 0 among them
  MaxTags,      \* room for environment values in an edge info
  MaxRuns       \* bound on the runs of the job

ASSUME JobAssumption ==
  /\ Workers # {}
  /\ NTiles \in Nat
  /\ Infos # {}
  /\ Scores \subseteq Nat /\ 0 \in Scores
  /\ MaxTags \in Nat
  /\ MaxRuns \in Nat

VARIABLES
  tile,       \* the tile files
  broken,     \* tiles whose file is truncated
  lost,       \* history: tiles whose write failed unnoticed in this run of the job
  score,      \* what the manifest's layers give each edge info
  job,        \* "idle", "running", "ok", "failed" or "killed"
  runs,
  next_tile, failed,  \* the atomics the workers share
  pc, index,  \* per worker: where it is, and the tile it claimed
  buf         \* per worker: the tile in its builder

shared  == <<next_tile, failed>>
workers == <<pc, index, buf>>
vars    == <<tile, broken, lost, score, job, runs, shared, workers>>

Tiles   == 0 .. NTiles - 1
Content == [Infos -> Seq(Scores \ {0})]
Busy    == {"read", "build", "open", "write"}

Init ==
  /\ tile = [t \in Tiles |-> [i \in Infos |-> <<>>]]
  /\ broken = {} /\ lost = {}
  /\ score = [t \in Tiles |-> [i \in Infos |-> 0]]
  /\ job = "idle"
  /\ runs = 0
  /\ next_tile = 0 /\ failed = FALSE
  /\ pc = [w \in Workers |-> "done"]
  /\ index = [w \in Workers |-> 0]
  /\ buf = [w \in Workers |-> [i \in Infos |-> <<>>]]

----------------------------------------------------------------------------
\* valhalla_add_environment is started with a manifest that gives the scores sc.
Begin(sc) ==
  /\ job # "running"
  /\ runs < MaxRuns
  /\ runs' = runs + 1
  /\ lost' = {}
  /\ score' = sc
  /\ job' = "running"
  /\ next_tile' = 0
  /\ failed' = FALSE
  /\ pc' = [w \in Workers |-> "claim"]
  /\ UNCHANGED <<tile, broken, index, buf>>

\* The process is killed: what was on disk stays as it is.
Kill ==
  /\ job = "running"
  /\ job' = "killed"
  /\ pc' = [w \in Workers |-> "done"]
  /\ UNCHANGED <<tile, broken, lost, score, runs, shared, index, buf>>

\* Faulty variant: the end of the list is missed by one.
ClaimPastEnd(w) ==
  /\ pc[w] = "claim"
  /\ index' = [index EXCEPT ![w] = next_tile]
  /\ next_tile' = next_tile + 1
  /\ pc' = [pc EXCEPT ![w] = IF next_tile <= NTiles THEN "check" ELSE "done"]
  /\ UNCHANGED <<tile, broken, lost, score, job, runs, failed, buf>>

\* Faulty variant: the counter is read and written in two steps, so an increment of
\* another worker can be lost.
ClaimNotAtomic(w) ==
  /\ pc[w] = "claim"
  /\ index' = [index EXCEPT ![w] = next_tile]
  /\ next_tile' \in {next_tile, next_tile + 1}
  /\ pc' = [pc EXCEPT ![w] = IF next_tile < NTiles THEN "check" ELSE "done"]
  /\ UNCHANGED <<tile, broken, lost, score, job, runs, failed, buf>>

\* next_tile.fetch_add(1)
Claim(w) ==
  /\ pc[w] = "claim"
  /\ index' = [index EXCEPT ![w] = next_tile]
  /\ next_tile' = next_tile + 1
  /\ pc' = [pc EXCEPT ![w] = IF next_tile < NTiles THEN "check" ELSE "done"]
  /\ UNCHANGED <<tile, broken, lost, score, job, runs, failed, buf>>

\* failed.load()
Check(w) ==
  /\ pc[w] = "check"
  /\ pc' = [pc EXCEPT ![w] = IF failed THEN "done" ELSE "read"]
  /\ UNCHANGED <<tile, broken, lost, score, job, runs, shared, index, buf>>

\* Faulty variant: the same tile is tried again.
FailRetries(w) ==
  /\ failed' = TRUE
  /\ pc' = [pc EXCEPT ![w] = "read"]

\* The handler around one tile: the failure is remembered and the worker goes on.
Fail(w) ==
  /\ failed' = TRUE
  /\ pc' = [pc EXCEPT ![w] = "claim"]

\* Faulty variant: a tile that cannot be read is taken for one without edges.
ReadIgnoresBroken(w) ==
  /\ pc[w] = "read"
  /\ LET t == index[w]
     IN pc' = [pc EXCEPT ![w] = IF t \in broken \/ \A i \in Infos : score[t][i] = 0
                                THEN "claim" ELSE "build"]
  /\ UNCHANGED <<tile, broken, lost, score, job, runs, failed, next_tile, index, buf>>

\* The tile is read and scored.  A broken tile throws; a tile whose scores are all zero
\* is left alone.
Read(w) ==
  /\ pc[w] = "read"
  /\ LET t == index[w]
     IN IF t \in broken THEN Fail(w)
        ELSE /\ pc' = [pc EXCEPT ![w] = IF \A i \in Infos : score[t][i] = 0
                                        THEN "claim" ELSE "build"]
             /\ UNCHANGED failed
  /\ UNCHANGED <<tile, broken, lost, score, job, runs, next_tile, index, buf>>

\* AddTaggedValues() on one edge info: nothing for a zero score or without room; a value
\* that is there already is normally found, but not if its text was the tile's last.
Tagged(tags, s) ==
  IF s = 0 \/ Len(tags) >= MaxTags THEN {tags}
  ELSE IF \E k \in DOMAIN tags : tags[k] = s THEN {tags, Append(tags, s)}
  ELSE {Append(tags, s)}

\* The tile is read again, into a builder, and the values are added.
Build(w) ==
  /\ pc[w] = "build"
  /\ LET t == index[w]
     IN IF t \in broken
        THEN Fail(w) /\ UNCHANGED buf
        ELSE /\ \E b \in [Infos -> UNION {Tagged(tile[t][i], score[t][i]) : i \in Infos}] :
                  /\ \A i \in Infos : b[i] \in Tagged(tile[t][i], score[t][i])
                  /\ buf' = [buf EXCEPT ![w] = b]
             /\ pc' = [pc EXCEPT ![w] = "open"]
             /\ UNCHANGED failed
  /\ UNCHANGED <<tile, broken, lost, score, job, runs, next_tile, index>>

\* StoreTileData() opens the file and truncates it...
Open(w) ==
  /\ pc[w] = "open"
  /\ broken' = broken \cup {index[w]}
  /\ pc' = [pc EXCEPT ![w] = "write"]
  /\ UNCHANGED <<tile, lost, score, job, runs, shared, index, buf>>

\* ...or throws if it cannot...
OpenFails(w) ==
  /\ pc[w] = "open"
  /\ Fail(w)
  /\ UNCHANGED <<tile, broken, lost, score, job, runs, next_tile, index, buf>>

\* ...and writes the whole tile.
Write(w) ==
  /\ pc[w] = "write"
  /\ tile' = [tile EXCEPT ![index[w]] = buf[w]]
  /\ broken' = broken \ {index[w]}
  /\ pc' = [pc EXCEPT ![w] = "claim"]
  /\ UNCHANGED <<lost, score, job, runs, shared, index, buf>>

\* A write that fails goes unnoticed: the state of the stream is not looked at.
WriteFails(w) ==
  /\ pc[w] = "write"
  /\ lost' = lost \cup {index[w]}
  /\ pc' = [pc EXCEPT ![w] = "claim"]
  /\ UNCHANGED <<tile, broken, score, job, runs, shared, index, buf>>

\* Faulty variant: the result is taken when some worker is through.
JoinAny ==
  /\ job = "running"
  /\ \E w \in Workers : pc[w] = "done"
  /\ job' = IF failed THEN "failed" ELSE "ok"
  /\ UNCHANGED <<tile, broken, lost, score, runs, shared, workers>>

\* All threads are joined.
Join ==
  /\ job = "running"
  /\ \A w \in Workers : pc[w] = "done"
  /\ job' = IF failed THEN "failed" ELSE "ok"
  /\ UNCHANGED <<tile, broken, lost, score, runs, shared, workers>>

Worker(w) ==
  \/ Claim(w) \/ Check(w) \/ Read(w) \/ Build(w)
  \/ Open(w) \/ OpenFails(w) \/ Write(w) \/ WriteFails(w)

Next ==
  \/ \E sc \in [Tiles -> [Infos -> Scores]] : Begin(sc)
  \/ Kill
  \/ \E w \in Workers : Worker(w)
  \/ Join

\* Threads are scheduled.
Fairness ==
  /\ \A w \in Workers : WF_vars(Worker(w))
  /\ WF_vars(Join)

Spec     == Init /\ [][Next]_vars
FairSpec == Spec /\ Fairness

----------------------------------------------------------------------------
TypeOK ==
  /\ tile \in [Tiles -> Content]
  /\ broken \subseteq Tiles /\ lost \subseteq Tiles
  /\ score \in [Tiles -> [Infos -> Scores]]
  /\ job \in {"idle", "running", "ok", "failed", "killed"}
  /\ runs \in Nat
  /\ next_tile \in Nat
  /\ failed \in BOOLEAN
  /\ pc \in [Workers -> {"claim", "check", "done"} \cup Busy]
  /\ index \in [Workers -> Nat]
  /\ \A w \in Workers : pc[w] \in Busy \cup {"check"} => index[w] \in Tiles
  /\ buf \in [Workers -> Content]

\* No two workers are ever at the same tile, so a tile is never read while another
\* worker rewrites it: the shared counter is the only thing that keeps them apart.
OneWorkerPerTile ==
  \A v, w \in Workers :
    v # w /\ pc[v] \in Busy /\ pc[w] \in Busy => index[v] # index[w]

\* Success is reported only if no tile is broken, not even one that an earlier run left
\* truncated when it was killed or the disk was full; only a write that fails in this
\* very run can go unnoticed.
OkMeansIntact == job = "ok" => broken \subseteq lost

\* Success is reported only if every edge info with a score holds it or is full, writes
\* that failed unnoticed apart.
OkMeansTagged ==
  job = "ok" =>
    \A t \in Tiles \ lost, i \in Infos : score[t][i] # 0 =>
      \/ \E k \in DOMAIN tile[t][i] : tile[t][i][k] = score[t][i]
      \/ Len(tile[t][i]) >= MaxTags

\* A job that is not killed comes to an end.
JobEnds == job = "running" ~> job # "running"

\* EdgeInfo::environment(): the first value under the tag, zero without one.
Environment(tags) == IF tags = <<>> THEN 0 ELSE tags[1]

\* What regions/README.md promises of a rerun: costing then sees the new scores.
RerunTakesEffect ==
  job = "ok" =>
    \A t \in Tiles \ lost, i \in Infos :
      Len(tile[t][i]) < MaxTags => Environment(tile[t][i]) = score[t][i]

====
