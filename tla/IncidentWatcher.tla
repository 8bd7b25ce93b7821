----------------------------- MODULE IncidentWatcher -----------------------------
(***************************************************************************)
(* The live incident cache: src/src/baldr/incident_singleton.h.            *)
(*                                                                         *)
(* A detached watcher thread keeps an in-memory copy of incident tiles     *)
(* that another program writes to disk.  It rescans a directory, or a      *)
(* memory mapped change log, and reloads every tile whose time stamp is    *)
(* not older than the start of the previous scan.  The first get() blocks  *)
(* in the singleton's constructor until the first scan is done.            *)
(*                                                                         *)
(* Abstractions.  content[t] is what read_tile() would return for tile t   *)
(* now: 0 for a file that is missing, half written, unparsable or without  *)
(* locations, otherwise the version of the data.  Time has the granularity *)
(* of time_t: any number of steps fit into one second.  Sleeping is not    *)
(* timed.  With a static tileset the log is mapped once, so its entries    *)
(* change in place only.  The exceptions of the directory iterator itself, *)
(* which end the process, are left out.                                    *)
(***************************************************************************)
EXTENDS Integers

CONSTANTS
  Tiles,      \* tile ids that files or log entries may name
  Configs,    \* the configurations to be considered: pairs of mode and static tileset
  MaxTime,    \* bound on the clock
  MaxWrites   \* bound on the writes of the other program

ASSUME WatcherAssumption ==
  /\ Tiles # {}
  /\ Configs \subseteq {"dir", "log", "off"} \X SUBSET Tiles
  /\ MaxTime \in Nat
  /\ MaxWrites \in Nat

VARIABLES
  mode,          \* which of directory and log was configured: "dir", "log" or "off"
  tileset,       \* the static tileset; empty when there is no tile extract
  clock,         \* time(nullptr)
  content,       \* what read_tile() would return for each tile
  stamp,         \* write time of the tile's file, or time stamp of its log entry
  listed,        \* tiles the directory or the log names
  unlogged,      \* log mode: tiles whose file changed and whose log entry is not yet set
  writes,        \* number of versions written so far
  pc,            \* where the watcher thread is
  current_scan, last_scan,
  seen,          \* tiles met in this scan
  todo,          \* tiles this scan is certain to meet
  gone,          \* tiles removed while this scan runs
  cur, buf,      \* the tile being updated and the data read for it
  slots, cache,  \* state->cache: its keys, and the data per key (0: null)
  initialized,   \* state->initialized
  ctor           \* where the thread in the constructor is

disk    == <<content, stamp, listed, unlogged, writes>>
scan    == <<current_scan, last_scan, seen, todo, gone, cur, buf>>
watcher == <<pc, scan, slots, cache, initialized>>
config  == <<mode, tileset>>
vars    == <<config, clock, disk, watcher, ctor>>

Static    == tileset # {}                         \* state->lock_free
Trackable == IF Static THEN tileset ELSE Tiles    \* tiles that can have a slot
Scanning  == pc \in {"scan", "read", "store"}
Growable  == mode = "log" => ~Static              \* a static log keeps its entries

----------------------------------------------------------------------------
Init ==
  /\ \E c \in Configs : mode = c[1] /\ tileset = c[2]
  /\ clock = 1
  /\ listed \in SUBSET Tiles
  /\ content = [t \in Tiles |-> IF t \in listed THEN 1 ELSE 0]
  /\ stamp = [t \in Tiles |-> 0]
  /\ unlogged = {}
  /\ writes = 1
  /\ pc = IF mode = "off" THEN "signal" ELSE "begin"
  /\ current_scan = 0 /\ last_scan = 0
  /\ seen = {} /\ todo = {} /\ gone = {}
  /\ cur = (CHOOSE t \in Tiles : TRUE) /\ buf = 0
  /\ slots = IF mode = "off" THEN {} ELSE tileset
  /\ cache = [t \in Tiles |-> 0]
  /\ initialized = FALSE
  /\ ctor = "check"

----------------------------------------------------------------------------
\* The world outside: time passes and another program maintains the tiles.

Tick ==
  /\ clock < MaxTime
  /\ clock' = clock + 1
  /\ UNCHANGED <<config, disk, watcher, ctor>>

\* The file of t is opened for writing: what is there is not readable.
BeginWrite(t) ==
  /\ writes < MaxWrites
  /\ content' = [content EXCEPT ![t] = 0]
  /\ IF mode = "log"
     THEN /\ unlogged' = unlogged \cup {t}
          /\ UNCHANGED <<stamp, listed>>
     ELSE /\ stamp' = [stamp EXCEPT ![t] = clock]
          /\ listed' = listed \cup {t}
          /\ UNCHANGED unlogged
  /\ writes' = writes + 1
  /\ UNCHANGED <<config, clock, watcher, ctor>>

\* The new version is complete.
EndWrite(t) ==
  /\ content[t] = 0
  /\ IF mode = "log"
     THEN /\ t \in unlogged
          /\ UNCHANGED stamp
     ELSE /\ t \in listed
          /\ stamp' = [stamp EXCEPT ![t] = clock]
  /\ content' = [content EXCEPT ![t] = writes]
  /\ UNCHANGED <<config, clock, listed, unlogged, writes, watcher, ctor>>

\* Log mode: the change is announced.
LogChange(t) ==
  /\ t \in unlogged
  /\ t \in listed \/ Growable
  /\ stamp' = [stamp EXCEPT ![t] = clock]
  /\ listed' = listed \cup {t}
  /\ unlogged' = unlogged \ {t}
  /\ UNCHANGED <<config, clock, content, writes, watcher, ctor>>

\* The file, or the log entry with its file, is removed.
Remove(t) ==
  /\ Growable
  /\ writes < MaxWrites
  /\ t \in listed \ unlogged
  /\ listed' = listed \ {t}
  /\ content' = [content EXCEPT ![t] = 0]
  /\ writes' = writes + 1
  /\ todo' = todo \ {t}
  /\ gone' = gone \cup {t}
  /\ UNCHANGED <<config, clock, stamp, unlogged, pc, current_scan, last_scan, seen, cur, buf,
                 slots, cache, initialized, ctor>>

----------------------------------------------------------------------------
\* The watcher thread.

BeginScan ==
  /\ pc = "begin"
  /\ current_scan' = clock
  /\ seen' = {}
  /\ todo' = listed
  /\ gone' = {}
  /\ pc' = "scan"
  /\ UNCHANGED <<config, clock, disk, last_scan, cur, buf, slots, cache, initialized, ctor>>

\* Without a static tileset the log is mapped anew for each scan; if that fails the
\* thread ends.
RemapFails ==
  /\ pc = "begin"
  /\ mode = "log" /\ ~Static
  /\ pc' = "stopped"
  /\ UNCHANGED <<config, clock, disk, scan, slots, cache, initialized, ctor>>

\* Faulty variant: a tile written in the second the previous scan began is not reloaded.
VisitStrictlyNewer(t) ==
  /\ pc = "scan"
  /\ t \in listed \ seen
  /\ seen' = seen \cup {t}
  /\ IF last_scan < stamp[t]
     THEN pc' = "read" /\ cur' = t
     ELSE UNCHANGED <<pc, cur>>
  /\ UNCHANGED <<config, clock, disk, current_scan, last_scan, todo, gone, buf, slots, cache,
                 initialized, ctor>>

\* The next entry of the directory or the log: reload its tile if it is new enough.
Visit(t) ==
  /\ pc = "scan"
  /\ t \in listed \ seen
  /\ seen' = seen \cup {t}
  /\ IF last_scan <= stamp[t]
     THEN pc' = "read" /\ cur' = t
     ELSE UNCHANGED <<pc, cur>>
  /\ UNCHANGED <<config, clock, disk, current_scan, last_scan, todo, gone, buf, slots, cache,
                 initialized, ctor>>

\* Directory mode: the iterator still reports a file that is gone.  It counts as seen,
\* its write time cannot be read and it is skipped.
VisitVanished(t) ==
  /\ pc = "scan"
  /\ mode = "dir"
  /\ t \in gone \ (seen \cup listed)
  /\ seen' = seen \cup {t}
  /\ UNCHANGED <<config, clock, disk, pc, current_scan, last_scan, todo, gone, cur, buf, slots,
                 cache, initialized, ctor>>

\* read_tile()
ReadTile ==
  /\ pc = "read"
  /\ buf' = content[cur]
  /\ pc' = "store"
  /\ UNCHANGED <<config, clock, disk, current_scan, last_scan, seen, todo, gone, cur, slots, cache,
                 initialized, ctor>>

\* Faulty variant: a slot is made for any tile.
UpdateAnyTile ==
  /\ pc = "store"
  /\ slots' = slots \cup {cur}
  /\ cache' = [cache EXCEPT ![cur] = buf]
  /\ pc' = "scan"
  /\ UNCHANGED <<config, clock, disk, scan, initialized, ctor>>

\* update_tile(): a tile outside a static tileset is skipped.
UpdateTile ==
  /\ pc = "store"
  /\ IF cur \in slots \/ ~Static
     THEN /\ slots' = slots \cup {cur}
          /\ cache' = [cache EXCEPT ![cur] = buf]
     ELSE UNCHANGED <<slots, cache>>
  /\ pc' = "scan"
  /\ UNCHANGED <<config, clock, disk, scan, initialized, ctor>>

\* Faulty variant: removed tiles stay.
EndScanWithoutPurge ==
  /\ pc = "scan"
  /\ todo \subseteq seen
  /\ last_scan' = current_scan
  /\ pc' = IF initialized THEN "begin" ELSE "signal"
  /\ UNCHANGED <<config, clock, disk, current_scan, seen, todo, gone, cur, buf, slots, cache,
                 initialized, ctor>>

\* The scan is through: slots of tiles it did not see are nulled, and the next scan
\* goes by the time this one began.
EndScan ==
  /\ pc = "scan"
  /\ todo \subseteq seen
  /\ cache' = [t \in Tiles |-> IF t \in slots \ seen THEN 0 ELSE cache[t]]
  /\ last_scan' = current_scan
  /\ pc' = IF initialized THEN "begin" ELSE "signal"
  /\ UNCHANGED <<config, clock, disk, current_scan, seen, todo, gone, cur, buf, slots, initialized,
                 ctor>>

\* Faulty variant: initialized is set before the first scan.
SetInitializedEarly ==
  /\ pc \in {"begin", "signal"}
  /\ ~initialized
  /\ initialized' = TRUE
  /\ pc' = "notify"
  /\ UNCHANGED <<config, clock, disk, scan, slots, cache, ctor>>

\* After the first scan, or at once when nothing is configured: initialized is set
\* without holding the mutex the constructor waits with.
SetInitialized ==
  /\ pc = "signal"
  /\ initialized' = TRUE
  /\ pc' = "notify"
  /\ UNCHANGED <<config, clock, disk, scan, slots, cache, ctor>>

\* notify_one() wakes the constructor only if it is already blocked.
Notify ==
  /\ pc = "notify"
  /\ ctor' = IF ctor = "blocked" THEN "check" ELSE ctor
  /\ pc' = IF mode = "off" THEN "stopped" ELSE "begin"
  /\ UNCHANGED <<config, clock, disk, scan, slots, cache, initialized>>

----------------------------------------------------------------------------
\* The constructor: signal.wait_until(lock, when, initialized)

CtorCheck ==
  /\ ctor = "check"
  /\ ctor' = IF initialized THEN "ready" ELSE "blocking"
  /\ UNCHANGED <<config, clock, disk, watcher>>

CtorBlock ==
  /\ ctor = "blocking"
  /\ ctor' = "blocked"
  /\ UNCHANGED <<config, clock, disk, watcher>>

\* Faulty variant: signal.wait() without a deadline.
CtorNoDeadline == FALSE

\* The deadline passes: the condition is looked at once more.
CtorTimeout ==
  /\ ctor = "blocked"
  /\ ctor' = IF initialized THEN "ready" ELSE "threw"
  /\ UNCHANGED <<config, clock, disk, watcher>>

----------------------------------------------------------------------------
Watch ==
  \/ BeginScan \/ RemapFails
  \/ \E t \in Tiles : Visit(t) \/ VisitVanished(t)
  \/ ReadTile \/ UpdateTile \/ EndScan
  \/ SetInitialized \/ Notify

Construct == CtorCheck \/ CtorBlock \/ CtorTimeout

Outside ==
  \/ Tick
  \/ \E t \in Tiles : BeginWrite(t) \/ EndWrite(t) \/ LogChange(t) \/ Remove(t)

Next == Watch \/ Construct \/ Outside

\* The watcher thread and the constructor's thread are scheduled, and the program that
\* writes tiles finishes what it has begun.
Fairness ==
  /\ WF_vars(Watch)
  /\ WF_vars(Construct)
  /\ \A t \in Tiles : WF_vars(LogChange(t))

Spec     == Init /\ [][Next]_vars
FairSpec == Spec /\ Fairness

----------------------------------------------------------------------------
TypeOK ==
  /\ mode \in {"dir", "log", "off"}
  /\ tileset \subseteq Tiles
  /\ clock \in Nat
  /\ content \in [Tiles -> Nat]
  /\ stamp \in [Tiles -> Nat]
  /\ listed \subseteq Tiles /\ unlogged \subseteq Tiles
  /\ writes \in Nat
  /\ pc \in {"begin", "scan", "read", "store", "signal", "notify", "stopped"}
  /\ current_scan \in Nat /\ last_scan \in Nat
  /\ seen \subseteq Tiles /\ todo \subseteq Tiles /\ gone \subseteq Tiles
  /\ cur \in Tiles /\ buf \in Nat
  /\ slots \subseteq Trackable
  /\ cache \in [Tiles -> Nat]
  /\ initialized \in BOOLEAN
  /\ ctor \in {"check", "blocking", "blocked", "ready", "threw"}

\* A scan is still going to bring tile t up to date.
Pending(t) ==
  \/ stamp[t] >= current_scan                         \* the next scan reloads it
  \/ Scanning /\ t \in todo \ seen /\ stamp[t] >= last_scan
  \/ pc = "read" /\ cur = t
  \/ pc = "store" /\ cur = t /\ buf = content[t]

\* No update is missed: whenever the cache differs from an announced tile, this scan or
\* the next one will reload it.  The rule "last_scan <= time stamp", with last_scan the
\* start of the previous scan and times in whole seconds, is just enough for that.
NoMissedUpdate ==
  \A t \in (Trackable \cap listed) \ unlogged : cache[t] # content[t] => Pending(t)

\* The constructor lets get() go on only once the tiles that were there before the start
\* and have not changed since are in the cache.
ReadyMeansLoaded ==
  ctor = "ready" /\ mode # "off" =>
    \A t \in (Trackable \cap listed) \ unlogged : stamp[t] = 0 => cache[t] = content[t]

\* With the other program quiet, what get() returns becomes and stays what is on disk,
\* removed tiles included.
CacheConverges ==
  <>[](pc = "stopped" \/ \A t \in Trackable :
         cache[t] = IF t \in listed THEN content[t] ELSE 0)

\* The first get() does not hang, although the notification can be lost between the
\* constructor's look at initialized and its blocking.
ConstructorReturns == <>(ctor \in {"ready", "threw"})

====
