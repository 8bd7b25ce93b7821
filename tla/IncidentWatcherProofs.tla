-------------------------- MODULE IncidentWatcherProofs --------------------------
(***************************************************************************)
(* Proof that the incident watcher misses no update, for any number of     *)
(* tiles, writes and seconds, with or without a static tileset, in         *)
(* directory and in log mode.                                              *)
(***************************************************************************)
EXTENDS IncidentWatcher, TLAPS

\* The inductive invariant.  Besides NoMissedUpdate it says how the three times relate,
\* that no time stamp is in the future, and that a tile the running scan may overlook was
\* announced after the scan began.
Times ==
  /\ last_scan <= current_scan
  /\ current_scan <= clock
  /\ ~Scanning => last_scan = current_scan
  /\ \A t \in Tiles : stamp[t] <= clock

Overlooked ==
  \A t \in listed : Scanning /\ t \notin todo => stamp[t] >= current_scan

\* What was read and is not stored yet is what is on disk, or the disk changed since.
ReadOK ==
  pc = "store" /\ cur \in listed \ unlogged /\ buf # content[cur] =>
    stamp[cur] >= current_scan

\* A preallocated slot exists for every tile of a static tileset; the
\* bookkeeping of log mode stays empty in directory mode.
Slots ==
  /\ Static /\ mode # "off" => slots = tileset
  /\ mode = "off" => ~Scanning /\ pc # "begin"
  /\ mode # "log" => unlogged = {}

IInv ==
  /\ TypeOK
  /\ Times
  /\ Overlooked
  /\ Slots
  /\ ReadOK
  /\ NoMissedUpdate

\* The invariant holds when the thread starts.
LEMMA InitInv == Init => IInv
<1> SUFFICES ASSUME Init PROVE IInv
  OBVIOUS
<1>1. cur \in Tiles
  BY WatcherAssumption DEF Init
<1>2. TypeOK
  BY <1>1, WatcherAssumption DEF Init, TypeOK, Trackable, Static
<1>3. Times /\ Overlooked /\ Slots /\ ReadOK
  BY WatcherAssumption DEF Init, Times, Overlooked, Slots, ReadOK, Scanning
<1>4. NoMissedUpdate
  BY WatcherAssumption DEF Init, NoMissedUpdate, Pending, Trackable
<1> QED  BY <1>2, <1>3, <1>4 DEF IInv

----------------------------------------------------------------------------
\* The steps of the world outside.

\* Time passes.
LEMMA TickInv ==
  ASSUME IInv, Tick
  PROVE  IInv'
<1> USE WatcherAssumption DEF config, disk, scan, watcher, Static
<1>1. TypeOK'
  BY DEF Tick, IInv, TypeOK, Trackable
<1>2. Times'
  BY DEF Tick, IInv, TypeOK, Times, Scanning
<1>3. Overlooked'
  BY DEF Tick, IInv, TypeOK, Times, Overlooked, Scanning
<1>4. Slots'
  BY DEF Scanning, Tick, IInv, TypeOK, Slots
<1>5. ReadOK'
  BY DEF Tick, IInv, TypeOK, Times, Slots, ReadOK
<1>6. NoMissedUpdate'
  <2> SUFFICES ASSUME NEW t \in ((Trackable \cap listed) \ unlogged)',
                      cache'[t] # content'[t]
               PROVE  Pending(t)'
    BY DEF NoMissedUpdate
  <2>1. t \in Tiles /\ t \in Trackable
    BY DEF Tick, IInv, TypeOK, Trackable
  <2> QED  BY <2>1 DEF Tick, IInv, TypeOK, Times, Overlooked, Slots, ReadOK, NoMissedUpdate, Pending,
                   Trackable, Scanning
<1> QED  BY <1>1, <1>2, <1>3, <1>4, <1>5, <1>6 DEF IInv

\* A write begins: in directory mode the write time changes with the first byte.
LEMMA BeginWriteInv ==
  ASSUME IInv, NEW w \in Tiles, BeginWrite(w)
  PROVE  IInv'
<1> USE WatcherAssumption DEF config, disk, scan, watcher, Static
<1>1. TypeOK'
  BY DEF BeginWrite, IInv, TypeOK, Trackable
<1>2. Times'
  BY DEF BeginWrite, IInv, TypeOK, Times, Scanning
<1>3. Overlooked'
  BY DEF BeginWrite, IInv, TypeOK, Times, Overlooked, Scanning
<1>4. Slots'
  BY DEF Scanning, BeginWrite, IInv, TypeOK, Slots
<1>5. ReadOK'
  BY DEF BeginWrite, IInv, TypeOK, Times, Slots, ReadOK
<1>6. NoMissedUpdate'
  <2> SUFFICES ASSUME NEW t \in ((Trackable \cap listed) \ unlogged)',
                      cache'[t] # content'[t]
               PROVE  Pending(t)'
    BY DEF NoMissedUpdate
  <2>1. t \in Tiles /\ t \in Trackable
    BY DEF BeginWrite, IInv, TypeOK, Trackable
  <2> QED  BY <2>1 DEF BeginWrite, IInv, TypeOK, Times, Overlooked, Slots, ReadOK, NoMissedUpdate, Pending,
                   Trackable, Scanning
<1> QED  BY <1>1, <1>2, <1>3, <1>4, <1>5, <1>6 DEF IInv

\* A write ends.
LEMMA EndWriteInv ==
  ASSUME IInv, NEW w \in Tiles, EndWrite(w)
  PROVE  IInv'
<1> USE WatcherAssumption DEF config, disk, scan, watcher, Static
<1>1. TypeOK'
  BY DEF EndWrite, IInv, TypeOK, Trackable
<1>2. Times'
  BY DEF EndWrite, IInv, TypeOK, Times, Scanning
<1>3. Overlooked'
  BY DEF EndWrite, IInv, TypeOK, Times, Overlooked, Scanning
<1>4. Slots'
  BY DEF Scanning, EndWrite, IInv, TypeOK, Slots
<1>5. ReadOK'
  BY DEF EndWrite, IInv, TypeOK, Times, Slots, ReadOK
<1>6. NoMissedUpdate'
  <2> SUFFICES ASSUME NEW t \in ((Trackable \cap listed) \ unlogged)',
                      cache'[t] # content'[t]
               PROVE  Pending(t)'
    BY DEF NoMissedUpdate
  <2>1. t \in Tiles /\ t \in Trackable
    BY DEF EndWrite, IInv, TypeOK, Trackable
  <2> QED  BY <2>1 DEF EndWrite, IInv, TypeOK, Times, Overlooked, Slots, ReadOK, NoMissedUpdate, Pending,
                   Trackable, Scanning
<1> QED  BY <1>1, <1>2, <1>3, <1>4, <1>5, <1>6 DEF IInv

\* A change is announced in the log.
LEMMA LogChangeInv ==
  ASSUME IInv, NEW w \in Tiles, LogChange(w)
  PROVE  IInv'
<1> USE WatcherAssumption DEF config, disk, scan, watcher, Static
<1>1. TypeOK'
  BY DEF LogChange, IInv, TypeOK, Trackable
<1>2. Times'
  BY DEF LogChange, IInv, TypeOK, Times, Scanning
<1>3. Overlooked'
  BY DEF LogChange, IInv, TypeOK, Times, Overlooked, Scanning
<1>4. Slots'
  BY DEF Scanning, LogChange, IInv, TypeOK, Slots
<1>5. ReadOK'
  BY DEF LogChange, IInv, TypeOK, Times, Slots, ReadOK
<1>6. NoMissedUpdate'
  <2> SUFFICES ASSUME NEW t \in ((Trackable \cap listed) \ unlogged)',
                      cache'[t] # content'[t]
               PROVE  Pending(t)'
    BY DEF NoMissedUpdate
  <2>1. t \in Tiles /\ t \in Trackable
    BY DEF LogChange, IInv, TypeOK, Trackable
  <2> QED  BY <2>1 DEF LogChange, IInv, TypeOK, Times, Overlooked, Slots, ReadOK, NoMissedUpdate, Pending,
                   Trackable, Scanning
<1> QED  BY <1>1, <1>2, <1>3, <1>4, <1>5, <1>6 DEF IInv

\* A tile is removed.
LEMMA RemoveInv ==
  ASSUME IInv, NEW w \in Tiles, Remove(w)
  PROVE  IInv'
<1> USE WatcherAssumption DEF config, disk, scan, watcher, Static
<1>1. TypeOK'
  BY DEF Remove, IInv, TypeOK, Trackable
<1>2. Times'
  BY DEF Remove, IInv, TypeOK, Times, Scanning
<1>3. Overlooked'
  BY DEF Remove, IInv, TypeOK, Times, Overlooked, Scanning
<1>4. Slots'
  BY DEF Scanning, Remove, IInv, TypeOK, Slots
<1>5. ReadOK'
  BY DEF Remove, IInv, TypeOK, Times, Slots, ReadOK
<1>6. NoMissedUpdate'
  <2> SUFFICES ASSUME NEW t \in ((Trackable \cap listed) \ unlogged)',
                      cache'[t] # content'[t]
               PROVE  Pending(t)'
    BY DEF NoMissedUpdate
  <2>1. t \in Tiles /\ t \in Trackable
    BY DEF Remove, IInv, TypeOK, Trackable
  <2> QED  BY <2>1 DEF Remove, IInv, TypeOK, Times, Overlooked, Slots, ReadOK, NoMissedUpdate, Pending,
                   Trackable, Scanning
<1> QED  BY <1>1, <1>2, <1>3, <1>4, <1>5, <1>6 DEF IInv

----------------------------------------------------------------------------
\* The steps of the watcher thread.

\* A scan begins: everything stale is still to be met.
LEMMA BeginScanInv ==
  ASSUME IInv, BeginScan
  PROVE  IInv'
<1> USE WatcherAssumption DEF config, disk, scan, watcher, Static
<1>1. TypeOK'
  BY DEF BeginScan, IInv, TypeOK, Trackable
<1>2. Times'
  BY DEF BeginScan, IInv, TypeOK, Times, Scanning
<1>3. Overlooked'
  BY DEF BeginScan, IInv, TypeOK, Times, Overlooked, Scanning
<1>4. Slots'
  BY DEF Scanning, BeginScan, IInv, TypeOK, Slots
<1>5. ReadOK'
  BY DEF BeginScan, IInv, TypeOK, Times, Slots, ReadOK
<1>6. NoMissedUpdate'
  <2> SUFFICES ASSUME NEW t \in ((Trackable \cap listed) \ unlogged)',
                      cache'[t] # content'[t]
               PROVE  Pending(t)'
    BY DEF NoMissedUpdate
  <2>1. t \in Tiles /\ t \in Trackable
    BY DEF BeginScan, IInv, TypeOK, Trackable
  <2> QED  BY <2>1 DEF BeginScan, IInv, TypeOK, Times, Overlooked, Slots, ReadOK, NoMissedUpdate, Pending,
                   Trackable, Scanning
<1> QED  BY <1>1, <1>2, <1>3, <1>4, <1>5, <1>6 DEF IInv

\* The thread ends.
LEMMA RemapFailsInv ==
  ASSUME IInv, RemapFails
  PROVE  IInv'
<1> USE WatcherAssumption DEF config, disk, scan, watcher, Static
<1>1. TypeOK'
  BY DEF RemapFails, IInv, TypeOK, Trackable
<1>2. Times'
  BY DEF RemapFails, IInv, TypeOK, Times, Scanning
<1>3. Overlooked'
  BY DEF RemapFails, IInv, TypeOK, Times, Overlooked, Scanning
<1>4. Slots'
  BY DEF Scanning, RemapFails, IInv, TypeOK, Slots
<1>5. ReadOK'
  BY DEF RemapFails, IInv, TypeOK, Times, Slots, ReadOK
<1>6. NoMissedUpdate'
  <2> SUFFICES ASSUME NEW t \in ((Trackable \cap listed) \ unlogged)',
                      cache'[t] # content'[t]
               PROVE  Pending(t)'
    BY DEF NoMissedUpdate
  <2>1. t \in Tiles /\ t \in Trackable
    BY DEF RemapFails, IInv, TypeOK, Trackable
  <2> QED  BY <2>1 DEF RemapFails, IInv, TypeOK, Times, Overlooked, Slots, ReadOK, NoMissedUpdate, Pending,
                   Trackable, Scanning
<1> QED  BY <1>1, <1>2, <1>3, <1>4, <1>5, <1>6 DEF IInv

\* An entry is met: if it is skipped, its stale copy must have changed after the scan began.
LEMMA VisitInv ==
  ASSUME IInv, NEW w \in Tiles, Visit(w)
  PROVE  IInv'
<1> USE WatcherAssumption DEF config, disk, scan, watcher, Static
<1>1. TypeOK'
  BY DEF Visit, IInv, TypeOK, Trackable
<1>2. Times'
  BY DEF Visit, IInv, TypeOK, Times, Scanning
<1>3. Overlooked'
  BY DEF Visit, IInv, TypeOK, Times, Overlooked, Scanning
<1>4. Slots'
  BY DEF Scanning, Visit, IInv, TypeOK, Slots
<1>5. ReadOK'
  BY DEF Visit, IInv, TypeOK, Times, Slots, ReadOK
<1>6. NoMissedUpdate'
  <2> SUFFICES ASSUME NEW t \in ((Trackable \cap listed) \ unlogged)',
                      cache'[t] # content'[t]
               PROVE  Pending(t)'
    BY DEF NoMissedUpdate
  <2>1. t \in Tiles /\ t \in Trackable
    BY DEF Visit, IInv, TypeOK, Trackable
  <2> QED  BY <2>1 DEF Visit, IInv, TypeOK, Times, Overlooked, Slots, ReadOK, NoMissedUpdate, Pending,
                   Trackable, Scanning
<1> QED  BY <1>1, <1>2, <1>3, <1>4, <1>5, <1>6 DEF IInv

\* A vanished file counts as seen.
LEMMA VisitVanishedInv ==
  ASSUME IInv, NEW w \in Tiles, VisitVanished(w)
  PROVE  IInv'
<1> USE WatcherAssumption DEF config, disk, scan, watcher, Static
<1>1. TypeOK'
  BY DEF VisitVanished, IInv, TypeOK, Trackable
<1>2. Times'
  BY DEF VisitVanished, IInv, TypeOK, Times, Scanning
<1>3. Overlooked'
  BY DEF VisitVanished, IInv, TypeOK, Times, Overlooked, Scanning
<1>4. Slots'
  BY DEF Scanning, VisitVanished, IInv, TypeOK, Slots
<1>5. ReadOK'
  BY DEF VisitVanished, IInv, TypeOK, Times, Slots, ReadOK
<1>6. NoMissedUpdate'
  <2> SUFFICES ASSUME NEW t \in ((Trackable \cap listed) \ unlogged)',
                      cache'[t] # content'[t]
               PROVE  Pending(t)'
    BY DEF NoMissedUpdate
  <2>1. t \in Tiles /\ t \in Trackable
    BY DEF VisitVanished, IInv, TypeOK, Trackable
  <2> QED  BY <2>1 DEF VisitVanished, IInv, TypeOK, Times, Overlooked, Slots, ReadOK, NoMissedUpdate, Pending,
                   Trackable, Scanning
<1> QED  BY <1>1, <1>2, <1>3, <1>4, <1>5, <1>6 DEF IInv

\* A tile is read.
LEMMA ReadTileInv ==
  ASSUME IInv, ReadTile
  PROVE  IInv'
<1> USE WatcherAssumption DEF config, disk, scan, watcher, Static
<1>1. TypeOK'
  BY DEF ReadTile, IInv, TypeOK, Trackable
<1>2. Times'
  BY DEF ReadTile, IInv, TypeOK, Times, Scanning
<1>3. Overlooked'
  BY DEF ReadTile, IInv, TypeOK, Times, Overlooked, Scanning
<1>4. Slots'
  BY DEF Scanning, ReadTile, IInv, TypeOK, Slots
<1>5. ReadOK'
  BY DEF ReadTile, IInv, TypeOK, Times, Slots, ReadOK
<1>6. NoMissedUpdate'
  <2> SUFFICES ASSUME NEW t \in ((Trackable \cap listed) \ unlogged)',
                      cache'[t] # content'[t]
               PROVE  Pending(t)'
    BY DEF NoMissedUpdate
  <2>1. t \in Tiles /\ t \in Trackable
    BY DEF ReadTile, IInv, TypeOK, Trackable
  <2> QED  BY <2>1 DEF ReadTile, IInv, TypeOK, Times, Overlooked, Slots, ReadOK, NoMissedUpdate, Pending,
                   Trackable, Scanning
<1> QED  BY <1>1, <1>2, <1>3, <1>4, <1>5, <1>6 DEF IInv

\* A tile is stored.
LEMMA UpdateTileInv ==
  ASSUME IInv, UpdateTile
  PROVE  IInv'
<1> USE WatcherAssumption DEF config, disk, scan, watcher, Static
<1>1. TypeOK'
  BY DEF UpdateTile, IInv, TypeOK, Trackable
<1>2. Times'
  BY DEF UpdateTile, IInv, TypeOK, Times, Scanning
<1>3. Overlooked'
  BY DEF UpdateTile, IInv, TypeOK, Times, Overlooked, Scanning
<1>4. Slots'
  BY DEF Scanning, UpdateTile, IInv, TypeOK, Slots
<1>5. ReadOK'
  BY DEF UpdateTile, IInv, TypeOK, Times, Slots, ReadOK
<1>6. NoMissedUpdate'
  <2> SUFFICES ASSUME NEW t \in ((Trackable \cap listed) \ unlogged)',
                      cache'[t] # content'[t]
               PROVE  Pending(t)'
    BY DEF NoMissedUpdate
  <2>1. t \in Tiles /\ t \in Trackable
    BY DEF UpdateTile, IInv, TypeOK, Trackable
  <2>2. CASE t = cur
    <3>1. cache'[t] = buf
      BY <2>1, <2>2 DEF UpdateTile, IInv, TypeOK, Slots, Scanning, Trackable
    <3> QED  BY <2>1, <2>2, <3>1 DEF UpdateTile, IInv, ReadOK, Pending
  <2>3. CASE t # cur
    <3>1. cache'[t] = cache[t]
      BY <2>1, <2>3 DEF UpdateTile, IInv, TypeOK
    <3> QED  BY <2>1, <2>3, <3>1 DEF UpdateTile, IInv, NoMissedUpdate, Pending, Trackable, Scanning
  <2> QED  BY <2>2, <2>3
<1> QED  BY <1>1, <1>2, <1>3, <1>4, <1>5, <1>6 DEF IInv

\* The scan ends.
LEMMA EndScanInv ==
  ASSUME IInv, EndScan
  PROVE  IInv'
<1> USE WatcherAssumption DEF config, disk, scan, watcher, Static
<1>1. TypeOK'
  BY DEF EndScan, IInv, TypeOK, Trackable
<1>2. Times'
  BY DEF EndScan, IInv, TypeOK, Times, Scanning
<1>3. Overlooked'
  BY DEF EndScan, IInv, TypeOK, Times, Overlooked, Scanning
<1>4. Slots'
  BY DEF Scanning, EndScan, IInv, TypeOK, Slots
<1>5. ReadOK'
  BY DEF EndScan, IInv, TypeOK, Times, Slots, ReadOK
<1>6. NoMissedUpdate'
  <2> SUFFICES ASSUME NEW t \in ((Trackable \cap listed) \ unlogged)',
                      cache'[t] # content'[t]
               PROVE  Pending(t)'
    BY DEF NoMissedUpdate
  <2>1. t \in Tiles /\ t \in Trackable
    BY DEF EndScan, IInv, TypeOK, Trackable
  <2> QED  BY <2>1 DEF EndScan, IInv, TypeOK, Times, Overlooked, Slots, ReadOK, NoMissedUpdate, Pending,
                   Trackable, Scanning
<1> QED  BY <1>1, <1>2, <1>3, <1>4, <1>5, <1>6 DEF IInv

\* The first scan is announced.
LEMMA SetInitializedInv ==
  ASSUME IInv, SetInitialized
  PROVE  IInv'
<1> USE WatcherAssumption DEF config, disk, scan, watcher, Static
<1>1. TypeOK'
  BY DEF SetInitialized, IInv, TypeOK, Trackable
<1>2. Times'
  BY DEF SetInitialized, IInv, TypeOK, Times, Scanning
<1>3. Overlooked'
  BY DEF SetInitialized, IInv, TypeOK, Times, Overlooked, Scanning
<1>4. Slots'
  BY DEF Scanning, SetInitialized, IInv, TypeOK, Slots
<1>5. ReadOK'
  BY DEF SetInitialized, IInv, TypeOK, Times, Slots, ReadOK
<1>6. NoMissedUpdate'
  <2> SUFFICES ASSUME NEW t \in ((Trackable \cap listed) \ unlogged)',
                      cache'[t] # content'[t]
               PROVE  Pending(t)'
    BY DEF NoMissedUpdate
  <2>1. t \in Tiles /\ t \in Trackable
    BY DEF SetInitialized, IInv, TypeOK, Trackable
  <2> QED  BY <2>1 DEF SetInitialized, IInv, TypeOK, Times, Overlooked, Slots, ReadOK, NoMissedUpdate, Pending,
                   Trackable, Scanning
<1> QED  BY <1>1, <1>2, <1>3, <1>4, <1>5, <1>6 DEF IInv

\* The constructor is woken.
LEMMA NotifyInv ==
  ASSUME IInv, Notify
  PROVE  IInv'
<1> USE WatcherAssumption DEF config, disk, scan, watcher, Static
<1>1. TypeOK'
  BY DEF Notify, IInv, TypeOK, Trackable
<1>2. Times'
  BY DEF Notify, IInv, TypeOK, Times, Scanning
<1>3. Overlooked'
  BY DEF Notify, IInv, TypeOK, Times, Overlooked, Scanning
<1>4. Slots'
  BY DEF Scanning, Notify, IInv, TypeOK, Slots
<1>5. ReadOK'
  BY DEF Notify, IInv, TypeOK, Times, Slots, ReadOK
<1>6. NoMissedUpdate'
  <2> SUFFICES ASSUME NEW t \in ((Trackable \cap listed) \ unlogged)',
                      cache'[t] # content'[t]
               PROVE  Pending(t)'
    BY DEF NoMissedUpdate
  <2>1. t \in Tiles /\ t \in Trackable
    BY DEF Notify, IInv, TypeOK, Trackable
  <2> QED  BY <2>1 DEF Notify, IInv, TypeOK, Times, Overlooked, Slots, ReadOK, NoMissedUpdate, Pending,
                   Trackable, Scanning
<1> QED  BY <1>1, <1>2, <1>3, <1>4, <1>5, <1>6 DEF IInv

\* The constructor touches nothing of the watcher's.
LEMMA ConstructInv ==
  ASSUME IInv, Construct
  PROVE  IInv'
  BY DEF Construct, CtorCheck, CtorBlock, CtorTimeout, config, disk, scan, watcher, IInv, TypeOK, Times,
         Overlooked, Slots, ReadOK, NoMissedUpdate, Pending, Scanning, Trackable, Static

\* One step of anyone preserves the invariant.
LEMMA NextInv ==
  ASSUME IInv, [Next]_vars
  PROVE  IInv'
<1>1. CASE Watch
  BY <1>1, BeginScanInv, RemapFailsInv, VisitInv, VisitVanishedInv, ReadTileInv, UpdateTileInv,
     EndScanInv, SetInitializedInv, NotifyInv DEF Watch
<1>2. CASE Construct
  BY <1>2, ConstructInv
<1>3. CASE Outside
  BY <1>3, TickInv, BeginWriteInv, EndWriteInv, LogChangeInv, RemoveInv DEF Outside
<1>4. CASE UNCHANGED vars
  BY <1>4 DEF vars, config, disk, scan, watcher, IInv, TypeOK, Times, Overlooked, Slots, ReadOK, NoMissedUpdate,
              Pending, Scanning, Trackable, Static
<1> QED  BY <1>1, <1>2, <1>3, <1>4 DEF Next

----------------------------------------------------------------------------
\* The first scan.

\* A tile that the cache is to hold and that nobody has touched since the start.
Untouched(t) == t \in (Trackable \cap listed) \ unlogged /\ stamp[t] = 0

\* The tile has been met, by the first scan or by all of it.
Met(t) == initialized \/ pc \in {"signal", "notify"} \/ (Scanning /\ t \in seen)

\* How the first scan loads the untouched tiles, and how far the constructor is.
Loading ==
  /\ clock >= 1
  /\ Scanning => current_scan >= 1
  /\ ~initialized => pc # "notify" /\ (Scanning \/ pc = "begin" => last_scan = 0)
  /\ ctor = "ready" => initialized
  /\ pc = "store" /\ cur \in listed \ unlogged /\ stamp[cur] = 0 => buf = content[cur]
  /\ mode # "off" => \A t \in Tiles : Untouched(t) /\ Met(t) =>
       cache[t] = content[t] \/ (~initialized /\ pc \in {"read", "store"} /\ cur = t)

JInv == IInv /\ Loading

\* Nothing is met at first.
LEMMA InitLoading == Init => Loading
<1> SUFFICES ASSUME Init PROVE Loading
  OBVIOUS
<1>1. ~initialized /\ ctor = "check" /\ clock = 1 /\ last_scan = 0 /\ ~Scanning /\ pc # "notify"
  BY DEF Init, Scanning
<1>2. mode # "off" => pc = "begin"
  BY DEF Init
<1> QED  BY <1>1, <1>2 DEF Loading, Met, Scanning

\* Time passes.
LEMMA TickLoading ==
  ASSUME JInv, Tick
  PROVE  Loading'
  BY WatcherAssumption DEF Tick, config, disk, scan, watcher, Static, JInv, IInv, TypeOK, Times,
     Overlooked, Slots, Loading, Untouched, Met, Scanning, Trackable

\* A tile that is written is no longer one of the untouched.
LEMMA BeginWriteLoading ==
  ASSUME JInv, NEW w \in Tiles, BeginWrite(w)
  PROVE  Loading'
  BY WatcherAssumption DEF BeginWrite, config, disk, scan, watcher, Static, JInv, IInv, TypeOK, Times,
     Overlooked, Slots, Loading, Untouched, Met, Scanning, Trackable

\* In directory mode the time stamp is set, in log mode the tile is not announced.
LEMMA EndWriteLoading ==
  ASSUME JInv, NEW w \in Tiles, EndWrite(w)
  PROVE  Loading'
  BY WatcherAssumption DEF EndWrite, config, disk, scan, watcher, Static, JInv, IInv, TypeOK, Times,
     Overlooked, Slots, Loading, Untouched, Met, Scanning, Trackable

\* An announced tile has a time stamp.
LEMMA LogChangeLoading ==
  ASSUME JInv, NEW w \in Tiles, LogChange(w)
  PROVE  Loading'
  BY WatcherAssumption DEF LogChange, config, disk, scan, watcher, Static, JInv, IInv, TypeOK, Times,
     Overlooked, Slots, Loading, Untouched, Met, Scanning, Trackable

\* A removed tile is not listed.
LEMMA RemoveLoading ==
  ASSUME JInv, NEW w \in Tiles, Remove(w)
  PROVE  Loading'
  BY WatcherAssumption DEF Remove, config, disk, scan, watcher, Static, JInv, IInv, TypeOK, Times,
     Overlooked, Slots, Loading, Untouched, Met, Scanning, Trackable

\* A scan begins.
LEMMA BeginScanLoading ==
  ASSUME JInv, BeginScan
  PROVE  Loading'
  BY WatcherAssumption DEF BeginScan, config, disk, scan, watcher, Static, JInv, IInv, TypeOK, Times,
     Overlooked, Slots, Loading, Untouched, Met, Scanning, Trackable

\* The thread ends.
LEMMA RemapFailsLoading ==
  ASSUME JInv, RemapFails
  PROVE  Loading'
  BY WatcherAssumption DEF RemapFails, config, disk, scan, watcher, Static, JInv, IInv, TypeOK, Times,
     Overlooked, Slots, Loading, Untouched, Met, Scanning, Trackable

\* The first scan reloads whatever it meets.
LEMMA VisitLoading ==
  ASSUME JInv, NEW w \in Tiles, Visit(w)
  PROVE  Loading'
<1> USE WatcherAssumption DEF Visit, config, disk, scan, watcher, Static, JInv, IInv
<1>1. /\ clock' >= 1
      /\ Scanning' => current_scan' >= 1
      /\ ~initialized' => pc' # "notify" /\ (Scanning' \/ pc' = "begin" => last_scan' = 0)
      /\ ctor' = "ready" => initialized'
  BY DEF Loading, Scanning
<1>2. pc' = "store" /\ cur' \in listed' \ unlogged' /\ stamp'[cur'] = 0 => buf' = content'[cur']
  BY DEF Loading
<1>3. ASSUME mode' # "off", NEW t \in Tiles, Untouched(t)', Met(t)'
      PROVE  cache'[t] = content'[t] \/ (~initialized' /\ pc' \in {"read", "store"} /\ cur' = t)
  <2>1. Untouched(t) /\ content'[t] = content[t]
    BY <1>3 DEF Untouched, Trackable
  <2>2. CASE t = w /\ ~initialized
    <3>1. last_scan = 0 /\ stamp[t] = 0
      BY <2>1, <2>2 DEF Loading, Scanning, Untouched
    <3> QED  BY <2>2, <3>1
  <2>3. CASE t # w \/ initialized
    <3>1. Met(t)
      BY <1>3, <2>3 DEF Met, Scanning
    <3> QED  BY <1>3, <2>1, <3>1 DEF Loading
  <2> QED  BY <2>2, <2>3
<1> QED  BY <1>1, <1>2, <1>3 DEF Loading

\* A vanished file is not listed.
LEMMA VisitVanishedLoading ==
  ASSUME JInv, NEW w \in Tiles, VisitVanished(w)
  PROVE  Loading'
  BY WatcherAssumption DEF VisitVanished, config, disk, scan, watcher, Static, JInv, IInv, TypeOK, Times,
     Overlooked, Slots, Loading, Untouched, Met, Scanning, Trackable

\* The data of an untouched tile is read.
LEMMA ReadTileLoading ==
  ASSUME JInv, ReadTile
  PROVE  Loading'
  BY WatcherAssumption DEF ReadTile, config, disk, scan, watcher, Static, JInv, IInv, TypeOK, Times,
     Overlooked, Slots, Loading, Untouched, Met, Scanning, Trackable

\* The data of an untouched tile is stored.
LEMMA UpdateTileLoading ==
  ASSUME JInv, UpdateTile
  PROVE  Loading'
<1> USE WatcherAssumption DEF UpdateTile, config, disk, scan, watcher, Static, JInv, IInv
<1>1. /\ clock' >= 1
      /\ Scanning' => current_scan' >= 1
      /\ ~initialized' => pc' # "notify" /\ (Scanning' \/ pc' = "begin" => last_scan' = 0)
      /\ ctor' = "ready" => initialized'
  BY DEF Loading, Scanning
<1>2. pc' = "store" /\ cur' \in listed' \ unlogged' /\ stamp'[cur'] = 0 => buf' = content'[cur']
  BY DEF Loading
<1>3. ASSUME mode' # "off", NEW t \in Tiles, Untouched(t)', Met(t)'
      PROVE  cache'[t] = content'[t] \/ (~initialized' /\ pc' \in {"read", "store"} /\ cur' = t)
  <2>1. Untouched(t) /\ content'[t] = content[t]
    BY <1>3 DEF Untouched, Trackable
  <2>2. Met(t)
    BY <1>3 DEF Met, Scanning
  <2>3. CASE t = cur
    <3>1. t \in Trackable /\ buf = content[t]
      BY <2>1, <2>3 DEF Loading, Untouched
    <3>2. cache' = [cache EXCEPT ![cur] = buf]
      BY <1>3, <2>3, <3>1 DEF Slots, Trackable
    <3> QED  BY <2>1, <2>3, <3>1, <3>2 DEF TypeOK
  <2>4. CASE t # cur
    <3>1. cache'[t] = cache[t]
      BY <2>4 DEF TypeOK
    <3> QED  BY <1>3, <2>1, <2>2, <2>4, <3>1 DEF Loading
  <2> QED  BY <2>3, <2>4
<1> QED  BY <1>1, <1>2, <1>3 DEF Loading

\* The first scan has met all untouched tiles, and no scan purges one.
LEMMA EndScanLoading ==
  ASSUME JInv, EndScan
  PROVE  Loading'
  BY WatcherAssumption DEF EndScan, config, disk, scan, watcher, Static, JInv, IInv, TypeOK, Times,
     Overlooked, Slots, Loading, Untouched, Met, Scanning, Trackable

\* The constructor may go on.
LEMMA SetInitializedLoading ==
  ASSUME JInv, SetInitialized
  PROVE  Loading'
  BY WatcherAssumption DEF SetInitialized, config, disk, scan, watcher, Static, JInv, IInv, TypeOK, Times,
     Overlooked, Slots, Loading, Untouched, Met, Scanning, Trackable

\* The constructor is woken.
LEMMA NotifyLoading ==
  ASSUME JInv, Notify
  PROVE  Loading'
  BY WatcherAssumption DEF Notify, config, disk, scan, watcher, Static, JInv, IInv, TypeOK, Times,
     Overlooked, Slots, Loading, Untouched, Met, Scanning, Trackable

\* The constructor is ready only once initialized is set.
LEMMA ConstructLoading ==
  ASSUME JInv, Construct
  PROVE  Loading'
  BY DEF Construct, CtorCheck, CtorBlock, CtorTimeout, config, disk, scan, watcher, JInv, Loading,
         Untouched, Met, Scanning, Trackable, Static

\* One step of anyone preserves both invariants.
LEMMA NextLoading ==
  ASSUME JInv, [Next]_vars
  PROVE  JInv'
<1>1. IInv'
  BY NextInv DEF JInv
<1>2. CASE Watch
  BY <1>1, <1>2, BeginScanLoading, RemapFailsLoading, VisitLoading, VisitVanishedLoading,
     ReadTileLoading, UpdateTileLoading, EndScanLoading, SetInitializedLoading, NotifyLoading
  DEF Watch, JInv
<1>3. CASE Construct
  BY <1>1, <1>3, ConstructLoading DEF JInv
<1>4. CASE Outside
  BY <1>1, <1>4, TickLoading, BeginWriteLoading, EndWriteLoading, LogChangeLoading, RemoveLoading
  DEF Outside, JInv
<1>5. CASE UNCHANGED vars
  BY <1>1, <1>5 DEF vars, config, disk, scan, watcher, JInv, Loading, Untouched, Met, Scanning,
                    Trackable, Static
<1> QED  BY <1>2, <1>3, <1>4, <1>5 DEF Next

----------------------------------------------------------------------------
\* Type correctness of the watcher.
THEOREM TypeCorrect == Spec => []TypeOK
<1>1. IInv => TypeOK
  BY DEF IInv
<1> QED  BY <1>1, InitInv, NextInv, PTL DEF Spec

\* The reload rule of the watcher misses no announced update, whatever the interleaving of
\* writes with the scan and however many of them fall into one second.
THEOREM NoUpdateIsMissed == Spec => []NoMissedUpdate
<1>1. IInv => NoMissedUpdate
  BY DEF IInv
<1> QED  BY <1>1, InitInv, NextInv, PTL DEF Spec

\* Once the constructor lets get() go on, every tile that was there before the start and
\* has not been touched since is in the cache, and no later scan purges it.
THEOREM ReadyIsLoaded == Spec => []ReadyMeansLoaded
<1>1. JInv => ReadyMeansLoaded
  BY DEF JInv, IInv, TypeOK, Loading, Untouched, Met, ReadyMeansLoaded
<1>2. Init => JInv
  BY InitInv, InitLoading DEF JInv
<1>3. JInv /\ [Next]_vars => JInv'
  BY NextLoading
<1> QED  BY <1>1, <1>2, <1>3, PTL DEF Spec

====
