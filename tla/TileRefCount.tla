------------------------------ MODULE TileRefCount ------------------------------
(***************************************************************************)
(* The lifetime of tiles in the synchronized tile cache: graph_tile_ptr in *)
(* src/valhalla/baldr/graphtileptr.h and graphtile.h, used by              *)
(* SynchronizedTileCache in src/src/baldr/graphreader.cc.                  *)
(*                                                                         *)
(* A tile counts its references and is deleted by whoever drops the last   *)
(* one.  The lock of the cache is held while a reference is copied out of  *)
(* the cache or dropped by it, but not when a thread drops its own.  With  *)
(* ENABLE_THREAD_SAFE_TILE_REF_COUNT the count changes in one step, else   *)
(* it is read and written in two.                                          *)
(*                                                                         *)
(* Abstractions.  The cache is about one tile id; each time the tile is    *)
(* loaded again it is a new object.  A thread has one reference at a time. *)
(***************************************************************************)
EXTENDS Integers, FiniteSets

CONSTANTS
  Threads,
  ThreadSafe,   \* ENABLE_THREAD_SAFE_TILE_REF_COUNT
  MaxObjects    \* bound on the times the tile is loaded

ASSUME RefAssumption ==
  /\ IsFiniteSet(Threads)
  /\ ThreadSafe \in BOOLEAN
  /\ MaxObjects \in Nat

VARIABLES
  count,     \* references each object believes to have
  freed,     \* objects that are deleted
  loaded,    \* objects made so far
  cached,    \* the object in the cache, 0 if none
  lock,      \* the threads in an operation of the cache: at most one
  pc,
  ref,       \* the object each thread refers to, 0 if none
  reg        \* the count as read by a thread that is changing it

vars == <<count, freed, loaded, cached, lock, pc, ref, reg>>

Objects == 1 .. MaxObjects

Init ==
  /\ count = [o \in Objects |-> 0]
  /\ freed = {}
  /\ loaded = 0
  /\ cached = 0
  /\ lock = {}
  /\ pc = [th \in Threads |-> "idle"]
  /\ ref = [th \in Threads |-> 0]
  /\ reg = [th \in Threads |-> 0]

----------------------------------------------------------------------------
Go(th, from, to) ==
  /\ pc[th] = from
  /\ pc' = [pc EXCEPT ![th] = to]

\* The count as the thread sees it when it writes it.
Seen(th, o) == IF ThreadSafe THEN count[o] ELSE reg[th]

\* Faulty variant: the reference that stays in the cache is not counted.
PutUncounted(th) ==
  /\ pc[th] = "idle" /\ ref[th] = 0
  /\ lock = {} /\ cached = 0 /\ loaded < MaxObjects
  /\ loaded' = loaded + 1
  /\ count' = [count EXCEPT ![loaded + 1] = 1]
  /\ cached' = loaded + 1
  /\ ref' = [ref EXCEPT ![th] = loaded + 1]
  /\ UNCHANGED <<freed, lock, pc, reg>>

\* A miss: the tile is loaded and put into the cache, and a copy of the reference is
\* returned.  No other thread knows the object before the lock is released.
Put(th) ==
  /\ pc[th] = "idle" /\ ref[th] = 0
  /\ lock = {} /\ cached = 0 /\ loaded < MaxObjects
  /\ loaded' = loaded + 1
  /\ count' = [count EXCEPT ![loaded + 1] = 2]
  /\ cached' = loaded + 1
  /\ ref' = [ref EXCEPT ![th] = loaded + 1]
  /\ UNCHANGED <<freed, lock, pc, reg>>

\* A hit: under the lock, the reference in the cache is copied.
GetBegin(th) ==
  /\ ref[th] = 0
  /\ lock = {} /\ cached # 0
  /\ lock' = {th}
  /\ Go(th, "idle", "get")
  /\ reg' = [reg EXCEPT ![th] = count[cached]]
  /\ UNCHANGED <<count, freed, loaded, cached, ref>>

\* Faulty variant: the copy is counted twice.
GetEndTwice(th) ==
  /\ Go(th, "get", "idle")
  /\ count' = [count EXCEPT ![cached] = Seen(th, cached) + 2]
  /\ ref' = [ref EXCEPT ![th] = cached]
  /\ lock' = {}
  /\ UNCHANGED <<freed, loaded, cached, reg>>

GetEnd(th) ==
  /\ Go(th, "get", "idle")
  /\ count' = [count EXCEPT ![cached] = Seen(th, cached) + 1]
  /\ ref' = [ref EXCEPT ![th] = cached]
  /\ lock' = {}
  /\ UNCHANGED <<freed, loaded, cached, reg>>

\* The reference to o is dropped, and o with it if that was the last one.
Drop(th, o) ==
  /\ count' = [count EXCEPT ![o] = Seen(th, o) - 1]
  /\ freed' = IF Seen(th, o) = 1 THEN freed \cup {o} ELSE freed

\* A thread drops its reference, without the lock.
ReleaseBegin(th) ==
  /\ ref[th] # 0
  /\ Go(th, "idle", "release")
  /\ reg' = [reg EXCEPT ![th] = count[ref[th]]]
  /\ UNCHANGED <<count, freed, loaded, cached, lock, ref>>

ReleaseEnd(th) ==
  /\ Go(th, "release", "idle")
  /\ Drop(th, ref[th])
  /\ ref' = [ref EXCEPT ![th] = 0]
  /\ UNCHANGED <<loaded, cached, lock, reg>>

\* Clear() or Trim(): the cache drops its reference, under the lock.
ClearBegin(th) ==
  /\ lock = {} /\ cached # 0
  /\ lock' = {th}
  /\ Go(th, "idle", "clear")
  /\ reg' = [reg EXCEPT ![th] = count[cached]]
  /\ UNCHANGED <<count, freed, loaded, cached, ref>>

\* Faulty variant: the reference is forgotten but not dropped.
ClearEndForgets(th) ==
  /\ Go(th, "clear", "idle")
  /\ cached' = 0
  /\ lock' = {}
  /\ UNCHANGED <<count, freed, loaded, ref, reg>>

ClearEnd(th) ==
  /\ Go(th, "clear", "idle")
  /\ Drop(th, cached)
  /\ cached' = 0
  /\ lock' = {}
  /\ UNCHANGED <<loaded, ref, reg>>

Next ==
  \E th \in Threads :
    \/ Put(th)
    \/ GetBegin(th) \/ GetEnd(th)
    \/ ReleaseBegin(th) \/ ReleaseEnd(th)
    \/ ClearBegin(th) \/ ClearEnd(th)

Spec == Init /\ [][Next]_vars

----------------------------------------------------------------------------
TypeOK ==
  /\ count \in [Objects -> 0 .. Cardinality(Threads) + 1]
  /\ freed \subseteq Objects
  /\ loaded \in 0 .. MaxObjects
  /\ cached \in 0 .. loaded
  /\ lock \subseteq Threads
  /\ pc \in [Threads -> {"idle", "get", "release", "clear"}]
  /\ ref \in [Threads -> 0 .. loaded]
  /\ reg \in [Threads -> 0 .. Cardinality(Threads) + 1]

\* A tile that a thread or the cache refers to is not deleted.
HeldIsLive ==
  /\ cached \notin freed
  /\ \A th \in Threads : ref[th] \notin freed

\* A tile that nobody refers to any more is deleted.
NoLeak ==
  \A o \in 1 .. loaded : o = cached \/ o \in freed \/ \E th \in Threads : ref[th] = o

\* A tile lives exactly as long as a thread or the cache refers to it, in whatever order
\* they copy, drop and clear their references.
LiveExactlyWhileUsed == HeldIsLive /\ NoLeak

====
