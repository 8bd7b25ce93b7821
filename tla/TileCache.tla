------------------------------- MODULE TileCache -------------------------------
(***************************************************************************)
(* GraphReader::GetGraphTile() and the tile caches behind it:              *)
(* src/src/baldr/graphreader.cc, src/valhalla/baldr/graphreader.h.         *)
(*                                                                         *)
(* Threads ask for tiles.  A tile comes from the cache, else from the tile *)
(* extract, or from a file or else a download, and is then put into the    *)
(* cache.  The cache and the set of failed downloads have a lock each that *)
(* is held for one operation only, so another thread can load the same     *)
(* tile in between.                                                        *)
(*                                                                         *)
(* Abstractions.  A tile is its id and its end offset, the size that its   *)
(* header states.  Sizes are small numbers; a size_t wraps at Word.        *)
(***************************************************************************)
EXTENDS Integers, Sequences, FiniteSets, SequencesExt

CONSTANTS
  Threads,
  Tiles,
  Sizes,       \* end offsets that tiles may have
  Configs,     \* pairs <<kind of cache, source of tiles>>
  max_cache_size,
  AVERAGE_MM_TILE_SIZE,  \* what a tile of the extract counts for
  Word,        \* 2^64
  tile_getter, \* TRUE: tiles may be downloaded
  Server,      \* tiles that the server has
  MaxReplace,  \* bound on tile files replaced by other jobs
  MaxHeld      \* bound on the tiles that a flat cache piles up

ASSUME CacheAssumption ==
  /\ Tiles # {} /\ Sizes \subseteq Nat \ {0}
  /\ Configs \subseteq {"flat", "simple", "lru_soft", "lru_hard"} \X {"files", "extract"}
  /\ max_cache_size \in Nat /\ max_cache_size < Word
  /\ AVERAGE_MM_TILE_SIZE \in Nat
  /\ Word \in Nat \ {0}
  /\ tile_getter \in BOOLEAN
  /\ Server \subseteq Tiles
  /\ MaxReplace \in Nat /\ MaxHeld \in Nat

VARIABLES
  config,      \* kind of cache and source of tiles
  disk,        \* end offset of each tile in tile_dir or in the extract; 0: it is not there
  replaced,
  list,        \* the tiles held: a vector, or a list with the latest used first
  ids,         \* keys of the map of a simple or LRU cache
  slot,        \* cache_indices_ of a flat cache; 0: none
  cache_size,
  _404s,
  pc, want,    \* per thread: where it is in GetGraphTile(), and the tile asked for
  tile,        \* per thread: end offset of the tile it loaded
  answer       \* per thread: what its last call came to

cache == <<list, ids, slot, cache_size>>
vars  == <<config, disk, replaced, cache, _404s, pc, want, tile, answer>>

kind   == config[1]
source == config[2]
Lru    == kind \in {"lru_soft", "lru_hard"}
Hard   == kind = "lru_hard"

Entry == [id : Tiles, end : Sizes]

\* What a call comes to: a tile, nullptr, an exception, or a tile that is freed already.
Got(e) == <<"tile", e.id>>
Null   == <<"null">>
Threw  == <<"threw">>
Freed  == <<"freed">>

Init ==
  /\ config \in Configs
  /\ disk \in [Tiles -> Sizes \cup {0}]
  /\ replaced = 0
  /\ list = <<>> /\ ids = {} /\ slot = [t \in Tiles |-> 0] /\ cache_size = 0
  /\ _404s = {}
  /\ pc = [th \in Threads |-> "idle"]
  /\ want \in [Threads -> {CHOOSE t \in Tiles : TRUE}]
  /\ tile = [th \in Threads |-> 0]
  /\ answer = [th \in Threads |-> Null]

----------------------------------------------------------------------------
\* Arithmetic of size_t.
Add(a, b) == (a + b) % Word
Sub(a, b) == (a - b) % Word

OverCommitted == cache_size > max_cache_size

\* Where the tile t is in the list, if the cache finds it.
Find(t) ==
  IF kind = "flat"
  THEN {k \in {slot[t]} : k # 0}
  ELSE {k \in DOMAIN list : t \in ids /\ list[k].id = t}

MoveToLruHead(l, k) == <<l[k]>> \o RemoveAt(l, k)

\* Faulty variant: the keys of evicted tiles stay in the map.
TrimToFitKeepsKeys(l, size, required) ==
  LET SizeAt[k \in 0 .. Len(l)] ==
        IF k = Len(l) THEN size ELSE Sub(SizeAt[k + 1], l[k + 1].end)
      Fits(k) == SizeAt[k] <= max_cache_size /\ max_cache_size - SizeAt[k] >= required
      kept == CHOOSE k \in 0 .. Len(l) :
                /\ k = 0 \/ Fits(k)
                /\ \A m \in k + 1 .. Len(l) : ~Fits(m)
  IN [list |-> SubSeq(l, 1, kept), gone |-> {}, size |-> SizeAt[kept]]

\* TrimToFit(): tiles leave from the back of the list l until required more bytes fit.
\* SizeAt[k] is the count when k tiles are left.
TrimToFit(l, size, required) ==
  LET SizeAt[k \in 0 .. Len(l)] ==
        IF k = Len(l) THEN size ELSE Sub(SizeAt[k + 1], l[k + 1].end)
      Fits(k) == SizeAt[k] <= max_cache_size /\ max_cache_size - SizeAt[k] >= required
      kept == CHOOSE k \in 0 .. Len(l) :
                /\ k = 0 \/ Fits(k)
                /\ \A m \in k + 1 .. Len(l) : ~Fits(m)
  IN [list |-> SubSeq(l, 1, kept),
      gone |-> {l[k].id : k \in kept + 1 .. Len(l)},
      size |-> SizeAt[kept]]

Return(th, a) ==
  /\ pc' = [pc EXCEPT ![th] = "idle"]
  /\ answer' = [answer EXCEPT ![th] = a]

----------------------------------------------------------------------------
\* GetGraphTile(t) is called.  Only the synchronized cache is shared by threads, and
\* that is a flat or an LRU cache.
Call(th, t) ==
  /\ pc[th] = "idle"
  /\ kind = "simple" => \A o \in Threads : pc[o] = "idle"
  /\ Len(list) < MaxHeld
  /\ pc' = [pc EXCEPT ![th] = "get"]
  /\ want' = [want EXCEPT ![th] = t]
  /\ answer' = [answer EXCEPT ![th] = Null]
  /\ UNCHANGED <<config, disk, replaced, cache, _404s, tile>>

\* cache_->Get(): a hit is moved to the head of an LRU list.
Get(th) ==
  /\ pc[th] = "get"
  /\ \/ /\ Find(want[th]) = {}
        /\ pc' = [pc EXCEPT ![th] = "load"]
        /\ UNCHANGED <<list, answer>>
     \/ \E k \in Find(want[th]) :
          /\ list' = IF Lru THEN MoveToLruHead(list, k) ELSE list
          /\ Return(th, Got(list[k]))
  /\ UNCHANGED <<config, disk, replaced, ids, slot, cache_size, _404s, want, tile>>

\* The tile is looked for in the extract, or among the files.
Load(th) ==
  /\ pc[th] = "load"
  /\ LET end == disk[want[th]]
     IN \/ /\ end # 0
           /\ tile' = [tile EXCEPT ![th] = end]
           /\ pc' = [pc EXCEPT ![th] = "put"]
           /\ UNCHANGED answer
        \/ /\ end = 0
           /\ source = "extract" \/ ~tile_getter
           /\ Return(th, Null)
           /\ UNCHANGED tile
        \/ /\ end = 0
           /\ source = "files" /\ tile_getter
           /\ pc' = [pc EXCEPT ![th] = "look"]
           /\ UNCHANGED <<tile, answer>>
  /\ UNCHANGED <<config, disk, replaced, cache, _404s, want>>

\* A download that failed once is not tried again.
Look(th) ==
  /\ pc[th] = "look"
  /\ IF want[th] \in _404s
     THEN Return(th, Null)
     ELSE pc' = [pc EXCEPT ![th] = "fetch"] /\ UNCHANGED answer
  /\ UNCHANGED <<config, disk, replaced, cache, _404s, want, tile>>

\* CacheTileURL(): the tile is downloaded and, if possible, saved as a file...
Fetch(th) ==
  /\ pc[th] = "fetch"
  /\ want[th] \in Server
  /\ \E end \in Sizes :
       /\ tile' = [tile EXCEPT ![th] = end]
       /\ disk' \in {disk, [disk EXCEPT ![want[th]] = end]}
  /\ pc' = [pc EXCEPT ![th] = "put"]
  /\ UNCHANGED <<config, replaced, cache, _404s, want, answer>>

\* ...or the download fails, because the server has no such tile or for another reason.
FetchFails(th) ==
  /\ pc[th] = "fetch"
  /\ pc' = [pc EXCEPT ![th] = "note"]
  /\ UNCHANGED <<config, disk, replaced, cache, _404s, want, tile, answer>>

Note(th) ==
  /\ pc[th] = "note"
  /\ _404s' = _404s \cup {want[th]}
  /\ Return(th, Null)
  /\ UNCHANGED <<config, disk, replaced, cache, want, tile>>

----------------------------------------------------------------------------
\* What a tile counts for when it is put into the cache.
Charge(end) == IF source = "extract" THEN AVERAGE_MM_TILE_SIZE ELSE end

\* Faulty variant: the index is that of the tile before.
PutFlatOffByOne(th, e) ==
  /\ cache_size' = Add(cache_size, Charge(e.end))
  /\ slot' = [slot EXCEPT ![e.id] = Len(list)]
  /\ list' = Append(list, e)
  /\ Return(th, Got(e))
  /\ UNCHANGED ids

\* FlatTileCache::Put()
PutFlat(th, e) ==
  /\ cache_size' = Add(cache_size, Charge(e.end))
  /\ slot' = [slot EXCEPT ![e.id] = Len(list) + 1]
  /\ list' = Append(list, e)
  /\ Return(th, Got(e))
  /\ UNCHANGED ids

\* SimpleTileCache::Put(): a tile that is there is kept.
PutSimple(th, e) ==
  /\ cache_size' = Add(cache_size, Charge(e.end))
  /\ ids' = ids \cup {e.id}
  /\ list' = IF e.id \in ids THEN list ELSE Append(list, e)
  /\ \E k \in DOMAIN list' : list'[k].id = e.id /\ Return(th, Got(list'[k]))
  /\ UNCHANGED slot

\* Faulty variant: the room is made for the tile that is in the cache.
PutNewTrimsLate(th, e) ==
  LET s == TrimToFit(list, cache_size, 0)
      r == IF Hard THEN s ELSE [list |-> list, gone |-> {}, size |-> cache_size]
  IN /\ list' = <<e>> \o r.list
     /\ ids' = (ids \ r.gone) \cup {e.id}
     /\ cache_size' = Add(r.size, Charge(e.end))
     /\ Return(th, Got(e))
     /\ UNCHANGED slot

\* TileCacheLRU::Put() of a tile that is not in the cache.
PutNew(th, e) ==
  LET s == TrimToFit(list, cache_size, Charge(e.end))
      r == IF Hard THEN s ELSE [list |-> list, gone |-> {}, size |-> cache_size]
  IN /\ list' = <<e>> \o r.list
     /\ ids' = (ids \ r.gone) \cup {e.id}
     /\ cache_size' = Add(r.size, Charge(e.end))
     /\ Return(th, Got(e))
     /\ UNCHANGED slot

\* Faulty variant: room is made before the entry is moved to the head.
PutAgainTrimsFirst(th, e, k) ==
  LET old   == list[k].end
      grows == Hard /\ Charge(e.end) > old
      r == IF grows THEN TrimToFit(list, cache_size, Charge(e.end) - old)
           ELSE [list |-> list, gone |-> {}, size |-> cache_size]
  IN IF k > Len(r.list)
     THEN /\ list' = r.list
          /\ ids' = ids \ r.gone
          /\ cache_size' = r.size
          /\ Return(th, Freed)
          /\ UNCHANGED slot
     ELSE /\ list' = [MoveToLruHead(r.list, k) EXCEPT ![1] = e]
          /\ ids' = ids \ r.gone
          /\ cache_size' = Add(Sub(r.size, old), Charge(e.end))
          /\ Return(th, Got(e))
          /\ UNCHANGED slot

\* Faulty variant: the count grows by the new size only.
PutAgainCountsTwice(th, e, k) ==
  LET old   == list[k].end
      head  == MoveToLruHead(list, k)
      grows == Hard /\ Charge(e.end) > old
      r == IF grows THEN TrimToFit(head, cache_size, Charge(e.end) - old)
           ELSE [list |-> head, gone |-> {}, size |-> cache_size]
  IN /\ list' = [r.list EXCEPT ![1] = e]
     /\ ids' = ids \ r.gone
     /\ cache_size' = Add(r.size, Charge(e.end))
     /\ Return(th, Got(e))
     /\ UNCHANGED slot

\* TileCacheLRU::Put() of a tile that another thread has put there meanwhile, as entry k.
\* Were the entry itself evicted, the code would go on with a freed one.
PutAgain(th, e, k) ==
  LET old   == list[k].end
      head  == MoveToLruHead(list, k)
      grows == Hard /\ Charge(e.end) > old
      r == IF grows THEN TrimToFit(head, cache_size, Charge(e.end) - old)
           ELSE [list |-> head, gone |-> {}, size |-> cache_size]
  IN /\ ids' = ids \ r.gone
     /\ IF r.list = <<>>
        THEN /\ list' = r.list
             /\ cache_size' = r.size
             /\ Return(th, Freed)
        ELSE /\ list' = [r.list EXCEPT ![1] = e]
             /\ cache_size' = Add(Sub(r.size, old), Charge(e.end))
             /\ Return(th, Got(e))
     /\ UNCHANGED slot

\* cache_->Put(): a tile larger than an LRU cache makes it throw.
Put(th) ==
  /\ pc[th] = "put"
  /\ LET e == [id |-> want[th], end |-> tile[th]]
     IN \/ kind = "flat" /\ PutFlat(th, e)
        \/ kind = "simple" /\ PutSimple(th, e)
        \/ Lru /\ Charge(e.end) > max_cache_size /\ Return(th, Threw) /\ UNCHANGED cache
        \/ Lru /\ Charge(e.end) <= max_cache_size /\ Find(e.id) = {} /\ PutNew(th, e)
        \/ Lru /\ Charge(e.end) <= max_cache_size /\ \E k \in Find(e.id) : PutAgain(th, e, k)
  /\ UNCHANGED <<config, disk, replaced, _404s, want, tile>>

----------------------------------------------------------------------------
\* Faulty variant: the indices of a flat cache survive.
ClearKeepsIndices ==
  list' = <<>> /\ ids' = {} /\ cache_size' = 0 /\ UNCHANGED slot

Clear ==
  list' = <<>> /\ ids' = {} /\ slot' = [t \in Tiles |-> 0] /\ cache_size' = 0

\* The cleanup of a worker after a request: OverCommitted()...
Cleanup(th) ==
  /\ pc[th] = "idle"
  /\ kind = "simple" => \A o \in Threads : pc[o] = "idle"
  /\ OverCommitted
  /\ pc' = [pc EXCEPT ![th] = "trim"]
  /\ UNCHANGED <<config, disk, replaced, cache, _404s, want, tile, answer>>

\* Faulty variant: a cache with a single tile is left alone.
TrimSparesLast(th) ==
  /\ pc[th] = "trim"
  /\ pc' = [pc EXCEPT ![th] = "idle"]
  /\ IF Lru
     THEN LET r == TrimToFit(list, cache_size, 0)
          IN list' = r.list /\ ids' = ids \ r.gone /\ cache_size' = r.size /\ UNCHANGED slot
     ELSE IF Len(list) > 1 THEN Clear ELSE UNCHANGED cache
  /\ UNCHANGED <<config, disk, replaced, _404s, want, tile, answer>>

\* ...and Trim(), which by then may have nothing to do.
Trim(th) ==
  /\ pc[th] = "trim"
  /\ pc' = [pc EXCEPT ![th] = "idle"]
  /\ IF Lru
     THEN LET r == TrimToFit(list, cache_size, 0)
          IN list' = r.list /\ ids' = ids \ r.gone /\ cache_size' = r.size /\ UNCHANGED slot
     ELSE Clear
  /\ UNCHANGED <<config, disk, replaced, _404s, want, tile, answer>>

\* GraphReader::Clear()
ClearCache(th) ==
  /\ pc[th] = "idle"
  /\ kind = "simple" => \A o \in Threads : pc[o] = "idle"
  /\ list # <<>>
  /\ Clear
  /\ UNCHANGED <<config, disk, replaced, _404s, pc, want, tile, answer>>

\* Another job replaces the file of a tile.
Replace(t, end) ==
  /\ source = "files"
  /\ replaced < MaxReplace
  /\ disk[t] # end
  /\ replaced' = replaced + 1
  /\ disk' = [disk EXCEPT ![t] = end]
  /\ UNCHANGED <<config, cache, _404s, pc, want, tile, answer>>

Step(th) ==
  \/ \E t \in Tiles : Call(th, t)
  \/ Get(th) \/ Load(th) \/ Look(th) \/ Fetch(th) \/ FetchFails(th) \/ Note(th) \/ Put(th)
  \/ Cleanup(th) \/ Trim(th) \/ ClearCache(th)

Next ==
  \/ \E th \in Threads : Step(th)
  \/ \E t \in Tiles, end \in Sizes : Replace(t, end)

Spec == Init /\ [][Next]_vars

----------------------------------------------------------------------------
TypeOK ==
  /\ config \in Configs
  /\ disk \in [Tiles -> Sizes \cup {0}]
  /\ replaced \in 0 .. MaxReplace
  /\ list \in Seq(Entry)
  /\ ids \subseteq Tiles
  /\ slot \in [Tiles -> 0 .. Len(list)]
  /\ cache_size \in 0 .. Word - 1
  /\ _404s \subseteq Tiles
  /\ pc \in [Threads -> {"idle", "get", "load", "look", "fetch", "note", "put", "trim"}]
  /\ want \in [Threads -> Tiles]
  /\ tile \in [Threads -> Sizes \cup {0}]
  /\ answer \in [Threads -> {Got(e) : e \in Entry} \cup {Null, Threw, Freed}]

\* What the tiles of list l come to, if a tile of size end counts for weight[end].
Bytes(weight, l) ==
  LET sum[k \in 0 .. Len(l)] == IF k = 0 THEN 0 ELSE sum[k - 1] + weight[l[k].end]
  IN  sum[Len(l)]

HeldBytes == Bytes([end \in Sizes |-> Charge(end)], list)

\* cache_size_ is the size of the tiles held, also after two threads have loaded the same
\* tile, in different sizes perhaps, and after tiles were evicted.
SizeIsOfTilesHeld == cache_size = HeldBytes

\* The tiles in an LRU cache with hard control never exceed its limit.
NeverOvercommitted == Hard => HeldBytes <= max_cache_size

\* Map and list of an LRU cache are in step: one entry for each key.
MapMatchesList ==
  kind # "flat" =>
    /\ ids = {list[k].id : k \in DOMAIN list}
    /\ \A j, k \in DOMAIN list : list[j].id = list[k].id => j = k

\* The books of the cache balance, whatever loads, updates and evictions of several threads
\* came in between: the bytes counted are those held, and the map and the list agree.
BooksBalance == SizeIsOfTilesHeld /\ MapMatchesList

\* GetGraphTile() returns the tile that was asked for, whatever was cleared, evicted or
\* put by others meanwhile.
RightTile ==
  \A th \in Threads : pc[th] = "idle" /\ answer[th][1] = "tile" => answer[th][2] = want[th]

\* An entry that is updated is not evicted to make room for itself.
UpdatedStays == \A th \in Threads : answer[th] # Freed

\* A caller holds what it asked for: no other thread's clear, eviction or put, nor the
\* eviction that an update itself starts, gives it another tile or a freed one.
TilesRight == RightTile /\ UpdatedStays

\* Trim() ends the overcommitment.
TrimRelieves == [][\A th \in Threads : Trim(th) => ~OverCommitted']_vars

====
