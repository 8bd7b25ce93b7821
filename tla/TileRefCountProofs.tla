--------------------------- MODULE TileRefCountProofs ---------------------------
(***************************************************************************)
(* Proofs about the lifetime of tiles, for any number of threads: with     *)
(* counts that change in one step no tile is deleted while it is in use,   *)
(* and none is left behind.                                                *)
(***************************************************************************)
EXTENDS TileRefCount, FiniteSetTheorems, TLAPS

Holders(o) == {th \in Threads : ref[th] = o}
InCache(o) == IF cached = o THEN 1 ELSE 0

\* Types without the bound on counts, which follows from Counted.
Shape ==
  /\ count \in [Objects -> Nat]
  /\ freed \subseteq 1 .. loaded
  /\ loaded \in 0 .. MaxObjects
  /\ cached \in 0 .. loaded
  /\ lock \subseteq Threads
  /\ pc \in [Threads -> {"idle", "get", "release", "clear"}]
  /\ ref \in [Threads -> 0 .. loaded]

\* Who works on the cache has the lock, and the cache something to work on.
Locked ==
  \A th \in Threads :
    /\ pc[th] \in {"get", "clear"} => lock = {th} /\ cached # 0
    /\ pc[th] = "get" => ref[th] = 0
    /\ pc[th] = "release" => ref[th] # 0

\* Each reference is counted, and nothing else.
Counted == \A o \in Objects : count[o] = Cardinality(Holders(o)) + InCache(o)

\* Deleted are the objects whose count has come down to zero.
Deleted == \A o \in 1 .. loaded : o \in freed <=> count[o] = 0

IInv == Shape /\ Locked /\ Counted /\ Deleted

----------------------------------------------------------------------------
\* A set of holders is finite, and its size is a number.
LEMMA HoldersFinite ==
  ASSUME NEW o
  PROVE  /\ IsFiniteSet(Holders(o))
         /\ Cardinality(Holders(o)) \in Nat
         /\ Cardinality(Holders(o)) <= Cardinality(Threads)
<1>1. Holders(o) \subseteq Threads
  BY DEF Holders
<1> QED  BY <1>1, FS_Subset, FS_CardinalityType, RefAssumption

\* Nobody holds an object that has not been made.
LEMMA NoHolders ==
  ASSUME NEW o, Holders(o) = {}
  PROVE  Cardinality(Holders(o)) = 0
BY FS_EmptySet

\* Initially there are no objects.
LEMMA InitInv == Init => IInv
<1> SUFFICES ASSUME Init PROVE IInv
  OBVIOUS
<1> USE RefAssumption DEF Init
<1>1. Shape
  BY DEF Shape, Objects
<1>2. Locked /\ Deleted
  BY DEF Locked, Deleted
<1>3. Counted
  <2> SUFFICES ASSUME NEW o \in Objects PROVE count[o] = Cardinality(Holders(o)) + InCache(o)
    BY DEF Counted
  <2>1. Holders(o) = {}
    BY DEF Holders, Objects
  <2>2. cached # o /\ count[o] = 0
    BY DEF Objects
  <2> QED  BY <2>1, <2>2, NoHolders DEF InCache
<1> QED  BY <1>1, <1>2, <1>3 DEF IInv

\* A thread gains a reference to an object.
LEMMA Gains ==
  ASSUME Shape, NEW th \in Threads, NEW x \in Objects, ref[th] = 0,
         ref' = [ref EXCEPT ![th] = x]
  PROVE  /\ Cardinality(Holders(x))' = Cardinality(Holders(x)) + 1
         /\ \A o \in Objects : o # x => Cardinality(Holders(o))' = Cardinality(Holders(o))
<1>1. th \notin Holders(x)
  BY DEF Holders, Objects
<1>2. Holders(x)' = Holders(x) \cup {th}
  BY DEF Shape, Holders
<1>3. Cardinality(Holders(x) \cup {th}) = Cardinality(Holders(x)) + 1
  BY <1>1, HoldersFinite, FS_AddElement
<1>4. ASSUME NEW o \in Objects, o # x PROVE Holders(o)' = Holders(o)
  BY <1>4 DEF Shape, Holders, Objects
<1> QED  BY <1>2, <1>3, <1>4

\* A thread loses its reference to an object.
LEMMA Loses ==
  ASSUME Shape, NEW th \in Threads, ref[th] \in Objects,
         ref' = [ref EXCEPT ![th] = 0]
  PROVE  /\ Cardinality(Holders(ref[th])) \in Nat \ {0}
         /\ Cardinality({t \in Threads : ref'[t] = ref[th]}) = Cardinality(Holders(ref[th])) - 1
         /\ \A o \in Objects : o # ref[th] => Cardinality(Holders(o))' = Cardinality(Holders(o))
<1> DEFINE x == ref[th]
<1>1. th \in Holders(x)
  BY DEF Holders
<1>2. {t \in Threads : ref'[t] = x} = Holders(x) \ {th}
  BY DEF Shape, Holders, Objects
<1>3. Cardinality(Holders(x) \ {th}) = Cardinality(Holders(x)) - 1
  BY <1>1, HoldersFinite, FS_RemoveElement
<1>4. Cardinality(Holders(x)) # 0
  BY <1>1, HoldersFinite, FS_EmptySet
<1>5. ASSUME NEW o \in Objects, o # x PROVE Holders(o)' = Holders(o)
  BY <1>5 DEF Shape, Holders, Objects
<1> QED  BY <1>2, <1>3, <1>4, <1>5, HoldersFinite

----------------------------------------------------------------------------
\* A tile is loaded.
LEMMA PutInv ==
  ASSUME IInv, NEW u \in Threads, Put(u)
  PROVE  IInv'
<1> USE RefAssumption DEF Put
<1>0. PICK x : x = loaded + 1
  OBVIOUS
<1>1. /\ x = loaded + 1 /\ loaded' = x /\ cached' = x
      /\ x \in Objects /\ x \notin 0 .. loaded /\ loaded \in Nat
  BY <1>0 DEF IInv, Shape, Objects
<1>2. Shape'
  BY <1>1 DEF IInv, Shape, Objects
<1>3. Locked'
  BY DEF IInv, Shape, Locked
<1>4. Counted'
  <2>1. Holders(x) = {}
    BY <1>1 DEF IInv, Shape, Holders
  <2>2. /\ Cardinality(Holders(x))' = 1
        /\ \A o \in Objects : o # x => Cardinality(Holders(o))' = Cardinality(Holders(o))
    <3>1. Cardinality(Holders(x)) = 0
      BY <2>1, NoHolders
    <3>2. Shape /\ ref[u] = 0 /\ ref' = [ref EXCEPT ![u] = x] /\ x \in Objects
      BY <1>1 DEF IInv
    <3>3. /\ Cardinality(Holders(x))' = Cardinality(Holders(x)) + 1
          /\ \A o \in Objects : o # x => Cardinality(Holders(o))' = Cardinality(Holders(o))
      BY <3>2, Gains
    <3> QED  BY <3>1, <3>3
  <2> SUFFICES ASSUME NEW o \in Objects
               PROVE  count'[o] = Cardinality(Holders(o))' + InCache(o)'
    BY DEF Counted
  <2>3. CASE o = x
    BY <1>1, <2>2, <2>3 DEF IInv, Shape, InCache
  <2>4. CASE o # x
    BY <1>1, <2>2, <2>4, HoldersFinite DEF IInv, Shape, Counted, InCache, Objects
  <2> QED  BY <2>3, <2>4
<1>5. Deleted'
  BY <1>1 DEF IInv, Shape, Deleted, Objects
<1> QED  BY <1>2, <1>3, <1>4, <1>5 DEF IInv

\* A hit begins: nothing is counted yet.
LEMMA GetBeginInv ==
  ASSUME IInv, NEW u \in Threads, GetBegin(u)
  PROVE  IInv'
<1> USE DEF GetBegin, Go
<1>1. Shape'
  BY DEF IInv, Shape
<1>2. Locked'
  BY DEF IInv, Shape, Locked
<1>3. Counted' /\ Deleted'
  BY DEF IInv, Counted, Deleted, Holders, InCache
<1> QED  BY <1>1, <1>2, <1>3 DEF IInv

\* A hit ends: the new reference is counted.
LEMMA GetEndInv ==
  ASSUME IInv, ThreadSafe, NEW u \in Threads, GetEnd(u)
  PROVE  IInv'
<1> USE RefAssumption DEF GetEnd, Go, Seen
<1>1. cached \in Objects /\ cached \in 1 .. loaded /\ ref[u] = 0 /\ lock = {u}
  BY DEF IInv, Shape, Locked, Objects
<1>2. Shape'
  BY <1>1 DEF IInv, Shape, Objects
<1>3. Locked'
  BY <1>1 DEF IInv, Shape, Locked
<1>4. /\ Cardinality(Holders(cached))' = Cardinality(Holders(cached)) + 1
      /\ \A o \in Objects : o # cached => Cardinality(Holders(o))' = Cardinality(Holders(o))
  <2>1. cached' = cached
    OBVIOUS
  <2> QED  BY <1>1, <2>1, Gains DEF IInv
<1>5. Counted'
  <2> SUFFICES ASSUME NEW o \in Objects
               PROVE  count'[o] = Cardinality(Holders(o))' + InCache(o)'
    BY DEF Counted
  <2>1. CASE o = cached
    BY <1>1, <1>4, <2>1, HoldersFinite DEF IInv, Shape, Counted, InCache
  <2>2. CASE o # cached
    BY <1>1, <1>4, <2>2, HoldersFinite DEF IInv, Shape, Counted, InCache
  <2> QED  BY <2>1, <2>2
<1>6. Deleted'
  <2>1. count[cached] \in Nat /\ count[cached] # 0
    BY <1>1, HoldersFinite DEF IInv, Counted, InCache
  <2> QED  BY <1>1, <2>1 DEF IInv, Shape, Deleted, Objects
<1> QED  BY <1>2, <1>3, <1>5, <1>6 DEF IInv

\* A thread is about to drop its reference.
LEMMA ReleaseBeginInv ==
  ASSUME IInv, NEW u \in Threads, ReleaseBegin(u)
  PROVE  IInv'
<1> USE DEF ReleaseBegin, Go
<1>1. Shape'
  BY DEF IInv, Shape
<1>2. Locked'
  BY DEF IInv, Shape, Locked
<1>3. Counted' /\ Deleted'
  BY DEF IInv, Counted, Deleted, Holders, InCache
<1> QED  BY <1>1, <1>2, <1>3 DEF IInv

\* A thread has dropped its reference.
LEMMA ReleaseEndInv ==
  ASSUME IInv, ThreadSafe, NEW u \in Threads, ReleaseEnd(u)
  PROVE  IInv'
<1> USE RefAssumption DEF ReleaseEnd, Go, Drop, Seen
<1> DEFINE x == ref[u]
<1>1. x \in Objects /\ x \in 1 .. loaded
  BY DEF IInv, Shape, Locked, Objects
<1>2. /\ Cardinality(Holders(x)) \in Nat \ {0}
      /\ Cardinality({t \in Threads : ref'[t] = x}) = Cardinality(Holders(x)) - 1
      /\ \A o \in Objects : o # x => Cardinality(Holders(o))' = Cardinality(Holders(o))
  <2>1. Shape /\ ref[u] \in Objects /\ ref' = [ref EXCEPT ![u] = 0]
    BY <1>1 DEF IInv
  <2> HIDE DEF ReleaseEnd, Drop
  <2> QED  BY <2>1, Loses
<1>3. count[x] \in Nat \ {0} /\ count[x] = Cardinality(Holders(x)) + InCache(x)
  BY <1>1, <1>2 DEF IInv, Counted, InCache
<1>4. Shape'
  <2>1. count[x] - 1 \in Nat
    BY <1>3
  <2>2. count' \in [Objects -> Nat]
    BY <2>1 DEF IInv, Shape
  <2>3. freed' \subseteq 1 .. loaded
    BY <1>1 DEF IInv, Shape
  <2>4. ref' \in [Threads -> 0 .. loaded]
    BY DEF IInv, Shape
  <2> QED  BY <2>2, <2>3, <2>4 DEF IInv, Shape
<1>5. Locked'
  BY DEF IInv, Shape, Locked
<1>6. Counted'
  <2> SUFFICES ASSUME NEW o \in Objects
               PROVE  count'[o] = Cardinality({t \in Threads : ref'[t] = o})
                                    + (IF cached' = o THEN 1 ELSE 0)
    BY DEF Counted, Holders, InCache
  <2>1. CASE o = x
    BY <1>1, <1>2, <1>3, <2>1 DEF IInv, Shape, InCache
  <2>2. CASE o # x
    <3>1. Cardinality({t \in Threads : ref'[t] = o}) = Cardinality(Holders(o))
      BY <1>2, <2>2 DEF Holders
    <3> QED  BY <2>2, <3>1 DEF IInv, Shape, Counted, InCache
  <2> QED  BY <2>1, <2>2
<1>7. Deleted'
  BY <1>1, <1>3 DEF IInv, Shape, Deleted, Objects
<1> QED  BY <1>4, <1>5, <1>6, <1>7 DEF IInv

\* The cache is about to be cleared.
LEMMA ClearBeginInv ==
  ASSUME IInv, NEW u \in Threads, ClearBegin(u)
  PROVE  IInv'
<1> USE DEF ClearBegin, Go
<1>1. Shape'
  BY DEF IInv, Shape
<1>2. Locked'
  BY DEF IInv, Shape, Locked
<1>3. Counted' /\ Deleted'
  BY DEF IInv, Counted, Deleted, Holders, InCache
<1> QED  BY <1>1, <1>2, <1>3 DEF IInv

\* The cache has dropped its reference.
LEMMA ClearEndInv ==
  ASSUME IInv, ThreadSafe, NEW u \in Threads, ClearEnd(u)
  PROVE  IInv'
<1> USE RefAssumption DEF ClearEnd, Go, Drop, Seen
<1>1. cached \in Objects /\ cached \in 1 .. loaded /\ lock = {u}
  BY DEF IInv, Shape, Locked, Objects
<1>2. ASSUME NEW o PROVE Holders(o)' = Holders(o)
  BY DEF Holders
<1>3. count[cached] = Cardinality(Holders(cached)) + 1 /\ count[cached] \in Nat \ {0}
  BY <1>1, HoldersFinite DEF IInv, Counted, InCache
<1>4. Shape'
  BY <1>1, <1>3 DEF IInv, Shape, Objects
<1>5. Locked'
  BY <1>1 DEF IInv, Shape, Locked
<1>6. Counted'
  <2> SUFFICES ASSUME NEW o \in Objects
               PROVE  count'[o] = Cardinality(Holders(o)) + InCache(o)'
    BY <1>2 DEF Counted
  <2>1. CASE o = cached
    BY <1>1, <1>3, <2>1, HoldersFinite DEF IInv, Shape, InCache, Objects
  <2>2. CASE o # cached
    BY <2>2 DEF IInv, Shape, Counted, InCache, Objects
  <2> QED  BY <2>1, <2>2
<1>7. Deleted'
  BY <1>1, <1>3 DEF IInv, Shape, Deleted, Objects
<1> QED  BY <1>4, <1>5, <1>6, <1>7 DEF IInv

\* Every step keeps the invariant if counts change in one step.
LEMMA StepInv == ASSUME ThreadSafe, IInv, [Next]_vars PROVE IInv'
<1>1. CASE UNCHANGED vars
  BY <1>1 DEF vars, IInv, Shape, Locked, Counted, Deleted, Holders, InCache
<1>2. CASE Next
  BY <1>2, PutInv, GetBeginInv, GetEndInv, ReleaseBeginInv, ReleaseEndInv, ClearBeginInv,
     ClearEndInv DEF Next
<1> QED  BY <1>1, <1>2

----------------------------------------------------------------------------
\* What the invariant says of tiles in use: they are counted, so they are not deleted;
\* and of tiles not in use: their count is zero.
LEMMA Meaning == IInv => HeldIsLive /\ NoLeak
<1> SUFFICES ASSUME IInv PROVE HeldIsLive /\ NoLeak
  OBVIOUS
<1>1. cached \notin freed
  <2> SUFFICES ASSUME cached \in freed PROVE FALSE
    OBVIOUS
  <2>1. cached \in 1 .. loaded /\ cached \in Objects
    BY RefAssumption DEF IInv, Shape, Objects
  <2> QED  BY <2>1, HoldersFinite DEF IInv, Deleted, Counted, InCache
<1>2. ASSUME NEW th \in Threads, ref[th] \in freed PROVE FALSE
  <2>1. ref[th] \in 1 .. loaded /\ ref[th] \in Objects
    BY <1>2, RefAssumption DEF IInv, Shape, Objects
  <2>2. Holders(ref[th]) # {}
    BY DEF Holders
  <2>3. Cardinality(Holders(ref[th])) \in Nat \ {0}
    BY <2>2, HoldersFinite, FS_EmptySet
  <2> QED  BY <1>2, <2>1, <2>3 DEF IInv, Deleted, Counted, InCache
<1>3. ASSUME NEW o \in 1 .. loaded, o # cached, \A th \in Threads : ref[th] # o
      PROVE  o \in freed
  <2>1. o \in Objects
    BY RefAssumption DEF IInv, Shape, Objects
  <2>2. Holders(o) = {}
    BY <1>3 DEF Holders
  <2> QED  BY <1>3, <2>1, <2>2, NoHolders DEF IInv, Deleted, Counted, InCache
<1> QED  BY <1>1, <1>2, <1>3 DEF HeldIsLive, NoLeak

\* A count is at most one more than there are threads.
LEMMA CountBound ==
  ASSUME IInv
  PROVE  count \in [Objects -> 0 .. Cardinality(Threads) + 1]
<1>1. Cardinality(Threads) \in Nat
  BY RefAssumption, FS_CardinalityType
<1>2. ASSUME NEW o \in Objects PROVE count[o] \in 0 .. Cardinality(Threads) + 1
  BY <1>1, HoldersFinite DEF IInv, Counted, InCache
<1>3. count \in [Objects -> Nat]
  BY DEF IInv, Shape
<1> QED  BY <1>2, <1>3

\* The counts that threads have read are counts.
RegOK == reg \in [Threads -> 0 .. Cardinality(Threads) + 1]

\* Every step keeps them so.
LEMMA StepReg ==
  ASSUME IInv, RegOK, [Next]_vars
  PROVE  RegOK'
<1> DEFINE Bound == 0 .. Cardinality(Threads) + 1
<1>1. count \in [Objects -> Bound]
  BY CountBound
<1> HIDE DEF Bound
<1>2. ASSUME NEW th \in Threads, NEW o \in Objects, reg' = [reg EXCEPT ![th] = count[o]]
      PROVE  RegOK'
  <2>1. count[o] \in Bound
    BY <1>1
  <2> QED  BY <1>2, <2>1 DEF RegOK, Bound
<1>3. cached # 0 => cached \in Objects
  BY RefAssumption DEF IInv, Shape, Objects
<1>4. ASSUME NEW th \in Threads, ref[th] # 0 PROVE ref[th] \in Objects
  BY <1>4, RefAssumption DEF IInv, Shape, Objects
<1>5. ASSUME NEW th \in Threads, GetBegin(th) \/ ReleaseBegin(th) \/ ClearBegin(th) PROVE RegOK'
  BY <1>2, <1>3, <1>4, <1>5 DEF GetBegin, ReleaseBegin, ClearBegin
<1>6. ASSUME NEW th \in Threads, Put(th) \/ GetEnd(th) \/ ReleaseEnd(th) \/ ClearEnd(th)
      PROVE  RegOK'
  BY <1>6 DEF Put, GetEnd, ReleaseEnd, ClearEnd, RegOK
<1>7. CASE UNCHANGED vars
  BY <1>7 DEF vars, RegOK
<1> QED  BY <1>5, <1>6, <1>7 DEF Next

\* Type correctness, the bound on counts included: it holds because each count is exact,
\* so it needs thread-safe counts.
THEOREM TypeCorrect == ASSUME ThreadSafe PROVE Spec => []TypeOK
<1>1. Init => IInv /\ RegOK
  <2>1. Cardinality(Threads) \in Nat
    BY RefAssumption, FS_CardinalityType
  <2> QED  BY <2>1, InitInv DEF Init, RegOK
<1>2. IInv /\ RegOK /\ [Next]_vars => IInv' /\ RegOK'
  BY StepInv, StepReg
<1>3. IInv /\ RegOK => TypeOK
  <2> SUFFICES ASSUME IInv, RegOK PROVE TypeOK
    OBVIOUS
  <2>1. freed \subseteq Objects
    BY RefAssumption DEF IInv, Shape, Objects
  <2> QED  BY <2>1, CountBound DEF IInv, RegOK, Shape, TypeOK
<1> QED  BY <1>1, <1>2, <1>3, PTL DEF Spec

\* With thread-safe counts a tile in use is never deleted and a tile that nobody uses is,
\* for any number of threads.
THEOREM TilesLiveWhileUsed == ASSUME ThreadSafe PROVE Spec => []LiveExactlyWhileUsed
<1>1. Init => IInv
  BY InitInv
<1>2. IInv /\ [Next]_vars => IInv'
  BY StepInv
<1>3. IInv => LiveExactlyWhileUsed
  BY Meaning DEF LiveExactlyWhileUsed
<1> QED  BY <1>1, <1>2, <1>3, PTL DEF Spec

====
