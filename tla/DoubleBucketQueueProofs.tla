------------------------ MODULE DoubleBucketQueueProofs ------------------------
(***************************************************************************)
(* Proofs about DoubleBucketQueue for every set of labels and costs, every *)
(* bucket size and range, and every caller that keeps the contract of      *)
(* add(), decrease(), clear() and reuse().                                 *)
(***************************************************************************)
EXTENDS DoubleBucketQueue, TLAPS

----------------------------------------------------------------------------
\* Arithmetic of bucket indexes.

\* Integer division by a bucket size or range, as the casts in get_bucket() and
\* empty_overflow() compute it.
LEMMA DivFacts ==
  ASSUME NEW a \in Nat, NEW s \in Nat \ {0}
  PROVE  /\ a \div s \in Nat
         /\ (a \div s) * s <= a
         /\ a < (a \div s) * s + s
  BY SMT

\* Rounding mincost down to the start of a bucket, as reuse() does, stays in Nat.
LEMMA ModFacts ==
  ASSUME NEW a \in Nat, NEW s \in Nat \ {0}
  PROVE  a - (a % s) \in Nat
  BY SMT

\* A larger bucket index means a larger lower bound, by at least one bucket.
LEMMA Below ==
  ASSUME NEW s \in Nat \ {0}, NEW j \in Int, NEW k \in Int, j < k
  PROVE  j * s + s <= k * s
  BY SMT

\* currentcost_ grows by one bucket size for each bucket that empty() passes.
LEMMA Distribute ==
  ASSUME NEW s \in Int, NEW j \in Int, NEW k \in Int
  PROVE  (j - k) * s = j * s - k * s
  BY SMT

\* The low level buckets that reuse() allocates cover the whole range.
LEMMA CountFacts ==
  /\ BucketCount \in Nat \ {0}
  /\ BucketRange < BucketCount * BucketSize
  /\ Overflow \notin Index
  /\ Index \subseteq Slot
<1> DEFINE q == BucketRange \div BucketSize
<1>1. /\ q \in Nat
      /\ BucketRange < q * BucketSize + BucketSize
  BY DivFacts, QueueAssumption
<1>2. (q + 1) * BucketSize = q * BucketSize + BucketSize
  BY <1>1, QueueAssumption, SMT
<1>3. BucketCount = q + 1
  BY DEF BucketCount
<1> HIDE DEF q
<1> QED  BY <1>1, <1>2, <1>3 DEF Index, Overflow, Slot

\* The index computed for a cost inside the range is that of an allocated bucket, and
\* the bucket's interval contains the cost.
LEMMA IndexFacts ==
  ASSUME NEW m \in Nat, NEW c \in Nat, m <= c, c < m + BucketRange
  PROVE  /\ IndexOf(c, m) \in Index
         /\ m + IndexOf(c, m) * BucketSize <= c
         /\ c < m + IndexOf(c, m) * BucketSize + BucketSize
<1> DEFINE i == IndexOf(c, m)
<1>1. /\ i \in Nat
      /\ i * BucketSize <= c - m
      /\ c - m < i * BucketSize + BucketSize
  <2>1. c - m \in Nat  OBVIOUS
  <2> QED  BY <2>1, DivFacts, QueueAssumption DEF IndexOf
<1>2. i < BucketCount
  <2> SUFFICES ASSUME BucketCount <= i PROVE FALSE
    BY <1>1, CountFacts
  <2>1. BucketCount * BucketSize <= i * BucketSize
    BY <1>1, CountFacts, QueueAssumption, SMT
  <2>2. i * BucketSize < BucketRange
    BY <1>1, QueueAssumption
  <2> QED  BY <2>1, <2>2, <1>1, CountFacts, QueueAssumption
<1>3. i \in Index
  BY <1>1, <1>2, CountFacts DEF Index
<1> QED  BY <1>1, <1>3, QueueAssumption

----------------------------------------------------------------------------
\* The inductive invariant.  Located alone is not inductive: a bucket behind the current
\* one would change its meaning when pop() passes it, and the meaning of the index
\* depends on where currentcost_ stands.
IInv ==
  /\ TypeOK
  /\ Located
  /\ NothingBehindCurrent
  /\ CurrentCostOK
  /\ NoLabelLost

\* currentcost_ never falls below mincost_, so no bucket index is negative.
LEMMA CurrentAboveMin ==
  ASSUME TypeOK, CurrentCostOK
  PROVE  mincost <= currentcost
<1>1. /\ current * BucketSize \in Nat
      /\ BucketCount * BucketSize \in Nat
  BY CountFacts, QueueAssumption, SMT DEF TypeOK
<1> QED  BY <1>1 DEF TypeOK, CurrentCostOK

\* get_bucket() returns the overflow bucket for costs from maxcost_ and currentcost_ on,
\* and otherwise a low level bucket that pop() has not passed yet.
LEMMA GetBucketFacts ==
  ASSUME TypeOK, CurrentCostOK, NEW c \in Nat
  PROVE  /\ GetBucket(c) \in Slot
         /\ GetBucket(c) = Overflow <=> c >= maxcost /\ c >= currentcost
         /\ GetBucket(c) # Overflow => GetBucket(c) >= current
         /\ c >= currentcost /\ c < maxcost =>
              /\ currentcost = mincost + current * BucketSize
              /\ GetBucket(c) = IndexOf(c, mincost)
<1> USE CountFacts, QueueAssumption
<1>0. /\ current \in Index
      /\ mincost \in Nat /\ currentcost \in Nat /\ maxcost \in Nat
      /\ current \in Nat
  BY DEF TypeOK, CurrentCostOK, Index
<1>1. CASE c < currentcost
  BY <1>0, <1>1 DEF GetBucket, Slot, Index, Overflow
<1>2. CASE c >= currentcost /\ c >= maxcost
  BY <1>0, <1>2 DEF GetBucket, Slot, Index, Overflow
<1>3. CASE c >= currentcost /\ c < maxcost
  <2> DEFINE i == IndexOf(c, mincost)
  <2>1. mincost <= c /\ c < mincost + BucketRange
    BY <1>0, <1>3, CurrentAboveMin DEF TypeOK
  <2>2. /\ i \in Index
        /\ c < mincost + i * BucketSize + BucketSize
    BY <1>0, <2>1, IndexFacts
  <2>3. GetBucket(c) = i
    BY <1>0, <1>3 DEF GetBucket
  <2>4. currentcost = mincost + current * BucketSize
    <3>1. BucketCount * BucketSize \in Nat  BY SMT
    <3> QED  BY <1>0, <1>3, <3>1 DEF TypeOK, CurrentCostOK
  <2>5. i >= current
    <3> SUFFICES ASSUME i < current PROVE FALSE
      BY <1>0, <2>2 DEF Index
    <3>1. i \in Int /\ i * BucketSize \in Int /\ current * BucketSize \in Int
      BY <1>0, <2>2, SMT DEF Index
    <3>2. i * BucketSize + BucketSize <= current * BucketSize
      BY <1>0, <3>1, Below
    <3> HIDE DEF i
    <3> QED  BY <1>0, <1>3, <2>2, <2>4, <3>1, <3>2
  <2> HIDE DEF i
  <2> QED  BY <1>0, <1>3, <2>2, <2>3, <2>4, <2>5 DEF Slot, Index, Overflow, i
<1> QED  BY <1>0, <1>1, <1>2, <1>3

\* The invariant holds of a freshly constructed queue.
LEMMA InitInv == Init => IInv
<1> SUFFICES ASSUME Init PROVE IInv
  OBVIOUS
<1> USE CountFacts, QueueAssumption
<1>1. mincost \in Nat
  BY ModFacts DEF Init
<1>2. 0 * BucketSize = 0
  BY SMT
<1> QED
  BY <1>1, <1>2 DEF Init, IInv, TypeOK, Located, NothingBehindCurrent, CurrentCostOK,
                    NoLabelLost, Queued, Slot, Index

\* reuse() of a cleared queue.
LEMMA ReuseInv ==
  ASSUME IInv, NEW m \in MinCosts, Reuse(m)
  PROVE  IInv'
<1> USE CountFacts, QueueAssumption
<1>1. mincost' \in Nat
  BY ModFacts DEF Reuse
<1>2. 0 * BucketSize = 0
  BY SMT
<1>3. Queued = {}
  BY DEF IInv, NoLabelLost, Reuse
<1>4. \A i \in Slot : bucket[i] = {}
  BY <1>3 DEF Queued
<1> QED
  BY <1>1, <1>2, <1>4
  DEF Reuse, IInv, TypeOK, Located, NothingBehindCurrent, CurrentCostOK, NoLabelLost,
      Queued, Slot, Index

\* clear() empties the whole queue although it starts at the current bucket.
LEMMA ClearInv ==
  ASSUME IInv, Clear
  PROVE  IInv'
<1> USE CountFacts, QueueAssumption
<1>1. 0 * BucketSize = 0
  BY SMT
<1>2. bucket' = [i \in Slot |-> {}]
  <2>1. \A i \in Slot : i # Overflow /\ ~(i >= current) => bucket[i] = {}
    BY DEF IInv, TypeOK, NothingBehindCurrent, Slot, Index
  <2> QED  BY <2>1 DEF Clear
<1>3. TypeOK'
  <2>1. sortcost' = [l \in {} |-> 0] /\ DOMAIN sortcost' = {}
    BY DEF Clear
  <2>2. sortcost' \in [{} -> Nat]
    BY <2>1
  <2> QED  BY <1>2, <2>1, <2>2 DEF Clear, IInv, TypeOK
<1>4. Located' /\ NothingBehindCurrent' /\ NoLabelLost'
  <2>1. \A i \in Slot : bucket'[i] = {}
    BY <1>2
  <2>2. DOMAIN sortcost' = {}
    BY DEF Clear
  <2>3. Queued' = {}
    BY <2>1 DEF Queued
  <2>4. NoLabelLost'
    BY <2>2, <2>3 DEF NoLabelLost
  <2> QED  BY <2>1, <2>4 DEF Located, NothingBehindCurrent, Slot
<1>5. CurrentCostOK'
  BY <1>1 DEF Clear, IInv, TypeOK, CurrentCostOK
<1> QED  BY <1>3, <1>4, <1>5 DEF IInv

\* add(): the new label goes where get_bucket() will look for it.
LEMMA AddInv ==
  ASSUME IInv, NEW l \in Labels, NEW c \in Costs, Add(l, c)
  PROVE  IInv'
<1> DEFINE g == GetBucket(c)
<1> USE CountFacts, QueueAssumption
<1>1. c \in Nat
  OBVIOUS
<1>2. g \in Slot /\ (g # Overflow => g >= current)
  BY <1>1, GetBucketFacts DEF IInv
<1>3. \A i \in Slot : bucket'[i] = IF i = g THEN bucket[i] \cup {l} ELSE bucket[i]
  BY <1>2 DEF Add, IInv, TypeOK
<1>4. /\ DOMAIN sortcost' = DOMAIN sortcost \cup {l}
      /\ \A x \in DOMAIN sortcost : sortcost'[x] = sortcost[x]
      /\ sortcost'[l] = c
  BY DEF Add
<1>5. TypeOK'
  <2>1. bucket' \in [Slot -> SUBSET Labels]
    BY DEF Add, IInv, TypeOK
  <2>2. sortcost' \in [DOMAIN sortcost' -> Nat]
    BY <1>1, <1>4 DEF Add, IInv, TypeOK
  <2> QED  BY <1>4, <2>1, <2>2 DEF Add, IInv, TypeOK
<1>6. Located'
  <2> SUFFICES ASSUME NEW i \in Slot, NEW x \in bucket'[i]
               PROVE  x \in DOMAIN sortcost' /\ (GetBucket(sortcost[x]) = i)'
    BY DEF Located
  <2>1. CASE x = l
    BY <1>1, <1>2, <1>3, <1>4, <2>1 DEF Add, IInv, Located, GetBucket
  <2>2. CASE x # l
    BY <1>3, <1>4, <2>2 DEF Add, IInv, Located, GetBucket
  <2> QED  BY <2>1, <2>2
<1>7. NothingBehindCurrent'
  BY <1>2, <1>3 DEF Add, IInv, TypeOK, NothingBehindCurrent, Slot, Index, Overflow
<1>8. CurrentCostOK'
  BY DEF Add, IInv, CurrentCostOK
<1>9. NoLabelLost'
  <2>1. Queued' = Queued \cup {l}
    BY <1>2, <1>3 DEF Queued
  <2>2. l \notin done
    BY DEF Add, IInv, TypeOK
  <2> QED  BY <1>4, <2>1, <2>2 DEF Add, IInv, NoLabelLost
<1> QED  BY <1>5, <1>6, <1>7, <1>8, <1>9 DEF IInv

\* decrease(): the content comparison of the two buckets is as good as a comparison of
\* their indexes, because the label is in the one and in no other.
LEMMA DecreaseInv ==
  ASSUME IInv, NEW l \in Labels, NEW c \in Costs, Decrease(l, c)
  PROVE  IInv'
<1> DEFINE p == GetBucket(sortcost[l])
           g == GetBucket(c)
<1> USE CountFacts, QueueAssumption
<1>1. c \in Nat /\ sortcost[l] \in Nat /\ l \in DOMAIN sortcost
  BY DEF Decrease, IInv, TypeOK
<1>2. /\ g \in Slot /\ (g # Overflow => g >= current)
      /\ p \in Slot
  BY <1>1, GetBucketFacts DEF IInv
<1>3. /\ \A i \in Slot : l \in bucket[i] => i = p
      /\ l \in bucket[p]
  <2>1. l \in Queued
    BY DEF Decrease, IInv, NoLabelLost
  <2> QED  BY <2>1 DEF IInv, Located, Queued
<1>4. \A i \in Slot : bucket'[i] = IF i = g THEN bucket[i] \cup {l} ELSE bucket[i] \ {l}
  <2>1. CASE p = g
    BY <1>2, <1>3, <2>1 DEF Decrease, Moved
  <2>2. CASE p # g
    <3>1. bucket[p] # bucket[g]
      BY <1>2, <1>3, <2>2
    <3>2. bucket' = [bucket EXCEPT ![g] = @ \cup {l}, ![p] = @ \ {l}]
      BY <3>1 DEF Decrease, Moved
    <3> HIDE DEF p, g
    <3> QED  BY <1>2, <1>3, <2>2, <3>2 DEF IInv, TypeOK
  <2> QED  BY <2>1, <2>2
<1>5. /\ DOMAIN sortcost' = DOMAIN sortcost
      /\ \A x \in DOMAIN sortcost : x # l => sortcost'[x] = sortcost[x]
      /\ sortcost'[l] = c
  BY <1>1 DEF Decrease, IInv, TypeOK
<1>6. TypeOK'
  <2>1. bucket' \in [Slot -> SUBSET Labels]
    BY <1>1 DEF Decrease, Moved, IInv, TypeOK
  <2>2. sortcost' \in [DOMAIN sortcost' -> Nat]
    BY <1>1, <1>5 DEF Decrease, IInv, TypeOK
  <2> QED  BY <1>5, <2>1, <2>2 DEF Decrease, IInv, TypeOK
<1> HIDE DEF p, g
<1>7. Located'
  <2> SUFFICES ASSUME NEW i \in Slot, NEW x \in bucket'[i]
               PROVE  x \in DOMAIN sortcost' /\ (GetBucket(sortcost[x]) = i)'
    BY DEF Located
  <2>1. CASE x = l
    <3>1. i = g
      BY <1>4, <2>1
    <3> QED  BY <1>1, <1>5, <2>1, <3>1 DEF Decrease, GetBucket, g
  <2>2. CASE x # l
    <3>1. x \in bucket[i]
      BY <1>4, <2>2
    <3> QED  BY <1>5, <2>2, <3>1 DEF Decrease, IInv, Located, GetBucket
  <2> QED  BY <2>1, <2>2
<1>8. NothingBehindCurrent'
  <2> SUFFICES ASSUME NEW i \in Index, i < current PROVE bucket'[i] = {}
    BY DEF Decrease, NothingBehindCurrent
  <2>1. i # g
    BY <1>2 DEF IInv, TypeOK, Index, Overflow
  <2> QED  BY <1>4, <2>1 DEF IInv, NothingBehindCurrent, Slot
<1>9. CurrentCostOK'
  BY DEF Decrease, IInv, CurrentCostOK
<1>10. NoLabelLost'
  <2>1. Queued' = Queued
    <3>1. \A x : x \in Queued' <=> \E i \in Slot : x \in bucket'[i]
      BY DEF Queued
    <3>2. \A x : x \in Queued <=> \E i \in Slot : x \in bucket[i]
      BY DEF Queued
    <3>3. \A x : x \in Queued' <=> x \in Queued
      <4> TAKE x
      <4>1. CASE x = l
        BY <1>2, <1>3, <1>4, <3>1, <3>2, <4>1
      <4>2. CASE x # l
        <5>1. \A i \in Slot : x \in bucket'[i] <=> x \in bucket[i]
          BY <1>4, <4>2
        <5> QED  BY <3>1, <3>2, <5>1
      <4> QED  BY <4>1, <4>2
    <3> QED  BY <3>3
  <2> QED  BY <1>5, <2>1 DEF Decrease, IInv, NoLabelLost
<1> QED  BY <1>6, <1>7, <1>8, <1>9, <1>10 DEF IInv

----------------------------------------------------------------------------
\* pop() passes empty buckets only, so every label it leaves behind keeps its bucket, and
\* takes one label away.
LEMMA PopLowInv ==
  ASSUME IInv, PopLow
  PROVE  IInv'
<1> USE CountFacts, QueueAssumption
<1>1. PICK i \in Index, l \in Labels :
        /\ Advance(bucket, current, i)
        /\ Take(bucket, i, l)
        /\ currentcost' = currentcost + (i - current) * BucketSize
  BY DEF PopLow
<1>2. /\ current \in Nat /\ i \in Nat /\ i < BucketCount /\ current <= i
      /\ currentcost \in Nat /\ mincost \in Nat /\ maxcost \in Nat
      /\ current < BucketCount
      /\ i * BucketSize \in Nat /\ current * BucketSize \in Nat
      /\ current * BucketSize <= i * BucketSize
      /\ currentcost' = currentcost + i * BucketSize - current * BucketSize
      /\ i = current \/ current < i
  <2>1. /\ current \in Nat /\ i \in Nat /\ current <= i /\ i < BucketCount
        /\ i = current \/ current < i
    BY <1>1 DEF Advance, IInv, TypeOK, Index
  <2>2. i * BucketSize \in Nat /\ current * BucketSize \in Nat
    BY <2>1, SMT
  <2>3. current * BucketSize <= i * BucketSize
    BY <2>1, SMT
  <2>4. (i - current) * BucketSize = i * BucketSize - current * BucketSize
    BY <2>1, Distribute
  <2>5. /\ currentcost \in Nat /\ mincost \in Nat /\ maxcost \in Nat
        /\ current < BucketCount
    BY DEF IInv, TypeOK, CurrentCostOK
  <2>6. currentcost' = currentcost + i * BucketSize - current * BucketSize
    BY <1>1, <2>1, <2>2, <2>4, <2>5
  <2> QED  BY <2>1, <2>2, <2>3, <2>5, <2>6, Zenon
<1>3. \A k \in Slot : bucket'[k] = IF k = i THEN bucket[k] \ {l} ELSE bucket[k]
  BY <1>1 DEF Take, IInv, TypeOK
<1>4. /\ l \in bucket[i]
      /\ \A k \in Slot : l \in bucket[k] => k = i
      /\ l \in DOMAIN sortcost /\ sortcost[l] \in Nat
      /\ i \in Slot
  BY <1>1 DEF Take, IInv, TypeOK, Located
<1>5. /\ current' = i /\ popped' = l /\ done' = done \cup {l}
      /\ UNCHANGED <<mincost, maxcost, sortcost>>
  BY <1>1 DEF PopLow, Take
<1>6. \A k \in Index : k < i => bucket[k] = {}
  <2> SUFFICES ASSUME NEW k \in Index, k < i PROVE bucket[k] = {}
    OBVIOUS
  <2>1. k < current \/ current <= k
    BY <1>2 DEF Index
  <2> QED  BY <1>1, <2>1 DEF Advance, IInv, NothingBehindCurrent
<1>7. TypeOK'
  <2>1. bucket' \in [Slot -> SUBSET Labels]
    BY <1>1 DEF Take, IInv, TypeOK
  <2>2. currentcost' \in Nat
    BY <1>2
  <2> QED  BY <1>2, <1>4, <1>5, <2>1, <2>2 DEF IInv, TypeOK
<1>8. Located'
  <2> SUFFICES ASSUME NEW k \in Slot, NEW x \in bucket'[k]
               PROVE  x \in DOMAIN sortcost' /\ (GetBucket(sortcost[x]) = k)'
    BY DEF Located
  <2>1. /\ x \in bucket[k] /\ x \in DOMAIN sortcost /\ GetBucket(sortcost[x]) = k
        /\ sortcost[x] \in Nat
    BY <1>3 DEF IInv, TypeOK, Located
  <2>2. CASE i = current
    BY <1>2, <1>5, <2>1, <2>2 DEF GetBucket
  <2>3. CASE current < i
    <3>1. currentcost = mincost + current * BucketSize
      BY <1>2, <2>3 DEF IInv, CurrentCostOK
    <3>2. currentcost' = mincost + i * BucketSize
      BY <1>2, <3>1
    <3>3. sortcost[x] >= currentcost
      <4> SUFFICES ASSUME sortcost[x] < currentcost PROVE FALSE
        BY <1>2, <2>1
      <4>1. k = current
        BY <2>1 DEF GetBucket
      <4> QED  BY <1>2, <1>6, <2>1, <2>3, <4>1 DEF Index
    <3>4. CASE sortcost[x] < maxcost
      <4>1. k = IndexOf(sortcost[x], mincost)
        BY <2>1, <3>3, <3>4, GetBucketFacts DEF IInv
      <4>2. mincost <= sortcost[x] /\ sortcost[x] < mincost + BucketRange
        BY <1>2, <2>1, <3>1, <3>3, <3>4 DEF IInv, TypeOK
      <4>3. k \in Index /\ mincost + k * BucketSize <= sortcost[x]
        BY <1>2, <2>1, <4>1, <4>2, IndexFacts
      <4>4. i <= k
        BY <1>2, <1>6, <2>1, <4>3 DEF Index
      <4>5. k \in Nat /\ k * BucketSize \in Nat /\ i * BucketSize <= k * BucketSize
        BY <1>2, <4>3, <4>4, SMT DEF Index
      <4>6. sortcost[x] >= currentcost'
        BY <1>2, <2>1, <3>2, <4>3, <4>5
      <4> QED  BY <1>2, <1>5, <2>1, <3>4, <4>1, <4>6 DEF GetBucket
    <3>5. CASE sortcost[x] >= maxcost
      <4>1. currentcost' <= maxcost
        <5>1. i * BucketSize <= (BucketCount - 1) * BucketSize
          BY <1>2, SMT
        <5>2. (BucketCount - 1) * BucketSize <= BucketRange
          <6>1. BucketCount - 1 = BucketRange \div BucketSize
            BY DivFacts DEF BucketCount
          <6> QED  BY <6>1, DivFacts
        <5>3. (BucketCount - 1) * BucketSize \in Nat
          BY SMT
        <5> QED  BY <1>2, <3>2, <5>1, <5>2, <5>3 DEF IInv, TypeOK
      <4>2. currentcost' \in Nat
        BY <1>2
      <4>3. k = Overflow
        BY <1>2, <2>1, <3>3, <3>5 DEF GetBucket
      <4> QED  BY <1>2, <1>5, <2>1, <3>5, <4>1, <4>2, <4>3 DEF GetBucket
    <3> QED  BY <1>2, <2>1, <3>4, <3>5
  <2> QED  BY <1>2, <2>2, <2>3, Zenon
<1>9. NothingBehindCurrent'
  BY <1>3, <1>5, <1>6 DEF NothingBehindCurrent, Slot
<1>10. CurrentCostOK'
  <2>1. CASE currentcost = mincost + current * BucketSize
    BY <1>2, <1>5, <2>1 DEF CurrentCostOK
  <2>2. CASE current = BucketCount - 1 /\ currentcost >= mincost + BucketCount * BucketSize
    <3>1. i = current
      BY <1>2, <2>2
    <3> QED  BY <1>2, <1>5, <2>2, <3>1 DEF CurrentCostOK
  <2> QED  BY <2>1, <2>2 DEF IInv, CurrentCostOK
<1>11. NoLabelLost'
  <2>1. Queued' = Queued \ {l}
    BY <1>3, <1>4 DEF Queued
  <2> QED  BY <1>4, <1>5, <2>1 DEF IInv, NoLabelLost
<1> QED  BY <1>7, <1>8, <1>9, <1>10, <1>11 DEF IInv

\* When empty() runs to the end no low level bucket holds a label.
LEMMA AllEmpty ==
  ASSUME IInv, Advance(bucket, current, BucketCount), NEW k \in Index
  PROVE  bucket[k] = {}
<1>1. current \in Nat /\ k \in Nat /\ k < BucketCount
  BY CountFacts DEF IInv, TypeOK, Index
<1> QED  BY <1>1 DEF Advance, IInv, NothingBehindCurrent

\* An exhausted pop() leaves nothing that could be in a wrong bucket.
LEMMA PopExhaustedInv ==
  ASSUME IInv, PopExhausted
  PROVE  IInv'
<1> USE CountFacts, QueueAssumption
<1>1. \A k \in Slot : bucket[k] = {}
  BY AllEmpty DEF PopExhausted, Slot
<1>2. /\ current \in Nat /\ current < BucketCount
      /\ currentcost \in Nat /\ mincost \in Nat
      /\ current * BucketSize \in Nat /\ BucketCount * BucketSize \in Nat
      /\ current * BucketSize <= BucketCount * BucketSize
      /\ currentcost' = currentcost + BucketCount * BucketSize - current * BucketSize
  <2>1. current \in Nat /\ current < BucketCount
    BY DEF IInv, TypeOK, CurrentCostOK
  <2>2. current * BucketSize \in Nat /\ BucketCount * BucketSize \in Nat
    BY <2>1, SMT
  <2>3. current * BucketSize <= BucketCount * BucketSize
    BY <2>1, SMT
  <2>4. (BucketCount - current) * BucketSize = BucketCount * BucketSize - current * BucketSize
    BY <2>1, Distribute
  <2>5. currentcost \in Nat /\ mincost \in Nat
    BY DEF IInv, TypeOK
  <2>6. currentcost' = currentcost + BucketCount * BucketSize - current * BucketSize
    BY <2>1, <2>2, <2>4, <2>5 DEF PopExhausted
  <2> QED  BY <2>1, <2>2, <2>3, <2>5, <2>6, Zenon
<1>3. TypeOK'
  <2>1. currentcost' \in Nat
    BY <1>2
  <2>2. current' \in 0 .. BucketCount
    BY DEF PopExhausted
  <2> QED  BY <2>1, <2>2 DEF PopExhausted, IInv, TypeOK
<1>4. Located' /\ NothingBehindCurrent'
  BY <1>1 DEF PopExhausted, Located, NothingBehindCurrent, Slot
<1>5. CurrentCostOK'
  <2>1. currentcost' >= mincost' + BucketCount * BucketSize
    BY <1>2 DEF PopExhausted, IInv, CurrentCostOK
  <2> QED  BY <2>1 DEF PopExhausted, CurrentCostOK
<1>6. NoLabelLost'
  BY DEF PopExhausted, IInv, NoLabelLost, Queued
<1> QED  BY <1>3, <1>4, <1>5, <1>6 DEF IInv

\* The new range of empty_overflow() holds the smallest overflow cost, so the two
\* corrections against lost precision find nothing to correct.
LEMMA RebasedFacts ==
  ASSUME TypeOK, NEW x \in Nat, x >= mincost
  PROVE  /\ Rebased(x) \in Nat
         /\ Rebased(x) <= x
         /\ x < Rebased(x) + BucketRange
<1> USE QueueAssumption
<1> DEFINE q == (x - mincost) \div BucketRange
           w == q * BucketRange
<1>1. q \in Nat /\ w <= x - mincost /\ x - mincost < w + BucketRange
  <2>1. x - mincost \in Nat
    BY DEF TypeOK
  <2> QED  BY <2>1, DivFacts
<1>2. w \in Nat
  BY <1>1, SMT
<1>3. /\ mincost + w \in Int
      /\ ~(mincost + w > x)
      /\ ~(mincost + w + BucketRange < x)
  <2> HIDE DEF w
  <2> QED  BY <1>1, <1>2 DEF TypeOK
<1>4. Rebased(x) = mincost + w
  BY <1>3 DEF Rebased
<1> HIDE DEF w
<1> QED  BY <1>1, <1>2, <1>4 DEF TypeOK

\* empty_overflow() and the pop() after it: the labels below the new maxcost_ land in the
\* bucket of their cost, the others stay in the overflow bucket, and the smallest one
\* makes at least one bucket non-empty.
LEMMA PopOverflowInv ==
  ASSUME IInv, PopOverflow
  PROVE  /\ IInv'
         /\ popped' \in Labels
<1> USE CountFacts, QueueAssumption
<1>1. PICK least \in bucket[Overflow], i \in 0 .. BucketCount :
        LET m == Rebased(sortcost[least]) IN
          /\ \A l \in bucket[Overflow] : sortcost[least] <= sortcost[l]
          /\ Advance(Spread(m), 0, i)
          /\ mincost' = m
          /\ maxcost' = m + BucketRange
          /\ currentcost' = m + i * BucketSize
          /\ IF i < BucketCount
             THEN \E l \in Labels : Take(Spread(m), i, l)
             ELSE /\ bucket' = Spread(m)
                  /\ current' = i
                  /\ popped' = kInvalidLabel
                  /\ UNCHANGED done
  BY DEF PopOverflow
<1> DEFINE m == Rebased(sortcost[least])
           ovf == bucket[Overflow]
<1>2. /\ \A k \in Index : bucket[k] = {}
      /\ UNCHANGED sortcost
  BY AllEmpty DEF PopOverflow
<1>3. \A l \in ovf : /\ l \in DOMAIN sortcost /\ l \in Labels
                     /\ sortcost[l] \in Nat
                     /\ sortcost[l] >= maxcost
                     /\ sortcost[l] >= mincost
  <2> SUFFICES ASSUME NEW l \in ovf
               PROVE  /\ l \in DOMAIN sortcost /\ l \in Labels
                      /\ sortcost[l] \in Nat
                      /\ sortcost[l] >= maxcost
                      /\ sortcost[l] >= mincost
    OBVIOUS
  <2>1. l \in DOMAIN sortcost /\ l \in Labels /\ GetBucket(sortcost[l]) = Overflow
    BY DEF IInv, TypeOK, Located, Slot
  <2>2. sortcost[l] \in Nat
    BY <2>1 DEF IInv, TypeOK
  <2> QED  BY <2>1, <2>2, GetBucketFacts DEF IInv, TypeOK
<1>4. /\ m \in Nat /\ m <= sortcost[least] /\ sortcost[least] < m + BucketRange
  BY <1>1, <1>3, RebasedFacts DEF IInv
<1>5. /\ \A k \in Index : Spread(m)[k] = {l \in ovf : /\ sortcost[l] < m + BucketRange
                                                      /\ IndexOf(sortcost[l], m) = k}
      /\ Spread(m)[Overflow] = {l \in ovf : sortcost[l] >= m + BucketRange}
      /\ DOMAIN Spread(m) = Slot
  BY <1>2 DEF Spread, Slot
<1>6. \A l \in ovf : sortcost[l] < m + BucketRange =>
        /\ IndexOf(sortcost[l], m) \in Index
        /\ l \in Spread(m)[IndexOf(sortcost[l], m)]
        /\ m + IndexOf(sortcost[l], m) * BucketSize <= sortcost[l]
  <2> SUFFICES ASSUME NEW l \in ovf, sortcost[l] < m + BucketRange
               PROVE  /\ IndexOf(sortcost[l], m) \in Index
                      /\ l \in Spread(m)[IndexOf(sortcost[l], m)]
                      /\ m + IndexOf(sortcost[l], m) * BucketSize <= sortcost[l]
    OBVIOUS
  <2>1. sortcost[l] \in Nat /\ sortcost[least] \in Nat /\ sortcost[least] <= sortcost[l]
    BY <1>1, <1>3
  <2>2. m <= sortcost[l]
    BY <1>4, <2>1
  <2> HIDE DEF m
  <2> QED  BY <1>4, <1>5, <2>1, <2>2, IndexFacts
<1> HIDE DEF m, ovf
<1>7. i \in Index /\ i \in Nat
  <2> SUFFICES ASSUME i = BucketCount PROVE FALSE
    BY <1>1 DEF Index
  <2>1. IndexOf(sortcost[least], m) \in Index /\ Spread(m)[IndexOf(sortcost[least], m)] # {}
    BY <1>1, <1>4, <1>6 DEF ovf
  <2>2. \A k \in Index : Spread(m)[k] = {}
    BY <1>1 DEF Advance, Index, m
  <2> QED  BY <2>1, <2>2
<1>8. PICK l \in Labels : Take(Spread(m), i, l)
  BY <1>1, <1>7 DEF Index, m
<1>9. /\ l \in Spread(m)[i]
      /\ \A k \in Slot : bucket'[k] = IF k = i THEN Spread(m)[k] \ {l} ELSE Spread(m)[k]
      /\ current' = i /\ popped' = l /\ done' = done \cup {l}
      /\ DOMAIN bucket' = Slot
      /\ bucket' = [Spread(m) EXCEPT ![i] = @ \ {l}]
  BY <1>5, <1>8 DEF Take
<1>10. /\ l \in ovf /\ l \in DOMAIN sortcost /\ sortcost[l] \in Nat
       /\ i \in Slot
  BY <1>3, <1>5, <1>7, <1>9
<1>11. /\ mincost' = m /\ maxcost' = m + BucketRange /\ currentcost' = m + i * BucketSize
       /\ i * BucketSize \in Nat
  <2>1. i * BucketSize \in Nat
    BY <1>7, SMT
  <2> QED  BY <1>1, <2>1 DEF m
<1>12. TypeOK'
  <2>1. \A k \in Slot : Spread(m)[k] \subseteq Labels
    BY <1>3, <1>5 DEF Slot
  <2>2. bucket' \in [Slot -> SUBSET Labels]
    <3>1. Spread(m) \in [Slot -> SUBSET Labels]
      BY <1>5, <2>1 DEF Spread
    <3> QED  BY <1>9, <3>1
  <2>3. current' \in 0 .. BucketCount
    BY <1>7, <1>9 DEF Index
  <2>4. currentcost' \in Nat
    BY <1>4, <1>11
  <2> QED  BY <1>2, <1>4, <1>9, <1>10, <1>11, <2>2, <2>3, <2>4 DEF IInv, TypeOK
<1>13. Located'
  <2> SUFFICES ASSUME NEW k \in Slot, NEW x \in bucket'[k]
               PROVE  x \in DOMAIN sortcost' /\ (GetBucket(sortcost[x]) = k)'
    BY DEF Located
  <2>1. x \in Spread(m)[k]
    BY <1>9
  <2>2. x \in ovf /\ x \in DOMAIN sortcost /\ sortcost[x] \in Nat
    BY <1>3, <1>5, <2>1 DEF Slot
  <2>3. CASE k = Overflow
    <3>1. sortcost[x] >= m + BucketRange
      BY <1>5, <2>1, <2>3
    <3>2. i * BucketSize <= BucketRange
      <4>1. i * BucketSize <= (BucketCount - 1) * BucketSize
        BY <1>7, SMT DEF Index
      <4>2. (BucketCount - 1) * BucketSize <= BucketRange
        <5>1. BucketCount - 1 = BucketRange \div BucketSize
          BY DivFacts DEF BucketCount
        <5> QED  BY <5>1, DivFacts
      <4>3. (BucketCount - 1) * BucketSize \in Nat
        BY SMT
      <4> QED  BY <1>11, <4>1, <4>2, <4>3
    <3>3. sortcost[x] >= currentcost' /\ sortcost[x] >= maxcost'
      BY <1>4, <1>11, <2>2, <3>1, <3>2
    <3> QED  BY <1>2, <1>4, <1>11, <2>2, <2>3, <3>3 DEF GetBucket
  <2>4. CASE k \in Index
    <3>1. sortcost[x] < m + BucketRange /\ IndexOf(sortcost[x], m) = k
      BY <1>5, <2>1, <2>4
    <3>2. m + k * BucketSize <= sortcost[x]
      BY <1>6, <2>2, <3>1
    <3>3. i <= k
      <4>1. Spread(m)[k] # {}
        BY <2>1
      <4>2. Advance(Spread(m), 0, i)
        BY <1>1 DEF m
      <4> QED  BY <1>7, <2>4, <4>1, <4>2 DEF Advance, Index
    <3>4. k * BucketSize \in Nat /\ i * BucketSize <= k * BucketSize
      BY <1>7, <2>4, <3>3, SMT DEF Index
    <3>5. sortcost[x] >= currentcost' /\ sortcost[x] < maxcost'
      BY <1>4, <1>11, <2>2, <3>1, <3>2, <3>4
    <3> QED  BY <1>2, <1>4, <1>11, <2>2, <3>1, <3>5 DEF GetBucket
  <2> QED  BY <2>3, <2>4 DEF Slot
<1>14. NothingBehindCurrent'
  <2>1. \A k \in Index : k < i => Spread(m)[k] = {}
    BY <1>1, <1>7 DEF Advance, Index, m
  <2> QED  BY <1>9, <2>1 DEF NothingBehindCurrent, Slot
<1>15. CurrentCostOK'
  BY <1>7, <1>9, <1>11 DEF CurrentCostOK, Index
<1>16. NoLabelLost'
  <2>1. \A x : x \in Queued <=> x \in ovf
    BY <1>2 DEF Queued, Slot, ovf
  <2>2. \A x : (\E k \in Slot : x \in Spread(m)[k]) <=> x \in ovf
    <3>1. \A x \in ovf : sortcost[x] < m + BucketRange \/ sortcost[x] >= m + BucketRange
      BY <1>3, <1>4
    <3> QED  BY <1>5, <1>6, <3>1 DEF Slot
  <2>3. \A x : x \in Queued' <=> x \in ovf /\ x # l
    <3>1. \A x : x \in Queued' <=> \E k \in Slot : x \in bucket'[k]
      BY DEF Queued
    <3>2. \A k \in Slot : l \in Spread(m)[k] => k = i
      <4>1. i # Overflow
        BY <1>7
      <4>2. sortcost[l] < m + BucketRange /\ IndexOf(sortcost[l], m) = i
        BY <1>5, <1>7, <1>9
      <4>3. ~(sortcost[l] >= m + BucketRange)
        BY <1>4, <1>10, <4>2
      <4> QED  BY <1>5, <4>2, <4>3 DEF Slot
    <3>3. \A x : (\E k \in Slot : x \in bucket'[k]) <=>
                 (x # l /\ \E k \in Slot : x \in Spread(m)[k])
      <4> TAKE x
      <4>1. CASE x = l
        BY <1>9, <3>2, <4>1
      <4>2. CASE x # l
        <5>1. \A k \in Slot : x \in bucket'[k] <=> x \in Spread(m)[k]
          BY <1>9, <4>2
        <5> QED  BY <4>2, <5>1
      <4> QED  BY <4>1, <4>2
    <3> QED  BY <2>2, <3>1, <3>3
  <2>4. \A x : x \in DOMAIN sortcost' \ done' <=> x \in Queued /\ x # l
    BY <1>2, <1>9 DEF IInv, NoLabelLost
  <2> QED  BY <2>1, <2>3, <2>4 DEF NoLabelLost
<1> QED  BY <1>9, <1>12, <1>13, <1>14, <1>15, <1>16 DEF IInv

----------------------------------------------------------------------------
\* One step of the queue preserves the invariant.
LEMMA NextInv ==
  ASSUME IInv, [Next]_vars
  PROVE  IInv'
<1>1. CASE \E m \in MinCosts : Reuse(m)
  BY <1>1, ReuseInv
<1>2. CASE Clear
  BY <1>2, ClearInv
<1>3. CASE \E l \in Labels, c \in Costs : Add(l, c) \/ Decrease(l, c)
  BY <1>3, AddInv, DecreaseInv
<1>4. CASE Pop
  BY <1>4, PopLowInv, PopExhaustedInv, PopOverflowInv DEF Pop
<1>5. CASE UNCHANGED vars
  BY <1>5 DEF vars, IInv, TypeOK, Located, NothingBehindCurrent, CurrentCostOK, NoLabelLost,
              Queued, GetBucket
<1> QED  BY <1>1, <1>2, <1>3, <1>4, <1>5 DEF Next

\* Type correctness of the queue, for every bucket size, range and caller.
THEOREM TypeCorrect == Spec => []TypeOK
<1>1. IInv => TypeOK
  BY DEF IInv
<1> QED  BY <1>1, InitInv, NextInv, PTL DEF Spec

\* Every queued label is in the bucket of its present cost, where decrease() looks for it,
\* the current bucket and currentcost_ fit together and no label is behind them.
THEOREM LabelsAlwaysPlaced == Spec => []LabelsPlaced
<1>1. IInv => LabelsPlaced
  BY DEF IInv, LabelsPlaced
<1> QED  BY <1>1, InitInv, NextInv, PTL DEF Spec

\* No label is lost and none is returned twice.
THEOREM LabelsConserved == Spec => []NoLabelLost
<1>1. IInv => NoLabelLost
  BY DEF IInv
<1> QED  BY <1>1, InitInv, NextInv, PTL DEF Spec

\* pop() returns kInvalidLabel exactly when the queue holds no label.
THEOREM ExhaustedMeansEmpty == Spec => InvalidOnlyWhenEmpty
<1>1. IInv /\ [Next]_vars => [Pop => (popped' = kInvalidLabel <=> Queued = {})]_vars
  <2> SUFFICES ASSUME IInv, Pop
               PROVE  popped' = kInvalidLabel <=> Queued = {}
    OBVIOUS
  <2>1. CASE PopLow
    <3>1. popped' \in Labels /\ popped' \in Queued
      BY <2>1, CountFacts DEF PopLow, Take, Queued
    <3> QED  BY <3>1, QueueAssumption
  <2>2. CASE PopExhausted
    <3>1. \A k \in Slot : bucket[k] = {}
      BY <2>2, AllEmpty DEF PopExhausted, Slot
    <3> QED  BY <2>2, <3>1 DEF PopExhausted, Queued
  <2>3. CASE PopOverflow
    <3>1. popped' \in Labels
      BY <2>3, PopOverflowInv
    <3>2. Queued # {}
      BY <2>3 DEF PopOverflow, Queued, Slot
    <3> QED  BY <3>1, <3>2, QueueAssumption
  <2> QED  BY <2>1, <2>2, <2>3 DEF Pop
<1> QED  BY <1>1, InitInv, NextInv, PTL DEF Spec, InvalidOnlyWhenEmpty

----------------------------------------------------------------------------
\* A cost of a bucket that is not behind another cost's is less than a bucket size above it.
LEMMA IndexOrder ==
  ASSUME NEW m \in Nat, NEW a \in Nat, NEW b \in Nat,
         m <= a, a < m + BucketRange, m <= b, b < m + BucketRange,
         IndexOf(a, m) <= IndexOf(b, m)
  PROVE  a < b + BucketSize
<1> DEFINE i == IndexOf(a, m)
           k == IndexOf(b, m)
<1>1. /\ i \in Nat /\ k \in Nat
      /\ a < m + i * BucketSize + BucketSize
      /\ m + k * BucketSize <= b
  BY IndexFacts DEF Index
<1>2. i <= k
  OBVIOUS
<1> HIDE DEF i, k
<1>3. i * BucketSize \in Nat /\ k * BucketSize \in Nat /\ i * BucketSize <= k * BucketSize
  BY <1>1, <1>2, QueueAssumption, SMT
<1> QED  BY <1>1, <1>3, QueueAssumption

\* A pop() from the low level buckets takes from the first non-empty one.
LEMMA PopLowOrder ==
  ASSUME IInv, PopLow, NEW x \in Queued
  PROVE  \/ sortcost[popped'] < sortcost[x] + BucketSize
         \/ sortcost[popped'] < currentcost + BucketSize
<1> USE CountFacts, QueueAssumption
<1>1. PICK i \in Index, l \in Labels : Advance(bucket, current, i) /\ Take(bucket, i, l)
  BY DEF PopLow
<1>2. PICK k \in Slot : x \in bucket[k]
  BY DEF Queued
<1> DEFINE cl == sortcost[l]
           cx == sortcost[x]
<1>3. /\ popped' = l
      /\ cl \in Nat /\ cx \in Nat
      /\ GetBucket(cl) = i /\ GetBucket(cx) = k
  BY <1>1, <1>2 DEF Take, IInv, TypeOK, Located
<1>4. /\ TypeOK /\ CurrentCostOK
      /\ mincost \in Nat /\ currentcost \in Nat /\ maxcost = mincost + BucketRange
      /\ current \in Nat /\ i \in Nat /\ current <= i /\ mincost <= currentcost
  BY <1>1, CurrentAboveMin DEF Advance, IInv, TypeOK, Index
<1> HIDE DEF cl, cx
<1> SUFFICES cl < cx + BucketSize \/ cl < currentcost + BucketSize
  BY <1>3 DEF cl, cx
<1>5. CASE cl < currentcost
  BY <1>3, <1>4, <1>5
<1>6. CASE cl >= currentcost
  <2>1. cl < maxcost
    BY <1>3, <1>4, <1>6, GetBucketFacts
  <2>2. currentcost = mincost + current * BucketSize /\ i = IndexOf(cl, mincost)
    BY <1>3, <1>4, <1>6, <2>1, GetBucketFacts
  <2>3. CASE k = Overflow
    <3>1. cx >= maxcost
      BY <1>3, <1>4, <2>3, GetBucketFacts
    <3> QED  BY <1>3, <1>4, <2>1, <3>1
  <2>4. CASE k # Overflow
    <3>1. k \in Index /\ k \in Nat /\ i <= k
      <4>1. k \in Index /\ k \in Nat
        BY <2>4 DEF Slot, Index
      <4>2. k < current \/ (current <= k /\ k < i) \/ i <= k
        BY <1>4, <4>1
      <4> QED  BY <1>1, <1>2, <4>1, <4>2 DEF Advance, IInv, NothingBehindCurrent
    <3>2. CASE cx >= currentcost
      <4>1. cx < maxcost /\ k = IndexOf(cx, mincost)
        BY <1>3, <1>4, <2>4, <3>2, GetBucketFacts
      <4>2. mincost <= cl /\ mincost <= cx
        BY <1>3, <1>4, <1>6, <3>2
      <4> QED  BY <1>3, <1>4, <2>1, <2>2, <3>1, <4>1, <4>2, IndexOrder
    <3>3. CASE cx < currentcost
      <4>1. i = current
        BY <1>3, <1>4, <3>1, <3>3 DEF GetBucket
      <4>2. cl < mincost + i * BucketSize + BucketSize
        BY <1>3, <1>4, <1>6, <2>1, <2>2, IndexFacts
      <4> QED  BY <2>2, <4>1, <4>2
    <3> QED  BY <1>3, <1>4, <3>2, <3>3
  <2> QED  BY <2>3, <2>4
<1> QED  BY <1>3, <1>4, <1>5, <1>6

\* A pop() that had to empty the overflow bucket takes from the first non-empty bucket of
\* the new range.
LEMMA PopOverflowOrder ==
  ASSUME IInv, PopOverflow, NEW x \in Queued
  PROVE  sortcost[popped'] < sortcost[x] + BucketSize
<1> USE CountFacts, QueueAssumption
<1>1. PICK least \in bucket[Overflow], i \in 0 .. BucketCount :
        LET m == Rebased(sortcost[least]) IN
          /\ \A l \in bucket[Overflow] : sortcost[least] <= sortcost[l]
          /\ Advance(Spread(m), 0, i)
          /\ IF i < BucketCount
             THEN \E l \in Labels : Take(Spread(m), i, l)
             ELSE popped' = kInvalidLabel
  BY DEF PopOverflow
<1> DEFINE m == Rebased(sortcost[least])
<1>2. i \in Index /\ \E l \in Labels : Take(Spread(m), i, l)
  <2>1. popped' # kInvalidLabel
    BY PopOverflowInv
  <2>2. i < BucketCount
    BY <1>1, <2>1
  <2> QED  BY <1>1, <2>2 DEF Index
<1>3. PICK l \in Labels : Take(Spread(m), i, l)
  BY <1>2
<1>4. \A y \in bucket[Overflow] : sortcost[y] \in Nat /\ sortcost[y] >= maxcost
  <2> SUFFICES ASSUME NEW y \in bucket[Overflow]
               PROVE  sortcost[y] \in Nat /\ sortcost[y] >= maxcost
    OBVIOUS
  <2>1. sortcost[y] \in Nat /\ GetBucket(sortcost[y]) = Overflow
    BY DEF IInv, TypeOK, Located, Slot
  <2> QED  BY <2>1, GetBucketFacts DEF IInv
<1>5. m \in Nat /\ \A y \in bucket[Overflow] : m <= sortcost[y]
  <2>1. sortcost[least] \in Nat /\ sortcost[least] >= mincost
    BY <1>4 DEF IInv, TypeOK
  <2>2. m \in Nat /\ m <= sortcost[least]
    BY <2>1, RebasedFacts, <1>4 DEF IInv
  <2> HIDE DEF m
  <2> QED  BY <1>1, <1>4, <2>2
<1>6. \A k \in Index : bucket[k] = {}
  BY AllEmpty DEF PopOverflow
<1>7. x \in bucket[Overflow]
  BY <1>6 DEF Queued, Slot
<1>8. /\ \A k \in Index : Spread(m)[k] = {y \in bucket[Overflow] :
                              /\ sortcost[y] < m + BucketRange
                              /\ IndexOf(sortcost[y], m) = k}
      /\ \A k \in Index : k < i => Spread(m)[k] = {}
  <2>1. \A k \in Index : Spread(m)[k] = {y \in bucket[Overflow] :
                              /\ sortcost[y] < m + BucketRange
                              /\ IndexOf(sortcost[y], m) = k}
    BY <1>6 DEF Spread, Slot
  <2>2. Advance(Spread(m), 0, i)
    BY <1>1
  <2> QED  BY <2>1, <2>2 DEF Advance, Index
<1>9. popped' = l /\ l \in Spread(m)[i]
  BY <1>3 DEF Take
<1> HIDE DEF m
<1>10. /\ l \in bucket[Overflow] /\ sortcost[l] \in Nat /\ sortcost[x] \in Nat
       /\ m <= sortcost[l] /\ m <= sortcost[x] /\ sortcost[l] < m + BucketRange
       /\ IndexOf(sortcost[l], m) = i
  BY <1>2, <1>4, <1>5, <1>7, <1>8, <1>9
<1>11. CASE sortcost[x] >= m + BucketRange
  BY <1>5, <1>9, <1>10, <1>11
<1>12. CASE sortcost[x] < m + BucketRange
  <2>1. IndexOf(sortcost[x], m) \in Index
    BY <1>5, <1>10, <1>12, IndexFacts
  <2>2. i <= IndexOf(sortcost[x], m)
    BY <1>2, <1>7, <1>8, <1>12, <2>1 DEF Index
  <2> QED  BY <1>5, <1>9, <1>10, <1>12, <2>2, IndexOrder
<1> QED  BY <1>5, <1>10, <1>11, <1>12

\* pop() hands out the labels bucket by bucket: whatever the caller did before, none left
\* in the queue is cheaper by a bucket size or more, except among the labels that came too
\* late for their bucket.
THEOREM LabelsInOrder == Spec => PopsInOrder
<1>1. IInv /\ [Next]_vars =>
        [done' # done /\ done' # {} =>
           \A l \in Queued : \/ sortcost[popped'] < sortcost[l] + BucketSize
                             \/ sortcost[popped'] < currentcost + BucketSize]_vars
  <2> SUFFICES ASSUME IInv, Next, done' # done, done' # {}
               PROVE  \A l \in Queued : \/ sortcost[popped'] < sortcost[l] + BucketSize
                                        \/ sortcost[popped'] < currentcost + BucketSize
    BY DEF vars
  <2>1. Pop /\ ~PopExhausted
    BY DEF Next, Reuse, Clear, Add, Decrease, PopExhausted
  <2> QED  BY <2>1, PopLowOrder, PopOverflowOrder DEF Pop
<1> QED  BY <1>1, InitInv, NextInv, PTL DEF Spec, PopsInOrder

----------------------------------------------------------------------------
\* pop() from the low level buckets moves currentcost_, if at all, to the lower bound of the
\* bucket it takes the label from.
LEMMA PopLowReached ==
  ASSUME IInv, PopLow
  PROVE  currentcost' = currentcost \/ currentcost' <= sortcost[popped']
<1> USE CountFacts, QueueAssumption
<1>1. PICK i \in Index, l \in Labels :
        /\ Advance(bucket, current, i)
        /\ Take(bucket, i, l)
        /\ currentcost' = currentcost + (i - current) * BucketSize
  BY DEF PopLow
<1>2. /\ popped' = l /\ sortcost[l] \in Nat /\ GetBucket(sortcost[l]) = i
      /\ current \in Nat /\ i \in Nat /\ current <= i
      /\ TypeOK /\ CurrentCostOK
      /\ mincost \in Nat /\ currentcost \in Nat /\ maxcost \in Nat
      /\ maxcost = mincost + BucketRange
  BY <1>1 DEF Take, Advance, IInv, TypeOK, Located, Index, Slot
<1>3. CASE i = current
  BY <1>1, <1>2, <1>3
<1>4. CASE i # current
  <2>1. sortcost[l] >= currentcost /\ sortcost[l] < maxcost
    BY <1>2, <1>4, GetBucketFacts DEF GetBucket
  <2>2. currentcost = mincost + current * BucketSize /\ i = IndexOf(sortcost[l], mincost)
    BY <1>2, <2>1, GetBucketFacts
  <2>3. mincost <= sortcost[l]
    BY <1>2, <2>1, CurrentAboveMin
  <2>4. mincost + i * BucketSize <= sortcost[l]
    BY <1>2, <2>1, <2>2, <2>3, IndexFacts
  <2>5. /\ (i - current) * BucketSize = i * BucketSize - current * BucketSize
        /\ i * BucketSize \in Nat /\ current * BucketSize \in Nat
    BY <1>2, Distribute, SMT
  <2> QED  BY <1>1, <1>2, <2>2, <2>4, <2>5
<1> QED  BY <1>3, <1>4

\* The same for a pop() that has emptied the overflow bucket.
LEMMA PopOverflowReached ==
  ASSUME IInv, PopOverflow
  PROVE  currentcost' <= sortcost[popped']
<1> USE CountFacts, QueueAssumption
<1>1. PICK least \in bucket[Overflow], i \in 0 .. BucketCount :
        LET m == Rebased(sortcost[least]) IN
          /\ \A l \in bucket[Overflow] : sortcost[least] <= sortcost[l]
          /\ currentcost' = m + i * BucketSize
          /\ IF i < BucketCount
             THEN \E l \in Labels : Take(Spread(m), i, l)
             ELSE popped' = kInvalidLabel
  BY DEF PopOverflow
<1> DEFINE m == Rebased(sortcost[least])
<1>2. i \in Index /\ \E l \in Labels : Take(Spread(m), i, l)
  <2>1. popped' # kInvalidLabel
    BY PopOverflowInv
  <2>2. i < BucketCount
    BY <1>1, <2>1
  <2> QED  BY <1>1, <2>2 DEF Index
<1>3. PICK l \in Labels : Take(Spread(m), i, l)
  BY <1>2
<1>4. \A y \in bucket[Overflow] : sortcost[y] \in Nat /\ sortcost[y] >= maxcost
  <2> SUFFICES ASSUME NEW y \in bucket[Overflow]
               PROVE  sortcost[y] \in Nat /\ sortcost[y] >= maxcost
    OBVIOUS
  <2>1. sortcost[y] \in Nat /\ GetBucket(sortcost[y]) = Overflow
    BY DEF IInv, TypeOK, Located, Slot
  <2> QED  BY <2>1, GetBucketFacts DEF IInv
<1>5. m \in Nat /\ \A y \in bucket[Overflow] : m <= sortcost[y]
  <2>1. sortcost[least] \in Nat /\ sortcost[least] >= mincost
    BY <1>4 DEF IInv, TypeOK
  <2>2. m \in Nat /\ m <= sortcost[least]
    BY <2>1, RebasedFacts, <1>4 DEF IInv
  <2> HIDE DEF m
  <2> QED  BY <1>1, <1>4, <2>2
<1>6. popped' = l /\ l \in Spread(m)[i]
  BY <1>3 DEF Take
<1>7. bucket[i] = {}
  BY <1>2, AllEmpty DEF PopOverflow
<1>8. /\ l \in bucket[Overflow] /\ sortcost[l] < m + BucketRange
      /\ IndexOf(sortcost[l], m) = i
  BY <1>2, <1>6, <1>7 DEF Spread, Slot, Index, Overflow
<1>9. currentcost' = m + i * BucketSize
  BY <1>1
<1> HIDE DEF m
<1>10. m + i * BucketSize <= sortcost[l]
  BY <1>4, <1>5, <1>8, IndexFacts
<1> QED  BY <1>6, <1>9, <1>10

\* The steps of the queue are steps of the abstract queue.
LEMMA StepRefines ==
  ASSUME IInv, IInv', [Next]_vars
  PROVE  [Abstract!Next]_(Abstract!vars)
<1> USE DEF Abstract!vars, Abstract!Next
<1>1. /\ Queued = DOMAIN sortcost \ done /\ Queued' = DOMAIN sortcost' \ done'
      /\ currentcost \in Int /\ currentcost' \in Int
      /\ DOMAIN sortcost \subseteq Labels /\ DOMAIN sortcost' \subseteq Labels
      /\ done \subseteq DOMAIN sortcost
      /\ done' \subseteq DOMAIN sortcost'
  BY DEF IInv, NoLabelLost, TypeOK
<1>2. ASSUME NEW m \in MinCosts, Reuse(m) PROVE Abstract!Reuse
  BY <1>1, <1>2 DEF Reuse, Abstract!Reuse
<1>3. CASE Clear
  <2>1. DOMAIN sortcost' = {} /\ Queued' = {} /\ popped' = NoLabel
    BY <1>1, <1>3 DEF Clear
  <2> QED  BY <1>1, <2>1 DEF Abstract!Clear
<1>4. ASSUME NEW l \in Labels, NEW c \in Costs, Add(l, c) PROVE Abstract!Relax
  <2>1. /\ DOMAIN sortcost' = DOMAIN sortcost \cup {l}
        /\ \A x \in DOMAIN sortcost : sortcost'[x] = sortcost[x]
        /\ l \notin DOMAIN sortcost
        /\ done' = done
        /\ UNCHANGED <<popped, currentcost>>
    BY <1>4 DEF Add
  <2>2. Queued' = Queued \cup (DOMAIN sortcost' \ DOMAIN sortcost)
    BY <1>1, <2>1
  <2> QED  BY <1>1, <2>1, <2>2 DEF Abstract!Relax
<1>5. ASSUME NEW l \in Labels, NEW c \in Costs, Decrease(l, c) PROVE Abstract!Relax
  <2>1. /\ DOMAIN sortcost' = DOMAIN sortcost
        /\ l \in DOMAIN sortcost \ done
        /\ sortcost'[l] = c /\ c < sortcost[l]
        /\ \A x \in DOMAIN sortcost : x # l => sortcost'[x] = sortcost[x]
        /\ done' = done
        /\ UNCHANGED <<popped, currentcost>>
    BY <1>5 DEF Decrease
  <2>2. Queued' = Queued \cup (DOMAIN sortcost' \ DOMAIN sortcost)
    BY <1>1, <2>1
  <2> QED  BY <1>1, <2>1, <2>2 DEF Abstract!Relax
<1>6. ASSUME PopLow \/ PopOverflow PROVE \E l \in Queued : Abstract!Pop(l)
  <2>1. /\ popped' \in Labels /\ done' = done \cup {popped'} /\ UNCHANGED sortcost
        /\ popped' \in Queued
    <3>1. CASE PopLow
      <4>1. PICK i \in Index, l \in Labels : Take(bucket, i, l) /\ UNCHANGED sortcost
        BY <3>1 DEF PopLow
      <4> QED  BY <4>1, CountFacts DEF Take, Queued
    <3>2. CASE PopOverflow
      <4>0. popped' \in Labels /\ popped' # kInvalidLabel
        BY <3>2, PopOverflowInv, QueueAssumption
      <4>1. PICK least \in bucket[Overflow], i \in 0 .. BucketCount :
              IF i < BucketCount
              THEN \E l \in Labels : Take(Spread(Rebased(sortcost[least])), i, l)
              ELSE popped' = kInvalidLabel
        BY <3>2 DEF PopOverflow
      <4>2. i \in Slot /\ \E l \in Labels : Take(Spread(Rebased(sortcost[least])), i, l)
        BY <4>0, <4>1, CountFacts DEF Index, Slot
      <4>3. /\ popped' \in Spread(Rebased(sortcost[least]))[i]
            /\ done' = done \cup {popped'}
        BY <4>2 DEF Take
      <4>4. popped' \in Queued
        BY <4>2, <4>3, CountFacts DEF Spread, Queued, Slot
      <4> QED  BY <3>2, <4>0, <4>3, <4>4 DEF PopOverflow
    <3> QED  BY <1>6, <3>1, <3>2
  <2>2. Queued' = Queued \ {popped'}
    BY <1>1, <2>1
  <2>3. Abstract!InOrder(popped')
    BY <1>6, PopLowOrder, PopOverflowOrder, Zenon DEF Abstract!InOrder
  <2>4. currentcost' = currentcost \/ currentcost' <= sortcost[popped']
    BY <1>6, PopLowReached, PopOverflowReached
  <2>5. Abstract!Pop(popped')
    BY <1>1, <2>1, <2>2, <2>3, <2>4 DEF Abstract!Pop
  <2> QED  BY <2>1, <2>5
<1>7. ASSUME PopExhausted PROVE Abstract!PopNothing
  <2>1. \A k \in Slot : bucket[k] = {}
    BY <1>7, AllEmpty DEF PopExhausted, Slot
  <2>2. Queued = {}
    BY <2>1 DEF Queued
  <2>3. UNCHANGED <<sortcost, done>> /\ popped' = kInvalidLabel
    BY <1>7 DEF PopExhausted
  <2> QED  BY <1>1, <2>2, <2>3 DEF Abstract!PopNothing
<1>8. CASE UNCHANGED vars
  BY <1>8 DEF vars, Queued
<1> QED  BY <1>2, <1>3, <1>4, <1>5, <1>6, <1>7, <1>8 DEF Next, Pop

\* Buckets, cursor and overflow bucket together are a set of labels with a pop() in order
\* up to the width of a bucket: the queue implements what the searches rely on.
THEOREM QueueRefines == Spec => ImplementsLabelQueue
<1>1. Init => Abstract!Init
  <2> SUFFICES ASSUME Init PROVE Abstract!Init
    OBVIOUS
  <2>1. IInv
    BY InitInv
  <2>2. DOMAIN sortcost = {} /\ popped = NoLabel
    BY DEF Init
  <2>3. Queued = {} /\ currentcost \in Int
    BY <2>1, <2>2 DEF IInv, NoLabelLost, TypeOK
  <2> QED  BY <2>2, <2>3 DEF Abstract!Init
<1>2. IInv /\ IInv' /\ [Next]_vars => [Abstract!Next]_(Abstract!vars)
  BY StepRefines
<1> QED  BY <1>1, <1>2, InitInv, NextInv, PTL DEF Spec, ImplementsLabelQueue, Abstract!Spec

====
