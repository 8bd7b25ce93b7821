---------------------------- MODULE DoubleBucketQueue ----------------------------
(***************************************************************************)
(* The approximate priority queue of every path algorithm in thor:         *)
(* src/valhalla/baldr/double_bucket_queue.h.                               *)
(*                                                                         *)
(* Low level buckets each hold the labels of one cost interval of          *)
(* BucketSize; what does not fit into the BucketRange of the low level     *)
(* buckets waits in an overflow bucket.  The queue stores label indexes    *)
(* only: the sort cost of a label lives in the caller's label container,   *)
(* so decrease() finds a label by recomputing the bucket from the cost.    *)
(*                                                                         *)
(* Abstractions.  A bucket is the set of its labels: the order inside a    *)
(* bucket (LIFO in the code) is left open, so pop takes any label of the   *)
(* bucket.  Costs are naturals: the float arithmetic of the code is exact  *)
(* for the unit bucket size of every costing (kDefaultUnitSize).           *)
(***************************************************************************)
EXTENDS Integers, FiniteSets

CONSTANTS
  Labels,         \* label indexes a caller may emplace in its container
  Costs,          \* sort costs a label may have
  MinCosts,       \* minimum costs passed to reuse()
  BucketSize,     \* bucketsize_
  BucketRange,    \* bucketrange_
  kInvalidLabel,  \* what pop() returns when no label is left
  NoLabel,        \* no pop() yet
  DriftBound      \* bound: an exhausted pop() happens up to this currentcost_

ASSUME QueueAssumption ==
  /\ BucketSize \in Nat \ {0}
  /\ BucketRange \in Nat \ {0}
  /\ Costs \subseteq Nat
  /\ MinCosts \subseteq Nat
  /\ kInvalidLabel \notin Labels
  /\ NoLabel \notin Labels \cup {kInvalidLabel}
  /\ DriftBound \in Nat

VARIABLES
  bucket,       \* buckets_ and, at index Overflow, overflowbucket_
  current,      \* currentbucket_, BucketCount standing for buckets_.end()
  currentcost,  \* currentcost_
  mincost,      \* mincost_
  maxcost,      \* maxcost_
  sortcost,     \* the caller's label container, its labels' sort costs
  popped,       \* what the last pop() returned
  done          \* history: the labels pop() has returned since clear()

vars == <<bucket, current, currentcost, mincost, maxcost, sortcost,
          popped, done>>

----------------------------------------------------------------------------
\* Faulty variant: the partial last bucket is not allocated.
BucketCountRoundedDown == BucketRange \div BucketSize

BucketCount == (BucketRange \div BucketSize) + 1
Index       == 0 .. BucketCount - 1
Overflow    == -1
Slot        == Index \cup {Overflow}

\* static_cast<uint32_t>((cost - mincost_) * inv_)
IndexOf(cost, min) == (cost - min) \div BucketSize

\* Faulty variant: no underflow protection.
GetBucketUnprotected(cost) ==
  IF cost < maxcost THEN IndexOf(cost, mincost) ELSE Overflow

\* get_bucket(cost)
GetBucket(cost) ==
  IF cost < currentcost THEN current
  ELSE IF cost < maxcost THEN IndexOf(cost, mincost)
  ELSE Overflow

Queued == UNION {bucket[i] : i \in Slot}

\* The loop in empty(), started at bucket i of bkts, stops at j: at the first
\* non-empty bucket, or at BucketCount if there is none.
Advance(bkts, i, j) ==
  /\ i <= j
  /\ j < BucketCount => bkts[j] # {}
  /\ \A k \in Index : i <= k /\ k < j => bkts[k] = {}

----------------------------------------------------------------------------
Init ==
  /\ bucket = [i \in Slot |-> {}]
  /\ current = 0
  /\ \E m \in MinCosts : mincost = m - (m % BucketSize)
  /\ currentcost = mincost
  /\ maxcost = mincost + BucketRange
  /\ sortcost = [l \in {} |-> 0]
  /\ popped = NoLabel
  /\ done = {}

\* Faulty variant: maxcost_ is kept from the previous use.
ReuseKeepsMaxCost(m) ==
  /\ DOMAIN sortcost = {}
  /\ mincost' = m - (m % BucketSize)
  /\ currentcost' = mincost'
  /\ current' = 0
  /\ UNCHANGED <<bucket, maxcost, sortcost, popped, done>>

\* reuse(), called on a cleared queue with an empty label container.  It resizes
\* buckets_ but neither empties them nor looks at the overflow bucket.
Reuse(m) ==
  /\ DOMAIN sortcost = {}
  /\ mincost' = m - (m % BucketSize)
  /\ currentcost' = mincost'
  /\ maxcost' = mincost' + BucketRange
  /\ current' = 0
  /\ UNCHANGED <<bucket, sortcost, popped, done>>

\* Faulty variant: currentcost_ is not reset.
ClearKeepsCurrentCost ==
  /\ bucket' = [i \in Slot |-> IF i = Overflow \/ i >= current THEN {} ELSE bucket[i]]
  /\ current' = 0
  /\ sortcost' = [l \in {} |-> 0]
  /\ popped' = NoLabel
  /\ done' = {}
  /\ UNCHANGED <<currentcost, mincost, maxcost>>

\* clear(), after the caller cleared its label container: only the overflow bucket
\* and the low level buckets from the current one on are emptied.
Clear ==
  /\ bucket' = [i \in Slot |-> IF i = Overflow \/ i >= current THEN {} ELSE bucket[i]]
  /\ current' = 0
  /\ currentcost' = mincost
  /\ sortcost' = [l \in {} |-> 0]
  /\ popped' = NoLabel
  /\ done' = {}
  /\ UNCHANGED <<mincost, maxcost>>

\* add(): the caller emplaced label l with cost c at the end of its container.
Add(l, c) ==
  /\ l \notin DOMAIN sortcost
  /\ sortcost' = [x \in DOMAIN sortcost \cup {l} |-> IF x = l THEN c ELSE sortcost[x]]
  /\ bucket' = [bucket EXCEPT ![GetBucket(c)] = @ \cup {l}]
  /\ UNCHANGED <<current, currentcost, mincost, maxcost, popped, done>>

\* Faulty variants: the label is not erased from its old bucket, or not moved at all.
MovedWithoutErase(l, prev, new) == [bucket EXCEPT ![new] = @ \cup {l}]
NotMoved(l, prev, new) == bucket

\* The move decrease() makes.  prevbucket != newbucket compares the contents of the
\* two vectors, not their addresses.
Moved(l, prev, new) ==
  IF bucket[prev] # bucket[new]
  THEN [bucket EXCEPT ![new] = @ \cup {l}, ![prev] = @ \ {l}]
  ELSE bucket

\* decrease(), after which the caller updates the label.  The callers decrease only
\* temporarily labelled edges, whose label is still in the queue.
Decrease(l, c) ==
  /\ l \in DOMAIN sortcost \ done
  /\ c < sortcost[l]
  /\ bucket' = Moved(l, GetBucket(sortcost[l]), GetBucket(c))
  /\ sortcost' = [sortcost EXCEPT ![l] = c]
  /\ UNCHANGED <<current, currentcost, mincost, maxcost, popped, done>>

----------------------------------------------------------------------------
\* The end of pop(): take a label of low level bucket i of bkts.
Take(bkts, i, l) ==
  /\ l \in bkts[i]
  /\ bucket' = [bkts EXCEPT ![i] = @ \ {l}]
  /\ current' = i
  /\ popped' = l
  /\ done' = done \cup {l}

\* pop() finds a label in the low level buckets.
PopLow ==
  /\ \E i \in Index, l \in Labels :
       /\ Advance(bucket, current, i)
       /\ Take(bucket, i, l)
       /\ currentcost' = currentcost + (i - current) * BucketSize
  /\ UNCHANGED <<mincost, maxcost, sortcost>>

\* Faulty variant: the overflow bucket is not looked at.
PopExhaustedEarly ==
  /\ Advance(bucket, current, BucketCount)
  /\ currentcost <= DriftBound
  /\ current' = BucketCount - 1
  /\ currentcost' = currentcost + (BucketCount - current) * BucketSize
  /\ popped' = kInvalidLabel
  /\ UNCHANGED <<bucket, mincost, maxcost, sortcost, done>>

\* pop() finds neither low level nor overflow labels.  currentbucket_ goes back to
\* the last bucket, currentcost_ keeps what empty() has added to it.
PopExhausted ==
  /\ Advance(bucket, current, BucketCount)
  /\ bucket[Overflow] = {}
  /\ currentcost <= DriftBound
  /\ current' = BucketCount - 1
  /\ currentcost' = currentcost + (BucketCount - current) * BucketSize
  /\ popped' = kInvalidLabel
  /\ UNCHANGED <<bucket, mincost, maxcost, sortcost, done>>

\* The new mincost_ of empty_overflow() for the smallest overflow cost min, with the
\* two corrections the code makes against lost precision.
Rebased(min) ==
  LET m == mincost + ((min - mincost) \div BucketRange) * BucketRange IN
    IF m > min THEN m - BucketRange
    ELSE IF m + BucketRange < min THEN m + BucketRange
    ELSE m

\* The buckets after empty_overflow(): the overflow labels below the new maxcost_
\* are moved to the low level bucket of their cost.
Spread(m) ==
  [i \in Slot |->
     IF i = Overflow
     THEN {l \in bucket[Overflow] : sortcost[l] >= m + BucketRange}
     ELSE bucket[i] \cup {l \in bucket[Overflow] : /\ sortcost[l] < m + BucketRange
                                                   /\ IndexOf(sortcost[l], m) = i}]

\* pop() moves the overflow bucket into the low level buckets and takes a label from
\* there; if there is still none it returns kInvalidLabel and leaves currentbucket_
\* at the end.
PopOverflow ==
  /\ Advance(bucket, current, BucketCount)
  /\ \E least \in bucket[Overflow], i \in 0 .. BucketCount :
       LET m == Rebased(sortcost[least]) IN
         /\ \A l \in bucket[Overflow] : sortcost[least] <= sortcost[l]
         /\ Advance(Spread(m), 0, i)
         /\ mincost' = m
         /\ maxcost' = m + BucketRange
         /\ currentcost' = m + i * BucketSize
         /\ IF i < BucketCount
            THEN \E l \in Labels : Take(Spread(m), i, l)
            ELSE /\ bucket' = Spread(m)
                 /\ current' = i
                 /\ popped' = kInvalidLabel
                 /\ UNCHANGED done
  /\ UNCHANGED sortcost

Pop == PopLow \/ PopExhausted \/ PopOverflow

Next ==
  \/ \E m \in MinCosts : Reuse(m)
  \/ Clear
  \/ \E l \in Labels, c \in Costs : Add(l, c) \/ Decrease(l, c)
  \/ Pop

Spec == Init /\ [][Next]_vars

----------------------------------------------------------------------------
TypeOK ==
  /\ bucket \in [Slot -> SUBSET Labels]
  /\ current \in 0 .. BucketCount
  /\ currentcost \in Nat
  /\ mincost \in Nat
  /\ maxcost = mincost + BucketRange
  /\ DOMAIN sortcost \subseteq Labels
  /\ sortcost \in [DOMAIN sortcost -> Nat]
  /\ popped \in Labels \cup {kInvalidLabel, NoLabel}
  /\ done \subseteq DOMAIN sortcost

\* Every queued label is in the one bucket that get_bucket() computes from the cost
\* the label has now.  decrease() relies on it: it erases the label from that bucket,
\* and erasing at end() is undefined.
Located ==
  \A i \in Slot : \A l \in bucket[i] :
    l \in DOMAIN sortcost /\ GetBucket(sortcost[l]) = i

\* No label is behind the current bucket, where neither pop() nor clear() looks.
NothingBehindCurrent == \A i \in Index : i < current => bucket[i] = {}

\* Where currentcost_ stands: at the lower bound of the current bucket, or, once a
\* pop() found nothing, beyond the range while the current bucket is the last one.
CurrentCostOK ==
  /\ current < BucketCount
  /\ \/ currentcost = mincost + current * BucketSize
     \/ /\ current = BucketCount - 1
        /\ currentcost >= mincost + BucketCount * BucketSize

\* Labels are where decrease() and pop() will look for them: in the bucket of their cost,
\* never behind a cursor whose cost is that of its bucket.
LabelsPlaced == Located /\ NothingBehindCurrent /\ CurrentCostOK

\* A label put into the queue stays there until pop() returns it, and pop() returns it
\* only once: no add, decrease, move out of overflow or exhausted pop() loses one.
NoLabelLost == Queued = DOMAIN sortcost \ done

\* pop() returns kInvalidLabel exactly when no label is queued; the case "still empty"
\* after the overflow was moved does not arise.
InvalidOnlyWhenEmpty == [][Pop => (popped' = kInvalidLabel <=> Queued = {})]_vars

\* pop() returns the labels in cost order up to the width of one bucket: no label left
\* in the queue is cheaper by BucketSize or more, unless the one returned lies in the
\* bucket the queue has already advanced to, where labels that come late are put.  A
\* search that only queues labels that cost more than the one it expands thus settles
\* them bucket by bucket.
PopsInOrder ==
  [][done' # done /\ done' # {} =>
       \A l \in Queued : \/ sortcost[popped'] < sortcost[l] + BucketSize
                         \/ sortcost[popped'] < currentcost + BucketSize]_vars

\* The buckets, the cursor and the overflow bucket implement a set of labels with a pop()
\* that is in order up to the width of a bucket, whatever the caller does: no label is
\* lost or returned twice, costs stay the caller's, kInvalidLabel means empty.
Abstract ==
  INSTANCE LabelQueue WITH cost <- sortcost, queued <- Queued, reached <- currentcost

ImplementsLabelQueue == Abstract!Spec

====
