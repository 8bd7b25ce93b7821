------------------------------- MODULE LabelQueue -------------------------------
(***************************************************************************)
(* What a path search may rely on when it keeps its labels in a            *)
(* DoubleBucketQueue (src/valhalla/baldr/double_bucket_queue.h), and what  *)
(* the queue relies on: the abstract specification that DoubleBucketQueue  *)
(* implements and that the searches of thor keep to.                       *)
(*                                                                         *)
(* Buckets, the overflow bucket and the cursor are gone.  The queue is a   *)
(* set of labels; pop() takes one that is cheapest up to the width of a    *)
(* bucket.  Labels below the cost the queue has reached come in any order. *)
(***************************************************************************)
EXTENDS Integers

CONSTANTS
  Labels,
  BucketSize,
  kInvalidLabel,
  NoLabel        \* no pop() yet

VARIABLES
  cost,     \* the sort costs of the labels in the caller's container
  queued,   \* the labels that were added and not returned
  popped,   \* what the last pop() returned
  reached   \* the cost the queue has reached

vars == <<cost, queued, popped, reached>>

Init ==
  /\ DOMAIN cost = {}
  /\ queued = {}
  /\ popped = NoLabel
  /\ reached \in Int

\* The label container is emptied and the queue cleared.
Clear ==
  /\ DOMAIN cost' = {}
  /\ queued' = {}
  /\ popped' = NoLabel
  /\ reached' \in Int

\* reuse() with an empty container: another range of costs.
Reuse ==
  /\ DOMAIN cost = {}
  /\ reached' \in Int
  /\ UNCHANGED <<cost, queued, popped>>

\* The caller appends labels and adds them, and lowers the costs of labels that are
\* still queued; no other cost changes.
Relax ==
  /\ DOMAIN cost \subseteq DOMAIN cost'
  /\ DOMAIN cost' \subseteq Labels
  /\ queued' = queued \cup (DOMAIN cost' \ DOMAIN cost)
  /\ \A l \in DOMAIN cost : cost'[l] = cost[l] \/ (l \in queued /\ cost'[l] < cost[l])
  /\ UNCHANGED <<popped, reached>>

\* l is cheapest up to the width of a bucket, or came too late for its bucket.
InOrder(l) ==
  \/ \A m \in queued : cost[l] < cost[m] + BucketSize
  \/ cost[l] < reached + BucketSize

\* pop() returns a label.  What the queue has reached is no more than that label costs.
Pop(l) ==
  /\ l \in queued
  /\ InOrder(l)
  /\ queued' = queued \ {l}
  /\ popped' = l
  /\ reached' \in Int
  /\ reached' = reached \/ reached' <= cost[l]
  /\ UNCHANGED cost

\* pop() returns kInvalidLabel.
PopNothing ==
  /\ queued = {}
  /\ popped' = kInvalidLabel
  /\ reached' \in Int
  /\ UNCHANGED <<cost, queued>>

Next ==
  \/ Clear
  \/ Reuse
  \/ Relax
  \/ \E l \in queued : Pop(l)
  \/ PopNothing

Spec == Init /\ [][Next]_vars
====
