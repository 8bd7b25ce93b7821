---------------------------- MODULE TileCacheProofs ----------------------------
(***************************************************************************)
(* What the tile caches keep for any number of threads, tiles and sizes:   *)
(* types; the count and the keys of each kind of cache; hard control's     *)
(* limit; that callers get their tiles; and that Trim() relieves.          *)
(*                                                                         *)
(* First come facts about lists: what their tiles come to, and what        *)
(* appending, moving to the head and evicting from the back do to the sum  *)
(* and to the keys.  BInv then says that the count is the sum modulo the   *)
(* word, since the code adds and subtracts in a size_t.                    *)
(***************************************************************************)
EXTENDS TileCache, SequenceTheorems, WellFoundedInduction, TLAPS

----------------------------------------------------------------------------
\* A set of natural numbers has a least one.
LEMMA LeastOf ==
  ASSUME NEW S \in SUBSET Nat, S # {}
  PROVE  \E x \in S : \A y \in S : x <= y
<1>1. \E x \in S : \A y \in S : ~ (<<y, x>> \in OpToRel(<, Nat))
  BY NatLessThanWellFounded, WFMin, Zenon
<1>2. PICK x \in S : \A y \in S : ~(y < x)
  BY <1>1 DEF OpToRel
<1>. QED
  BY <1>2

\* Induction over the natural numbers in a set.
LEMMA SetInduction ==
  ASSUME NEW S, 0 \in S, \A i \in Nat : i \in S => i + 1 \in S
  PROVE  Nat \subseteq S
<1>. DEFINE T == {i \in Nat : i \notin S}
<1>. SUFFICES ASSUME T # {} PROVE FALSE
  OBVIOUS
<1>1. \E x \in T : \A y \in T : x <= y
  <2>1. T \in SUBSET Nat
    OBVIOUS
  <2>. HIDE DEF T
  <2>. QED
    BY <2>1, LeastOf
<1>2. PICK x \in T : \A y \in T : x <= y
  BY <1>1
<1>3. x - 1 \in Nat /\ x - 1 \in S
  BY <1>2
<1>. QED
  BY <1>2, <1>3

\* Of the numbers up to n that are in a set with 0 there is a greatest.
LEMMA GreatestOf ==
  ASSUME NEW n \in Nat, NEW S \in SUBSET (0 .. n), 0 \in S
  PROVE  \E k \in S : \A m \in k + 1 .. n : m \notin S
<1>. DEFINE T == {i \in 0 .. n : n - i \in S}
<1>1. T \in SUBSET Nat /\ n \in T
  OBVIOUS
<1>2. \E x \in T : \A y \in T : x <= y
  <2>. HIDE DEF T
  <2>. QED
    BY <1>1, LeastOf
<1>3. PICK x \in T : \A y \in T : x <= y
  BY <1>2
<1>4. n - x \in S
  BY <1>3
<1>5. ASSUME NEW m \in (n - x) + 1 .. n PROVE m \notin S
  <2>. SUFFICES ASSUME m \in S PROVE FALSE
    OBVIOUS
  <2>1. n - m \in 0 .. n /\ n - (n - m) = m
    BY <1>3
  <2>2. n - m \in T
    BY <2>1
  <2>. QED
    BY <1>3, <2>1, <2>2
<1>. QED
  BY <1>4, <1>5

----------------------------------------------------------------------------
\* Arithmetic of size_t: what wraps around once may be added to before or afterwards.
LEMMA Wrapped ==
  /\ \A a \in Int : a % Word \in 0 .. Word - 1
  /\ \A a \in 0 .. Word - 1 : a % Word = a
  /\ \A a, b \in Int : ((a % Word) + b) % Word = (a + b) % Word
<1>. DEFINE W == Word
<1>1. W \in Nat \ {0}
  BY CacheAssumption
<1>2. \A a \in Int : a % W \in 0 .. W - 1
  <2>. HIDE DEF W
  <2>. QED
    BY <1>1, SMT
<1>3. \A a \in Int : (a \div W) \in Int /\ a = W * (a \div W) + (a % W)
  <2>. HIDE DEF W
  <2>. QED
    BY <1>1, SMT
<1>4. ASSUME NEW p \in Int, NEW q \in Int, NEW r \in 0 .. W - 1, NEW s \in 0 .. W - 1,
             W * p + r = W * q + s
      PROVE  r = s
  <2>. HIDE DEF W
  <2>1. W * (p - q) = W * p - W * q /\ W * p \in Int /\ W * q \in Int
    BY <1>1, SMT
  <2>2. p - q >= 1 => W * (p - q) >= W
    BY <1>1, SMT
  <2>3. p - q <= 0 - 1 => W * (p - q) <= 0 - W
    BY <1>1, SMT
  <2>4. p = q
    BY <1>1, <1>4, <2>1, <2>2, <2>3
  <2>. QED
    BY <1>4, <2>1, <2>4
<1>5. ASSUME NEW a \in 0 .. W - 1 PROVE a % W = a
  <2>1. W * (a \div W) + (a % W) = W * 0 + a /\ a \in Int /\ (a \div W) \in Int /\ a % W \in 0 .. W - 1
    BY <1>1, <1>2, <1>3
  <2>. HIDE DEF W
  <2>. QED
    BY <1>4, <2>1
<1>6. ASSUME NEW a \in Int, NEW b \in Int PROVE ((a % W) + b) % W = (a + b) % W
  <2>. DEFINE x == (a % W) + b
              y == a + b
              p == x \div W
              q == a \div W
              t == y \div W
  <2>1. a % W \in Int /\ x \in Int /\ y \in Int /\ a = W * q + (a % W) /\ q \in Int
    BY <1>1, <1>2, <1>3
  <2>2. /\ x = W * p + (x % W) /\ x % W \in 0 .. W - 1 /\ p \in Int
        /\ y = W * t + (y % W) /\ y % W \in 0 .. W - 1 /\ t \in Int
    <3>. HIDE DEF x, y, W
    <3>. QED
      BY <1>2, <1>3, <2>1
  <2>3. y = W * q + x
    <3>. HIDE DEF W, q
    <3>. QED
      BY <1>1, <2>1
  <2>4. W * (q + p) = W * q + W * p /\ W * q \in Int /\ W * p \in Int /\ W * t \in Int /\ q + p \in Int
    <3>. HIDE DEF W, q, p, t
    <3>. QED
      BY <1>1, <2>1, <2>2, SMT
  <2>5. W * t + (y % W) = W * (q + p) + (x % W)
    <3>. DEFINE A == W * t
                B == W * q
                C == W * p
                u == y % W
                v == x % W
    <3>1. A \in Int /\ B \in Int /\ C \in Int /\ u \in Int /\ v \in Int
      <4>. HIDE DEF W, q, p, t, x, y
      <4>. QED
        BY <1>1, <2>2, <2>4
    <3>2. y = A + u /\ y = B + x /\ x = C + v /\ W * (q + p) = B + C
      BY <2>2, <2>3, <2>4
    <3>3. A + u = (B + C) + v
      <4>. HIDE DEF A, B, C, u, v, x, y
      <4>. QED
        BY <3>1, <3>2
    <3>. QED
      BY <3>2, <3>3
  <2>6. y % W = x % W
    <3>. HIDE DEF W, q, p, t, x, y
    <3>. QED
      BY <1>4, <2>2, <2>4, <2>5
  <2>. QED
    BY <2>6
<1>. QED
  BY <1>2, <1>5, <1>6

----------------------------------------------------------------------------
\* f[k] is what the first k tiles of l come to.
Sums(w, l, f) ==
  /\ f \in [0 .. Len(l) -> Nat]
  /\ f[0] = 0
  /\ \A k \in 1 .. Len(l) : f[k] = f[k - 1] + w[l[k].end]

\* The entries of a list.
LEMMA Entries ==
  ASSUME NEW l \in Seq(Entry)
  PROVE  /\ Len(l) \in Nat /\ DOMAIN l = 1 .. Len(l)
         /\ \A k \in 1 .. Len(l) : l[k] \in Entry /\ l[k].id \in Tiles /\ l[k].end \in Sizes
         /\ \A k \in 1 .. Len(l) : l[k].end \in Nat
<1>1. /\ Len(l) \in Nat /\ DOMAIN l = 1 .. Len(l)
      /\ \A k \in 1 .. Len(l) : l[k] \in Entry
  OBVIOUS
<1>. QED
  BY <1>1, CacheAssumption DEF Entry

\* Bytes is a recursive function: there are sums, and it is the last of them.
LEMMA BytesDefined ==
  ASSUME NEW w \in [Sizes -> Nat], NEW l \in Seq(Entry)
  PROVE  \E f : Sums(w, l, f) /\ Bytes(w, l) = f[Len(l)]
<1>. DEFINE N == Len(l)
            Is(f, m) == f = [k \in 0 .. m |-> IF k = 0 THEN 0 ELSE f[k - 1] + w[l[k].end]]
            S == {m \in Nat : m <= N => \E f \in [0 .. m -> Nat] : Is(f, m)}
<1>1. /\ N \in Nat /\ \A k \in 1 .. N : w[l[k].end] \in Nat
  BY Entries
<1>2. 0 \in S
  <2>. DEFINE f == [k \in 0 .. 0 |-> 0]
  <2>1. f \in [0 .. 0 -> Nat] /\ Is(f, 0)
    OBVIOUS
  <2>. HIDE DEF f, Is
  <2>. QED
    BY <2>1
<1>3. ASSUME NEW m \in Nat, m \in S PROVE m + 1 \in S
  <2>. HIDE DEF Is
  <2>. SUFFICES ASSUME m + 1 <= N PROVE \E f \in [0 .. m + 1 -> Nat] : Is(f, m + 1)
    BY <1>1
  <2>. USE DEF Is
  <2>1. PICK f \in [0 .. m -> Nat] : Is(f, m)
    BY <1>1, <1>3
  <2>. DEFINE h == [k \in 0 .. m + 1 |-> IF k = 0 THEN 0 ELSE f[k - 1] + w[l[k].end]]
  <2>2. h \in [0 .. m + 1 -> Nat]
    <3>1. \A k \in 1 .. m + 1 : k - 1 \in 0 .. m /\ f[k - 1] \in Nat /\ w[l[k].end] \in Nat
      BY <1>1
    <3>. QED
      BY <3>1
  <2>3. \A k \in 0 .. m : h[k] = f[k]
    <3>1. \A k \in 0 .. m : f[k] = IF k = 0 THEN 0 ELSE f[k - 1] + w[l[k].end]
      BY <2>1
    <3>. HIDE DEF Is
    <3>. QED
      BY <3>1
  <2>4. \A k \in 1 .. m + 1 : h[k - 1] = f[k - 1]
    <3>1. \A k \in 1 .. m + 1 : k - 1 \in 0 .. m
      OBVIOUS
    <3>. HIDE DEF h, Is
    <3>. QED
      BY <2>3, <3>1
  <2>. DEFINE hh == [k \in 0 .. m + 1 |-> IF k = 0 THEN 0 ELSE h[k - 1] + w[l[k].end]]
  <2>5. \A k \in 0 .. m + 1 : hh[k] = h[k]
    <3>1. \A k \in 0 .. m + 1 : h[k] = IF k = 0 THEN 0 ELSE f[k - 1] + w[l[k].end]
      OBVIOUS
    <3>. HIDE DEF h, Is
    <3>. QED
      BY <2>4, <3>1
  <2>6. hh = h
    <3>1. h = [k \in 0 .. m + 1 |-> h[k]] /\ hh = [k \in 0 .. m + 1 |-> hh[k]]
      OBVIOUS
    <3>. HIDE DEF h, hh, Is
    <3>. QED
      BY <2>5, <3>1
  <2>7. Is(h, m + 1)
    BY <2>6
  <2>. HIDE DEF h, Is
  <2>. QED
    BY <2>2, <2>7
<1>4. \E f \in [0 .. N -> Nat] : Is(f, N)
  <2>. HIDE DEF Is
  <2>1. Nat \subseteq S
    <3>. HIDE DEF S
    <3>. QED
      BY <1>2, <1>3, SetInduction
  <2>. QED
    BY <1>1, <2>1
<1>. DEFINE sum == CHOOSE f : Is(f, N)
<1>5. Is(sum, N)
  <2>. HIDE DEF Is
  <2>. QED
    BY <1>4
<1>6. Bytes(w, l) = sum[N]
  BY DEF Bytes
<1>. HIDE DEF sum
<1>7. \A k \in 0 .. N : sum[k] = IF k = 0 THEN 0 ELSE sum[k - 1] + w[l[k].end]
  BY <1>5
<1>8. \A k \in 0 .. N : sum[k] \in Nat
  <2>. DEFINE V == {m \in Nat : m <= N => sum[m] \in Nat}
  <2>1. 0 \in V
    BY <1>1, <1>7
  <2>2. ASSUME NEW m \in Nat, m \in V PROVE m + 1 \in V
    <3>. HIDE DEF Is
    <3>. SUFFICES ASSUME m + 1 <= N PROVE sum[m + 1] \in Nat
      OBVIOUS
    <3>1. m + 1 \in 1 .. N /\ (m + 1) - 1 = m /\ sum[m] \in Nat
      BY <1>1, <2>2
    <3>2. sum[m + 1] = sum[m] + w[l[m + 1].end] /\ w[l[m + 1].end] \in Nat
      BY <1>1, <1>7, <3>1
    <3>. QED
      BY <3>1, <3>2
  <2>3. Nat \subseteq V
    <3>. HIDE DEF V
    <3>. QED
      BY <2>1, <2>2, SetInduction
  <2>. QED
    BY <1>1, <2>3
<1>9. sum = [k \in 0 .. N |-> sum[k]]
  BY <1>5
<1>10. sum \in [0 .. N -> Nat]
  <2>. HIDE DEF Is
  <2>. QED
    BY <1>8, <1>9
<1>11. Sums(w, l, sum)
  <2>. HIDE DEF Is
  <2>. QED
    BY <1>1, <1>7, <1>10 DEF Sums
<1>. QED
  BY <1>6, <1>11

\* There is only one function of sums.
LEMMA SumsUnique ==
  ASSUME NEW w \in [Sizes -> Nat], NEW l \in Seq(Entry), NEW f, Sums(w, l, f)
  PROVE  Bytes(w, l) = f[Len(l)]
<1>1. PICK h : Sums(w, l, h) /\ Bytes(w, l) = h[Len(l)]
  BY BytesDefined
<1>. DEFINE S == {m \in Nat : m <= Len(l) => f[m] = h[m]}
<1>2. Len(l) \in Nat
  BY Entries
<1>3. 0 \in S
  BY <1>1 DEF Sums
<1>4. ASSUME NEW m \in Nat, m \in S PROVE m + 1 \in S
  <2>. SUFFICES ASSUME m + 1 <= Len(l) PROVE f[m + 1] = h[m + 1]
    OBVIOUS
  <2>1. m + 1 \in 1 .. Len(l) /\ (m + 1) - 1 = m /\ f[m] = h[m]
    BY <1>2, <1>4
  <2>. QED
    BY <1>1, <2>1 DEF Sums
<1>5. Nat \subseteq S
  <2>. HIDE DEF S
  <2>. QED
    BY <1>3, <1>4, SetInduction
<1>. QED
  BY <1>1, <1>2, <1>5

----------------------------------------------------------------------------
\* S are the keys of the tiles of l, and no two tiles have the same one.
InStep(l, S) ==
  /\ S = {l[k].id : k \in DOMAIN l}
  /\ \A j, k \in DOMAIN l : l[j].id = l[k].id => j = k

\* A tile at the end of the list, where FlatTileCache and SimpleTileCache put it.
LEMMA Appended ==
  ASSUME NEW l \in Seq(Entry), NEW e \in Entry, NEW w \in [Sizes -> Nat]
  PROVE  /\ Append(l, e) \in Seq(Entry) /\ Len(Append(l, e)) = Len(l) + 1
         /\ \A k \in 1 .. Len(l) : Append(l, e)[k] = l[k]
         /\ Append(l, e)[Len(l) + 1] = e
         /\ Bytes(w, Append(l, e)) = Bytes(w, l) + w[e.end]
         /\ \A S : InStep(l, S) /\ e.id \notin S => InStep(Append(l, e), S \cup {e.id})
<1>. DEFINE a == Append(l, e)
            N == Len(l)
<1>1. /\ a \in Seq(Entry) /\ Len(a) = N + 1 /\ N \in Nat
      /\ \A k \in 1 .. N : a[k] = l[k]
      /\ a[N + 1] = e
      /\ DOMAIN l = 1 .. N /\ DOMAIN a = 1 .. N + 1
  OBVIOUS
<1>2. /\ \A k \in 1 .. N : w[l[k].end] \in Nat
      /\ w[e.end] \in Nat
  BY Entries DEF Entry
<1>3. PICK f : Sums(w, l, f) /\ Bytes(w, l) = f[N]
  BY BytesDefined
<1>. HIDE DEF a, N
<1>4. f \in [0 .. N -> Nat] /\ f[0] = 0 /\ \A k \in 1 .. N : f[k] = f[k - 1] + w[l[k].end]
  BY <1>3 DEF Sums, N
<1>. DEFINE h == [k \in 0 .. N + 1 |-> IF k <= N THEN f[k] ELSE f[N] + w[e.end]]
<1>5. Sums(w, a, h)
  <2>1. h \in [0 .. N + 1 -> Nat] /\ h[0] = 0
    BY <1>1, <1>2, <1>4
  <2>2. ASSUME NEW k \in 1 .. N + 1 PROVE h[k] = h[k - 1] + w[a[k].end]
    <3>1. CASE k = N + 1
      BY <1>1, <1>4, <3>1
    <3>2. CASE k # N + 1
      <4>1. k \in 1 .. N /\ k - 1 \in 0 .. N
        BY <1>1, <3>2
      <4>. QED
        BY <1>1, <1>4, <4>1
    <3>. QED
      BY <3>1, <3>2
  <2>. HIDE DEF h
  <2>. QED
    BY <1>1, <2>1, <2>2 DEF Sums
<1>6. Bytes(w, a) = Bytes(w, l) + w[e.end]
  <2>1. h[N + 1] = f[N] + w[e.end]
    BY <1>1
  <2>. HIDE DEF h
  <2>. QED
    BY <1>1, <1>3, <1>5, <2>1, SumsUnique
<1>7. ASSUME NEW S, InStep(l, S), e.id \notin S PROVE InStep(a, S \cup {e.id})
  <2>1. /\ S = {l[k].id : k \in 1 .. N}
        /\ \A j, k \in 1 .. N : l[j].id = l[k].id => j = k
    BY <1>1, <1>7 DEF InStep
  <2>2. {a[k].id : k \in 1 .. N + 1} = S \cup {e.id}
    <3>1. ASSUME NEW k \in 1 .. N + 1 PROVE a[k].id \in S \cup {e.id}
      <4>1. k \in 1 .. N \/ k = N + 1
        BY <1>1
      <4>. QED
        BY <1>1, <2>1, <4>1
    <3>2. ASSUME NEW x \in S \cup {e.id} PROVE \E k \in 1 .. N + 1 : x = a[k].id
      <4>1. 1 .. N \subseteq 1 .. N + 1 /\ N + 1 \in 1 .. N + 1
        BY <1>1
      <4>. QED
        BY <1>1, <2>1, <4>1
    <3>. QED
      BY <3>1, <3>2
  <2>3. ASSUME NEW j \in 1 .. N + 1, NEW k \in 1 .. N + 1, a[j].id = a[k].id PROVE j = k
    <3>1. /\ j \in 1 .. N \/ j = N + 1
          /\ k \in 1 .. N \/ k = N + 1
      BY <1>1
    <3>2. \A m \in 1 .. N : l[m].id # e.id
      BY <1>7, <2>1
    <3>. QED
      BY <1>1, <2>1, <2>3, <3>1, <3>2
  <2>. QED
    BY <1>1, <2>2, <2>3 DEF InStep
<1>. QED
  BY <1>1, <1>6, <1>7 DEF a, N

\* A tile at the head of the list, where TileCacheLRU puts it.
LEMMA Prepended ==
  ASSUME NEW l \in Seq(Entry), NEW e \in Entry, NEW w \in [Sizes -> Nat]
  PROVE  /\ <<e>> \o l \in Seq(Entry) /\ Len(<<e>> \o l) = Len(l) + 1
         /\ (<<e>> \o l)[1] = e
         /\ \A k \in 2 .. Len(l) + 1 : (<<e>> \o l)[k] = l[k - 1]
         /\ Bytes(w, <<e>> \o l) = Bytes(w, l) + w[e.end]
         /\ \A S : InStep(l, S) /\ e.id \notin S => InStep(<<e>> \o l, S \cup {e.id})
<1>. DEFINE a == <<e>> \o l
            N == Len(l)
<1>1. /\ a \in Seq(Entry) /\ Len(a) = N + 1 /\ N \in Nat
      /\ \A k \in 2 .. N + 1 : a[k] = l[k - 1]
      /\ a[1] = e
      /\ DOMAIN l = 1 .. N /\ DOMAIN a = 1 .. N + 1
  <2>1. <<e>> \in Seq(Entry) /\ Len(<<e>>) = 1 /\ <<e>>[1] = e /\ N \in Nat
    OBVIOUS
  <2>2. /\ a \in Seq(Entry) /\ Len(a) = 1 + N
        /\ \A i \in 1 .. 1 + N : a[i] = IF i <= 1 THEN <<e>>[i] ELSE l[i - 1]
    BY <2>1, ConcatProperties
  <2>. HIDE DEF a
  <2>. QED
    BY <2>1, <2>2
<1>2. /\ \A k \in 1 .. N : w[l[k].end] \in Nat
      /\ w[e.end] \in Nat
  BY Entries DEF Entry
<1>3. PICK f : Sums(w, l, f) /\ Bytes(w, l) = f[N]
  BY BytesDefined
<1>. HIDE DEF a, N
<1>4. f \in [0 .. N -> Nat] /\ f[0] = 0 /\ \A k \in 1 .. N : f[k] = f[k - 1] + w[l[k].end]
  BY <1>3 DEF Sums, N
<1>. DEFINE h == [k \in 0 .. N + 1 |-> IF k = 0 THEN 0 ELSE f[k - 1] + w[e.end]]
<1>5. Sums(w, a, h)
  <2>1. h \in [0 .. N + 1 -> Nat] /\ h[0] = 0
    <3>1. \A k \in 1 .. N + 1 : k - 1 \in 0 .. N
      BY <1>1
    <3>. QED
      BY <1>1, <1>2, <1>4, <3>1
  <2>2. ASSUME NEW k \in 1 .. N + 1 PROVE h[k] = h[k - 1] + w[a[k].end]
    <3>1. CASE k = 1
      BY <1>1, <1>2, <1>4, <3>1
    <3>2. CASE k # 1
      <4>1. k - 1 \in 1 .. N /\ k \in 2 .. N + 1 /\ (k - 1) - 1 \in 0 .. N
        BY <1>1, <3>2
      <4>2. f[k - 1] = f[(k - 1) - 1] + w[l[k - 1].end] /\ f[(k - 1) - 1] \in Nat /\ w[l[k - 1].end] \in Nat
        BY <1>2, <1>4, <4>1
      <4>3. h[k] = f[k - 1] + w[e.end] /\ h[k - 1] = f[(k - 1) - 1] + w[e.end]
        BY <1>1, <4>1
      <4>4. a[k] = l[k - 1]
        BY <1>1, <4>1
      <4>. DEFINE x == f[(k - 1) - 1]
                  y == w[l[k - 1].end]
                  z == w[e.end]
      <4>5. (x + y) + z = (x + z) + y
        <5>1. x \in Nat /\ y \in Nat /\ z \in Nat
          BY <1>2, <4>2
        <5>. HIDE DEF x, y, z
        <5>. QED
          BY <5>1
      <4>. HIDE DEF h
      <4>. QED
        BY <4>2, <4>3, <4>4, <4>5
    <3>. QED
      BY <3>1, <3>2
  <2>. HIDE DEF h
  <2>. QED
    BY <1>1, <2>1, <2>2 DEF Sums
<1>6. Bytes(w, a) = Bytes(w, l) + w[e.end]
  <2>1. h[N + 1] = f[N] + w[e.end]
    BY <1>1
  <2>. HIDE DEF h
  <2>. QED
    BY <1>1, <1>3, <1>5, <2>1, SumsUnique
<1>7. ASSUME NEW S, InStep(l, S), e.id \notin S PROVE InStep(a, S \cup {e.id})
  <2>1. /\ S = {l[k].id : k \in 1 .. N}
        /\ \A j, k \in 1 .. N : l[j].id = l[k].id => j = k
    BY <1>1, <1>7 DEF InStep
  <2>2. \A k \in 1 .. N + 1 : k = 1 \/ (k - 1 \in 1 .. N /\ a[k] = l[k - 1])
    BY <1>1
  <2>3. {a[k].id : k \in 1 .. N + 1} = S \cup {e.id}
    <3>1. ASSUME NEW k \in 1 .. N + 1 PROVE a[k].id \in S \cup {e.id}
      BY <1>1, <2>1, <2>2
    <3>2. ASSUME NEW x \in S \cup {e.id} PROVE \E k \in 1 .. N + 1 : x = a[k].id
      <4>1. CASE x = e.id
        BY <1>1, <4>1
      <4>2. CASE x # e.id
        <5>1. PICK m \in 1 .. N : x = l[m].id
          BY <2>1, <4>2
        <5>2. m + 1 \in 1 .. N + 1 /\ a[m + 1] = l[m]
          BY <1>1
        <5>. QED
          BY <5>1, <5>2
      <4>. QED
        BY <4>1, <4>2
    <3>. QED
      BY <3>1, <3>2
  <2>4. ASSUME NEW j \in 1 .. N + 1, NEW k \in 1 .. N + 1, a[j].id = a[k].id PROVE j = k
    <3>1. \A m \in 1 .. N : l[m].id # e.id
      BY <1>7, <2>1
    <3>2. CASE j = 1 \/ k = 1
      BY <1>1, <2>2, <2>4, <3>1, <3>2
    <3>3. CASE j # 1 /\ k # 1
      <4>1. l[j - 1].id = l[k - 1].id /\ j - 1 \in 1 .. N /\ k - 1 \in 1 .. N
        BY <2>2, <2>4, <3>3
      <4>. QED
        BY <2>1, <4>1
    <3>. QED
      BY <3>2, <3>3
  <2>. QED
    BY <1>1, <2>3, <2>4 DEF InStep
<1>. QED
  BY <1>1, <1>6, <1>7 DEF a, N

\* The first tiles of a list, which are left when others leave from its back.
LEMMA FirstTiles ==
  ASSUME NEW l \in Seq(Entry), NEW k \in 0 .. Len(l), NEW w \in [Sizes -> Nat]
  PROVE  /\ SubSeq(l, 1, k) \in Seq(Entry) /\ Len(SubSeq(l, 1, k)) = k
         /\ \A j \in 1 .. k : SubSeq(l, 1, k)[j] = l[j]
         /\ \A f : Sums(w, l, f) => Bytes(w, SubSeq(l, 1, k)) = f[k]
         /\ \A S : InStep(l, S) => InStep(SubSeq(l, 1, k), S \ {l[j].id : j \in k + 1 .. Len(l)})
<1>. DEFINE a == SubSeq(l, 1, k)
            N == Len(l)
<1>1. /\ a \in Seq(Entry) /\ Len(a) = k /\ k \in Nat /\ k <= N /\ N \in Nat
      /\ \A j \in 1 .. k : a[j] = l[j]
      /\ DOMAIN l = 1 .. N /\ DOMAIN a = 1 .. k
  <2>1. k \in Nat /\ k <= N /\ N \in Nat /\ \A j \in 1 .. k : l[j] \in Entry
    BY Entries
  <2>2. /\ a \in Seq(Entry) /\ Len(a) = IF 1 <= k THEN k - 1 + 1 ELSE 0
        /\ \A j \in 1 .. k - 1 + 1 : a[j] = l[1 + j - 1]
    BY <2>1, SubSeqProperties
  <2>3. DOMAIN a = 1 .. Len(a) /\ DOMAIN l = 1 .. N
    BY <2>2
  <2>. HIDE DEF a
  <2>. QED
    BY <2>1, <2>2, <2>3
<1>. HIDE DEF a, N
<1>2. ASSUME NEW f, Sums(w, l, f) PROVE Bytes(w, a) = f[k]
  <2>. DEFINE h == [j \in 0 .. k |-> f[j]]
  <2>1. f \in [0 .. N -> Nat] /\ f[0] = 0 /\ \A j \in 1 .. N : f[j] = f[j - 1] + w[l[j].end]
    BY <1>2 DEF Sums, N
  <2>2. h \in [0 .. k -> Nat] /\ h[0] = 0 /\ h[k] = f[k]
    BY <1>1, <2>1
  <2>3. ASSUME NEW j \in 1 .. k PROVE h[j] = h[j - 1] + w[a[j].end]
    <3>1. j \in 1 .. N /\ j - 1 \in 0 .. k /\ j \in 0 .. k /\ a[j] = l[j]
      BY <1>1
    <3>. QED
      BY <2>1, <3>1
  <2>. HIDE DEF h
  <2>4. Sums(w, a, h)
    BY <1>1, <2>2, <2>3 DEF Sums
  <2>. QED
    BY <1>1, <2>2, <2>4, SumsUnique
<1>3. ASSUME NEW S, InStep(l, S) PROVE InStep(a, S \ {l[j].id : j \in k + 1 .. N})
  <2>1. /\ S = {l[j].id : j \in 1 .. N}
        /\ \A i, j \in 1 .. N : l[i].id = l[j].id => i = j
    BY <1>1, <1>3 DEF InStep
  <2>2. 1 .. k \subseteq 1 .. N /\ k + 1 .. N \subseteq 1 .. N
    BY <1>1
  <2>3. ASSUME NEW j \in 1 .. k PROVE a[j].id \in S \ {l[i].id : i \in k + 1 .. N}
    <3>1. \A i \in k + 1 .. N : l[i].id # l[j].id
      BY <1>1, <2>1, <2>2
    <3>. QED
      BY <1>1, <2>1, <2>2, <3>1
  <2>4. ASSUME NEW x \in S \ {l[i].id : i \in k + 1 .. N} PROVE \E j \in 1 .. k : x = a[j].id
    <3>1. PICK i \in 1 .. N : x = l[i].id
      BY <2>1
    <3>2. i \notin k + 1 .. N
      BY <3>1
    <3>3. i \in 1 .. k
      BY <1>1, <3>2
    <3>. QED
      BY <1>1, <3>1, <3>3
  <2>5. {a[j].id : j \in 1 .. k} = S \ {l[i].id : i \in k + 1 .. N}
    BY <2>3, <2>4
  <2>. QED
    BY <1>1, <2>1, <2>2, <2>5 DEF InStep
<1>4. \A f : Sums(w, l, f) => Bytes(w, a) = f[k]
  BY <1>2, Zenon
<1>5. \A S : InStep(l, S) => InStep(a, S \ {l[j].id : j \in k + 1 .. N})
  BY <1>3, Zenon
<1>. QED
  BY <1>1, <1>4, <1>5, Zenon DEF a, N

\* MoveToLruHead: the tiles stay the same.
LEMMA Moved ==
  ASSUME NEW l \in Seq(Entry), NEW k \in 1 .. Len(l), NEW w \in [Sizes -> Nat]
  PROVE  /\ MoveToLruHead(l, k) \in Seq(Entry) /\ Len(MoveToLruHead(l, k)) = Len(l)
         /\ MoveToLruHead(l, k)[1] = l[k]
         /\ Bytes(w, MoveToLruHead(l, k)) = Bytes(w, l)
         /\ \A S : InStep(l, S) => InStep(MoveToLruHead(l, k), S)
<1>. DEFINE a == MoveToLruHead(l, k)
            N == Len(l)
            p == SubSeq(l, 1, k - 1)
            q == SubSeq(l, k + 1, N)
<1>1. /\ N \in Nat /\ k \in Nat /\ 1 <= k /\ k <= N /\ DOMAIN l = 1 .. N
      /\ \A j \in 1 .. N : l[j] \in Entry
  BY Entries
<1>2. /\ p \in Seq(Entry) /\ Len(p) = k - 1 /\ \A j \in 1 .. k - 1 : p[j] = l[j]
      /\ q \in Seq(Entry) /\ Len(q) = N - k /\ \A j \in 1 .. N - k : q[j] = l[k + j]
  <2>. DEFINE u == k - 1
              v == k + 1
  <2>1. u \in Int /\ v \in Int /\ N \in Int /\ \A j \in 1 .. u : l[j] \in Entry
    BY <1>1
  <2>2. \A j \in v .. N : l[j] \in Entry
    BY <1>1
  <2>3. /\ SubSeq(l, 1, u) \in Seq(Entry) /\ Len(SubSeq(l, 1, u)) = IF 1 <= u THEN u - 1 + 1 ELSE 0
        /\ \A j \in 1 .. u - 1 + 1 : SubSeq(l, 1, u)[j] = l[1 + j - 1]
    <3>. HIDE DEF u
    <3>. QED
      BY <2>1, SubSeqProperties
  <2>4. /\ SubSeq(l, v, N) \in Seq(Entry) /\ Len(SubSeq(l, v, N)) = IF v <= N THEN N - v + 1 ELSE 0
        /\ \A j \in 1 .. N - v + 1 : SubSeq(l, v, N)[j] = l[v + j - 1]
    <3>. HIDE DEF v, N
    <3>. QED
      BY <2>1, <2>2, SubSeqProperties
  <2>5. p \in Seq(Entry) /\ Len(p) = k - 1 /\ \A j \in 1 .. k - 1 : p[j] = l[j]
    <3>1. Len(p) = IF 1 <= k - 1 THEN (k - 1) - 1 + 1 ELSE 0
      BY <2>3
    <3>2. p \in Seq(Entry) /\ \A j \in 1 .. (k - 1) - 1 + 1 : p[j] = l[1 + j - 1]
      BY <2>3
    <3>. HIDE DEF p
    <3>. QED
      BY <1>1, <3>1, <3>2
  <2>6. q \in Seq(Entry) /\ Len(q) = N - k /\ \A j \in 1 .. N - k : q[j] = l[k + j]
    <3>1. Len(q) = IF k + 1 <= N THEN N - (k + 1) + 1 ELSE 0
      BY <2>4
    <3>2. q \in Seq(Entry) /\ \A j \in 1 .. N - (k + 1) + 1 : q[j] = l[(k + 1) + j - 1]
      BY <2>4
    <3>3. N - (k + 1) + 1 = N - k /\ \A j \in 1 .. N - k : (k + 1) + j - 1 = k + j
      BY <1>1
    <3>. HIDE DEF q, N
    <3>. QED
      BY <1>1, <3>1, <3>2, <3>3
  <2>. QED
    BY <2>5, <2>6
<1>. HIDE DEF p, q
<1>3. /\ p \o q \in Seq(Entry) /\ Len(p \o q) = N - 1
      /\ \A j \in 1 .. N - 1 : (p \o q)[j] = IF j <= k - 1 THEN l[j] ELSE l[j + 1]
  <2>1. /\ p \o q \in Seq(Entry) /\ Len(p \o q) = Len(p) + Len(q)
        /\ \A j \in 1 .. Len(p) + Len(q) : (p \o q)[j] = IF j <= Len(p) THEN p[j] ELSE q[j - Len(p)]
    BY <1>2, ConcatProperties
  <2>2. Len(p) + Len(q) = N - 1
    BY <1>1, <1>2
  <2>3. ASSUME NEW j \in 1 .. N - 1 PROVE (p \o q)[j] = IF j <= k - 1 THEN l[j] ELSE l[j + 1]
    <3>1. (p \o q)[j] = IF j <= k - 1 THEN p[j] ELSE q[j - (k - 1)]
      BY <1>2, <2>1, <2>2
    <3>2. CASE j <= k - 1
      BY <1>1, <1>2, <3>1, <3>2
    <3>3. CASE ~(j <= k - 1)
      <4>1. j - (k - 1) \in 1 .. N - k /\ k + (j - (k - 1)) = j + 1
        BY <1>1, <3>3
      <4>2. q[j - (k - 1)] = l[j + 1]
        BY <1>2, <4>1
      <4>. QED
        BY <3>1, <3>3, <4>2
    <3>. QED
      BY <3>2, <3>3
  <2>. QED
    BY <2>1, <2>2, <2>3
<1>4. a = <<l[k]>> \o (p \o q)
  BY DEF MoveToLruHead, RemoveAt, p, q
<1>5. /\ a \in Seq(Entry) /\ Len(a) = N /\ DOMAIN a = 1 .. N
      /\ a[1] = l[k]
      /\ \A j \in 2 .. N : a[j] = IF j <= k THEN l[j - 1] ELSE l[j]
  <2>. DEFINE r == p \o q
  <2>1. /\ <<l[k]>> \o r \in Seq(Entry) /\ Len(<<l[k]>> \o r) = Len(r) + 1
        /\ (<<l[k]>> \o r)[1] = l[k]
        /\ \A j \in 2 .. Len(r) + 1 : (<<l[k]>> \o r)[j] = r[j - 1]
    <3>1. r \in Seq(Entry) /\ l[k] \in Entry
      BY <1>1, <1>3
    <3>. HIDE DEF r
    <3>. QED
      BY <3>1, Prepended
  <2>2. /\ a \in Seq(Entry) /\ Len(a) = (N - 1) + 1
        /\ a[1] = l[k]
        /\ \A j \in 2 .. (N - 1) + 1 : a[j] = (p \o q)[j - 1]
    BY <1>3, <1>4, <2>1
  <2>. HIDE DEF a
  <2>3. (N - 1) + 1 = N /\ DOMAIN a = 1 .. Len(a)
    BY <1>1, <2>2
  <2>4. ASSUME NEW j \in 2 .. N PROVE a[j] = IF j <= k THEN l[j - 1] ELSE l[j]
    <3>1. j - 1 \in 1 .. N - 1 /\ (j - 1) + 1 = j /\ (j - 1 <= k - 1 <=> j <= k)
      BY <1>1
    <3>2. (p \o q)[j - 1] = IF j - 1 <= k - 1 THEN l[j - 1] ELSE l[(j - 1) + 1]
      BY <1>3, <3>1
    <3>. QED
      BY <2>2, <2>3, <3>1, <3>2
  <2>. QED
    BY <2>2, <2>3, <2>4
<1>. HIDE DEF a, N
<1>6. PICK f : Sums(w, l, f) /\ Bytes(w, l) = f[N]
  BY BytesDefined DEF N
<1>7. /\ f \in [0 .. N -> Nat] /\ f[0] = 0 /\ \A j \in 1 .. N : f[j] = f[j - 1] + w[l[j].end]
      /\ \A j \in 1 .. N : w[l[j].end] \in Nat
  BY <1>6, Entries DEF Sums, N
<1>. DEFINE c == w[l[k].end]
            h == [j \in 0 .. N |-> IF j = 0 THEN 0 ELSE IF j <= k THEN f[j - 1] + c ELSE f[j]]
<1>8. \A j \in 0 .. N : h[j] = IF j = 0 THEN 0 ELSE IF j <= k THEN f[j - 1] + c ELSE f[j]
  OBVIOUS
<1>9. h \in [0 .. N -> Nat] /\ h[N] = f[N]
  <2>1. ASSUME NEW j \in 0 .. N PROVE h[j] \in Nat
    <3>1. CASE j = 0
      BY <1>8, <3>1
    <3>2. CASE j # 0
      <4>1. j - 1 \in 0 .. N /\ j \in 0 .. N
        BY <1>1, <3>2
      <4>2. f[j - 1] \in Nat /\ f[j] \in Nat /\ c \in Nat
        BY <1>1, <1>7, <4>1
      <4>. HIDE DEF c, h
      <4>. QED
        BY <1>8, <3>2, <4>2
    <3>. QED
      BY <3>1, <3>2
  <2>2. CASE k = N
    <3>1. f[N] = f[N - 1] + c
      BY <1>1, <1>7, <2>2
    <3>. QED
      BY <1>1, <1>8, <2>1, <2>2, <3>1
  <2>3. CASE k # N
    <3>1. N \in 0 .. N /\ N # 0 /\ ~(N <= k)
      BY <1>1, <2>3
    <3>2. h[N] = f[N]
      BY <1>8, <3>1
    <3>. QED
      BY <2>1, <3>2
  <2>. QED
    BY <2>2, <2>3
<1>10. ASSUME NEW j \in 1 .. N PROVE h[j] = h[j - 1] + w[a[j].end]
  <2>0. j - 1 \in 0 .. N /\ j \in 0 .. N /\ j # 0 /\ c \in Nat
    BY <1>1, <1>7
  <2>. HIDE DEF h, c
  <2>1. CASE j = 1
    <3>1. h[1] = f[0] + c /\ h[0] = 0
      BY <1>1, <1>8, <2>0, <2>1
    <3>. QED
      BY <1>5, <1>7, <2>0, <2>1, <3>1 DEF c
  <2>2. CASE j # 1 /\ j <= k
    <3>1. j - 1 \in 1 .. N /\ j - 1 <= k /\ j - 1 # 0 /\ j \in 2 .. N /\ (j - 1) - 1 \in 0 .. N
      BY <1>1, <2>0, <2>2
    <3>2. h[j] = f[j - 1] + c /\ h[j - 1] = f[(j - 1) - 1] + c /\ a[j] = l[j - 1]
      BY <1>5, <1>8, <2>0, <2>2, <3>1
    <3>3. f[j - 1] = f[(j - 1) - 1] + w[l[j - 1].end] /\ f[(j - 1) - 1] \in Nat /\ w[l[j - 1].end] \in Nat
      BY <1>7, <3>1
    <3>. DEFINE x == f[(j - 1) - 1]
                y == w[l[j - 1].end]
    <3>4. (x + y) + c = (x + c) + y
      <4>1. x \in Nat /\ y \in Nat
        BY <3>3
      <4>. HIDE DEF x, y
      <4>. QED
        BY <2>0, <4>1
    <3>. QED
      BY <3>2, <3>3, <3>4
  <2>3. CASE j = k + 1
    <3>1. j - 1 = k /\ j \in 2 .. N /\ ~(j <= k) /\ k # 0 /\ k \in 0 .. N /\ k - 1 \in 0 .. N
      BY <1>1, <2>3
    <3>2. h[j] = f[j] /\ h[k] = f[k - 1] + c /\ a[j] = l[j]
      BY <1>1, <1>5, <1>8, <2>0, <3>1
    <3>3. f[j] = f[k] + w[l[j].end] /\ f[k] = f[k - 1] + c
      BY <1>7, <3>1 DEF c
    <3>. QED
      BY <3>1, <3>2, <3>3
  <2>4. CASE j > k + 1
    <3>1. j \in 2 .. N /\ ~(j <= k) /\ ~(j - 1 <= k) /\ j - 1 # 0
      BY <1>1, <2>0, <2>4
    <3>2. h[j] = f[j] /\ h[j - 1] = f[j - 1] /\ a[j] = l[j]
      BY <1>5, <1>8, <2>0, <3>1
    <3>. QED
      BY <1>7, <3>2
  <2>. QED
    BY <1>1, <2>1, <2>2, <2>3, <2>4
<1>11. Bytes(w, a) = Bytes(w, l)
  <2>1. h[0] = 0
    BY <1>1
  <2>. HIDE DEF h
  <2>2. Sums(w, a, h)
    BY <1>5, <1>9, <1>10, <2>1 DEF Sums
  <2>. QED
    BY <1>5, <1>6, <1>9, <2>2, SumsUnique
<1>12. ASSUME NEW S, InStep(l, S) PROVE InStep(a, S)
  <2>. DEFINE pos == [j \in 1 .. N |-> IF j = 1 THEN k ELSE IF j <= k THEN j - 1 ELSE j]
  <2>1. /\ S = {l[j].id : j \in 1 .. N}
        /\ \A i, j \in 1 .. N : l[i].id = l[j].id => i = j
    BY <1>1, <1>12 DEF InStep, N
  <2>2. ASSUME NEW j \in 1 .. N PROVE pos[j] \in 1 .. N /\ a[j] = l[pos[j]]
    <3>1. j = 1 \/ j \in 2 .. N
      OBVIOUS
    <3>. QED
      BY <1>1, <1>5, <3>1
  <2>3. ASSUME NEW i \in 1 .. N, NEW j \in 1 .. N, pos[i] = pos[j] PROVE i = j
    BY <1>1, <2>3
  <2>4. ASSUME NEW i \in 1 .. N PROVE \E j \in 1 .. N : pos[j] = i
    <3>. DEFINE j == IF i = k THEN 1 ELSE IF i < k THEN i + 1 ELSE i
    <3>1. j \in 1 .. N /\ pos[j] = i
      BY <1>1
    <3>. QED
      BY <3>1
  <2>. HIDE DEF pos
  <2>5. {a[j].id : j \in 1 .. N} = S
    <3>1. ASSUME NEW j \in 1 .. N PROVE a[j].id \in S
      BY <2>1, <2>2
    <3>2. ASSUME NEW x \in S PROVE \E j \in 1 .. N : x = a[j].id
      <4>1. PICK i \in 1 .. N : x = l[i].id
        BY <2>1
      <4>2. PICK j \in 1 .. N : pos[j] = i
        BY <2>4
      <4>. QED
        BY <2>2, <4>1, <4>2
    <3>. QED
      BY <3>1, <3>2
  <2>6. \A i, j \in 1 .. N : a[i].id = a[j].id => i = j
    BY <2>1, <2>2, <2>3
  <2>. QED
    BY <1>5, <2>5, <2>6 DEF InStep
<1>. QED
  BY <1>5, <1>11, <1>12 DEF a, N

----------------------------------------------------------------------------
\* What tiles count for when they leave, and when they come out of files.
Plain == [end \in Sizes |-> end]

\* Where this many bytes are held, this many more fit.
Room(bytes, required) ==
  bytes % Word <= max_cache_size /\ max_cache_size - (bytes % Word) >= required

\* TrimToFit: what is left are the first tiles of the list, as many as fit, and the count is
\* what it was less the size of those that left.
LEMMA Trimmed ==
  ASSUME NEW l \in Seq(Entry), NEW size \in 0 .. Word - 1, NEW required \in Nat
  PROVE  \E kept \in 0 .. Len(l) :
           /\ TrimToFit(l, size, required).list = SubSeq(l, 1, kept)
           /\ TrimToFit(l, size, required).gone = {l[k].id : k \in kept + 1 .. Len(l)}
           /\ TrimToFit(l, size, required).size \in 0 .. Word - 1
           /\ \A f : Sums(Plain, l, f) /\ size = f[Len(l)] % Word =>
                /\ TrimToFit(l, size, required).size = f[kept] % Word
                /\ kept = 0 \/ Room(f[kept], required)
                /\ \A m \in kept + 1 .. Len(l) : ~Room(f[m], required)
<1>. DEFINE N == Len(l)
            Is(g) == g = [k \in 0 .. N |-> IF k = N THEN size ELSE Sub(g[k + 1], l[k + 1].end)]
            SizeAt == CHOOSE g : Is(g)
            Fits(k) == SizeAt[k] <= max_cache_size /\ max_cache_size - SizeAt[k] >= required
            Good(k) == /\ k = 0 \/ Fits(k)
                       /\ \A m \in k + 1 .. N : ~Fits(m)
            kept == CHOOSE k \in 0 .. N : Good(k)
<1>1. /\ N \in Nat /\ \A k \in 1 .. N : l[k].end \in Nat /\ Plain[l[k].end] = l[k].end
      /\ Plain \in [Sizes -> Nat] /\ Word \in Nat \ {0} /\ max_cache_size \in Nat
  BY Entries, CacheAssumption DEF Plain
<1>2. TrimToFit(l, size, required) =
        [list |-> SubSeq(l, 1, kept), gone |-> {l[k].id : k \in kept + 1 .. N}, size |-> SizeAt[kept]]
  BY DEF TrimToFit
<1>. HIDE DEF N, Is, SizeAt, Good, kept
<1>3. PICK s : Sums(Plain, l, s)
  BY <1>1, BytesDefined
<1>4. s \in [0 .. N -> Nat] /\ s[0] = 0 /\ \A k \in 1 .. N : s[k] = s[k - 1] + l[k].end
  BY <1>1, <1>3 DEF Sums, N
<1>. DEFINE at == [k \in 0 .. N |-> (size - (s[N] - s[k])) % Word]
<1>5. ASSUME NEW k \in 0 .. N
      PROVE  at[k] = (size - (s[N] - s[k])) % Word /\ at[k] \in 0 .. Word - 1
  <2>1. size \in Int /\ s[N] \in Nat /\ s[k] \in Nat
    BY <1>1, <1>4
  <2>2. size - (s[N] - s[k]) \in Int
    BY <2>1
  <2>. QED
    BY <2>2, Wrapped
<1>6. at[N] = size
  <2>1. size \in Int /\ s[N] \in Nat /\ N \in 0 .. N
    BY <1>1, <1>4
  <2>2. size - (s[N] - s[N]) = size
    BY <2>1
  <2>. QED
    BY <1>1, <2>1, <2>2, Wrapped
<1>7. ASSUME NEW k \in 0 .. N, k # N
      PROVE  at[k] = Sub(at[k + 1], l[k + 1].end)
  <2>. DEFINE a == size - (s[N] - s[k + 1])
              b == 0 - l[k + 1].end
  <2>1. k + 1 \in 1 .. N /\ (k + 1) - 1 = k /\ k + 1 \in 0 .. N
    BY <1>1, <1>7
  <2>2. /\ s[k + 1] = s[k] + l[k + 1].end /\ l[k + 1].end \in Nat
        /\ s[k + 1] \in Nat /\ s[k] \in Nat /\ s[N] \in Nat /\ size \in Int
    <3>1. N \in 0 .. N /\ size \in Int
      BY <1>1
    <3>. HIDE DEF at
    <3>. QED
      BY <1>1, <1>4, <2>1, <3>1
  <2>3. a \in Int /\ b \in Int /\ a + b = size - (s[N] - s[k])
    <3>. DEFINE u == s[k + 1]
                v == s[k]
                n == s[N]
                d == l[k + 1].end
    <3>1. u = v + d /\ d \in Nat /\ v \in Nat /\ n \in Nat /\ size \in Int
      BY <2>2
    <3>2. a = size - (n - u) /\ b = 0 - d
      OBVIOUS
    <3>3. a \in Int /\ b \in Int /\ a + b = size - (n - v)
      <4>. HIDE DEF u, v, n, d, a, b
      <4>. QED
        BY <3>1, <3>2
    <3>. QED
      BY <3>3
  <2>4. ((a % Word) + b) % Word = (a + b) % Word
    <3>. HIDE DEF a, b
    <3>. QED
      BY <2>3, Wrapped
  <2>5. at[k + 1] = a % Word /\ at[k + 1] \in Int /\ at[k] = (a + b) % Word
    BY <1>1, <1>5, <2>1, <2>3
  <2>6. at[k + 1] + b = at[k + 1] - l[k + 1].end
    <3>. HIDE DEF at
    <3>. QED
      BY <2>2, <2>5
  <2>. HIDE DEF at, a
  <2>. QED
    BY <2>4, <2>5, <2>6 DEF Sub
<1>8. Is(at)
  <2>. DEFINE other == [k \in 0 .. N |-> IF k = N THEN size ELSE Sub(at[k + 1], l[k + 1].end)]
  <2>1. \A k \in 0 .. N : at[k] = other[k]
    <3>1. \A k \in 0 .. N : other[k] = IF k = N THEN size ELSE Sub(at[k + 1], l[k + 1].end)
      OBVIOUS
    <3>. HIDE DEF at, other
    <3>. QED
      BY <1>6, <1>7, <3>1
  <2>2. at = [k \in 0 .. N |-> at[k]] /\ other = [k \in 0 .. N |-> other[k]]
    OBVIOUS
  <2>3. at = other
    <3>. HIDE DEF at, other
    <3>. QED
      BY <2>1, <2>2
  <2>. QED
    BY <2>3 DEF Is
<1>9. Is(SizeAt)
  <2>. HIDE DEF at
  <2>. QED
    BY <1>8 DEF SizeAt
<1>. HIDE DEF at
<1>10. \A k \in 0 .. N : SizeAt[k] = IF k = N THEN size ELSE Sub(SizeAt[k + 1], l[k + 1].end)
  BY <1>9 DEF Is
<1>11. \A k \in 0 .. N : SizeAt[k] = at[k]
  <2>. DEFINE S == {i \in Nat : i <= N => SizeAt[N - i] = at[N - i]}
  <2>1. 0 \in S
    <3>1. SizeAt[N] = size /\ N - 0 = N
      BY <1>1, <1>10
    <3>. QED
      BY <1>6, <3>1
  <2>2. ASSUME NEW i \in Nat, i \in S PROVE i + 1 \in S
    <3>. SUFFICES ASSUME i + 1 <= N PROVE SizeAt[N - (i + 1)] = at[N - (i + 1)]
      OBVIOUS
    <3>. DEFINE k == N - (i + 1)
    <3>1. k \in 0 .. N /\ k # N /\ k + 1 = N - i
      BY <1>1
    <3>2. SizeAt[k + 1] = at[k + 1]
      BY <1>1, <2>2, <3>1
    <3>. HIDE DEF k
    <3>3. SizeAt[k] = at[k]
      BY <1>7, <1>10, <3>1, <3>2
    <3>. QED
      BY <3>3 DEF k
  <2>3. Nat \subseteq S
    <3>. HIDE DEF S
    <3>. QED
      BY <2>1, <2>2, SetInduction
  <2>. SUFFICES ASSUME NEW k \in 0 .. N PROVE SizeAt[k] = at[k]
    OBVIOUS
  <2>4. N - k \in Nat /\ N - k <= N /\ N - (N - k) = k
    BY <1>1
  <2>. QED
    BY <2>3, <2>4
<1>12. \E k \in 0 .. N : Good(k)
  <2>. DEFINE S == {k \in 0 .. N : k = 0 \/ Fits(k)}
  <2>. HIDE DEF Fits
  <2>1. S \in SUBSET (0 .. N) /\ 0 \in S
    BY <1>1
  <2>2. \E k \in S : \A m \in k + 1 .. N : m \notin S
    <3>. HIDE DEF S
    <3>. QED
      BY <1>1, <2>1, GreatestOf
  <2>3. PICK k \in S : \A m \in k + 1 .. N : m \notin S
    BY <2>2
  <2>4. \A m \in k + 1 .. N : m \in 0 .. N
    BY <1>1
  <2>. QED
    BY <2>3, <2>4 DEF Good
<1>13. kept \in 0 .. N /\ Good(kept)
  BY <1>12 DEF kept
<1>14. /\ TrimToFit(l, size, required).list = SubSeq(l, 1, kept)
       /\ TrimToFit(l, size, required).gone = {l[k].id : k \in kept + 1 .. N}
       /\ TrimToFit(l, size, required).size = at[kept]
       /\ at[kept] \in 0 .. Word - 1
  BY <1>2, <1>5, <1>11, <1>13
<1>15. ASSUME NEW f, Sums(Plain, l, f), size = f[N] % Word, NEW k \in 0 .. N
       PROVE  at[k] = f[k] % Word
  <2>1. \A j \in 0 .. N : f[j] = s[j]
    BY <1>1, <1>3, <1>15, FirstTiles DEF N
  <2>. DEFINE a == s[N]
              b == 0 - (s[N] - s[k])
  <2>2. a \in Int /\ b \in Int /\ a + b = s[k] /\ s[N] \in Nat /\ s[k] \in Nat /\ f[N] = s[N] /\ f[k] = s[k]
    BY <1>1, <1>4, <2>1
  <2>3. ((a % Word) + b) % Word = (a + b) % Word
    <3>. HIDE DEF a, b
    <3>. QED
      BY <2>2, Wrapped
  <2>4. size + b = size - (s[N] - s[k])
    BY <1>1, <2>2
  <2>5. at[k] = (size - (s[N] - s[k])) % Word
    BY <1>5
  <2>. QED
    BY <1>15, <2>2, <2>3, <2>4, <2>5
<1>16. ASSUME NEW f, Sums(Plain, l, f), size = f[N] % Word
       PROVE  /\ at[kept] = f[kept] % Word
              /\ kept = 0 \/ Room(f[kept], required)
              /\ \A m \in kept + 1 .. N : ~Room(f[m], required)
  <2>1. \A k \in 0 .. N : SizeAt[k] = f[k] % Word /\ at[k] = f[k] % Word
    BY <1>11, <1>15, <1>16
  <2>2. \A m \in kept + 1 .. N : m \in 0 .. N
    BY <1>1, <1>13
  <2>. QED
    BY <1>13, <2>1, <2>2 DEF Room, Good
<1>. QED
  BY <1>13, <1>14, <1>16 DEF N

\* No tiles, no bytes.
LEMMA NoBytes ==
  ASSUME NEW w \in [Sizes -> Nat]
  PROVE  Bytes(w, <<>>) = 0
<1>. DEFINE l == <<>>
            f == [k \in 0 .. 0 |-> 0]
<1>1. l \in Seq(Entry) /\ Len(l) = 0
  OBVIOUS
<1>2. f \in [0 .. 0 -> Nat] /\ f[0] = 0
  OBVIOUS
<1>. HIDE DEF l, f
<1>3. Sums(w, l, f)
  BY <1>1, <1>2 DEF Sums
<1>4. Bytes(w, l) = 0
  BY <1>1, <1>2, <1>3, SumsUnique
<1>. QED
  BY <1>4 DEF l

\* Fewer tiles are not more bytes.
LEMMA SumsGrow ==
  ASSUME NEW w \in [Sizes -> Nat], NEW l \in Seq(Entry), NEW f, Sums(w, l, f), NEW k \in 0 .. Len(l)
  PROVE  f[k] <= f[Len(l)] /\ f[k] \in Nat /\ f[Len(l)] \in Nat
<1>. DEFINE N == Len(l)
            S == {i \in Nat : i <= N => f[N - i] <= f[N]}
<1>1. N \in Nat /\ \A j \in 1 .. N : w[l[j].end] \in Nat
  BY Entries
<1>. HIDE DEF N
<1>2. /\ f \in [0 .. N -> Nat]
      /\ \A j \in 1 .. N : f[j] = f[j - 1] + w[l[j].end]
  BY DEF Sums, N
<1>3. 0 \in S
  <2>1. N - 0 = N /\ f[N] \in Nat
    BY <1>1, <1>2
  <2>. QED
    BY <2>1
<1>4. ASSUME NEW i \in Nat, i \in S PROVE i + 1 \in S
  <2>. SUFFICES ASSUME i + 1 <= N PROVE f[N - (i + 1)] <= f[N]
    OBVIOUS
  <2>. DEFINE j == N - i
  <2>1. j \in 1 .. N /\ j - 1 = N - (i + 1) /\ j - 1 \in 0 .. N /\ f[j] <= f[N]
    BY <1>1, <1>4
  <2>2. /\ f[j] = f[j - 1] + w[l[j].end]
        /\ f[j] \in Nat /\ f[j - 1] \in Nat /\ w[l[j].end] \in Nat /\ f[N] \in Nat
    BY <1>1, <1>2, <2>1
  <2>. HIDE DEF j
  <2>3. f[j - 1] <= f[N]
    BY <2>1, <2>2
  <2>. QED
    BY <2>1, <2>3
<1>5. Nat \subseteq S
  <2>. HIDE DEF S
  <2>. QED
    BY <1>3, <1>4, SetInduction
<1>6. k \in 0 .. N /\ N - k \in Nat /\ N - k <= N /\ N - (N - k) = k
  BY <1>1 DEF N
<1>7. f[N - (N - k)] <= f[N]
  BY <1>5, <1>6
<1>8. f[k] <= f[N] /\ f[k] \in Nat /\ f[N] \in Nat
  <2>1. N \in 0 .. N
    BY <1>1
  <2>. HIDE DEF S
  <2>. QED
    BY <1>2, <1>6, <1>7, <2>1
<1>. QED
  BY <1>8 DEF N

\* TrimToFit in terms of bytes and keys.
LEMMA TrimKeepsCount ==
  ASSUME NEW l \in Seq(Entry), NEW size \in 0 .. Word - 1, NEW required \in Nat, NEW r,
         r = TrimToFit(l, size, required)
  PROVE  /\ r.list \in Seq(Entry) /\ r.size \in 0 .. Word - 1
         /\ r.list # <<>> => r.list[1] = l[1]
         /\ \A S : InStep(l, S) => InStep(r.list, S \ r.gone)
         /\ size = Bytes(Plain, l) % Word =>
              /\ r.size = Bytes(Plain, r.list) % Word
              /\ Bytes(Plain, r.list) <= Bytes(Plain, l)
              /\ r.list = <<>> \/ Room(Bytes(Plain, r.list), required)
              /\ l # <<>> /\ Room(l[1].end, required) => r.list # <<>>
<1>. DEFINE N == Len(l)
<1>0. \E kept \in 0 .. Len(l) :
           /\ TrimToFit(l, size, required).list = SubSeq(l, 1, kept)
           /\ TrimToFit(l, size, required).gone = {l[k].id : k \in kept + 1 .. Len(l)}
           /\ TrimToFit(l, size, required).size \in 0 .. Word - 1
           /\ \A f : Sums(Plain, l, f) /\ size = f[Len(l)] % Word =>
                /\ TrimToFit(l, size, required).size = f[kept] % Word
                /\ kept = 0 \/ Room(f[kept], required)
                /\ \A m \in kept + 1 .. Len(l) : ~Room(f[m], required)
  BY Trimmed, Zenon
<1>1. PICK kept \in 0 .. N :
           /\ r.list = SubSeq(l, 1, kept)
           /\ r.gone = {l[k].id : k \in kept + 1 .. N}
           /\ r.size \in 0 .. Word - 1
           /\ \A f : Sums(Plain, l, f) /\ size = f[N] % Word =>
                /\ r.size = f[kept] % Word
                /\ kept = 0 \/ Room(f[kept], required)
                /\ \A m \in kept + 1 .. N : ~Room(f[m], required)
  BY <1>0, Zenon
<1>2. Plain \in [Sizes -> Nat] /\ N \in Nat
  BY Entries, CacheAssumption DEF Plain
<1>3. /\ r.list \in Seq(Entry) /\ Len(r.list) = kept
      /\ \A j \in 1 .. kept : r.list[j] = l[j]
      /\ \A f : Sums(Plain, l, f) => Bytes(Plain, r.list) = f[kept]
      /\ \A S : InStep(l, S) => InStep(r.list, S \ r.gone)
  <2>1. /\ SubSeq(l, 1, kept) \in Seq(Entry) /\ Len(SubSeq(l, 1, kept)) = kept
        /\ \A j \in 1 .. kept : SubSeq(l, 1, kept)[j] = l[j]
        /\ \A f : Sums(Plain, l, f) => Bytes(Plain, SubSeq(l, 1, kept)) = f[kept]
        /\ \A S : InStep(l, S) => InStep(SubSeq(l, 1, kept), S \ {l[j].id : j \in kept + 1 .. Len(l)})
    BY <1>1, <1>2, FirstTiles, Zenon
  <2>2. r.list = SubSeq(l, 1, kept) /\ r.gone = {l[j].id : j \in kept + 1 .. Len(l)}
    BY <1>1
  <2>. QED
    BY <2>1, <2>2, Zenon
<1>4. r.list = <<>> <=> kept = 0
  BY <1>1, <1>3
<1>5. r.list # <<>> => r.list[1] = l[1]
  BY <1>1, <1>2, <1>3, <1>4
<1>6. ASSUME size = Bytes(Plain, l) % Word
      PROVE  /\ r.size = Bytes(Plain, r.list) % Word
             /\ Bytes(Plain, r.list) <= Bytes(Plain, l)
             /\ r.list = <<>> \/ Room(Bytes(Plain, r.list), required)
             /\ l # <<>> /\ Room(l[1].end, required) => r.list # <<>>
  <2>1. PICK f : Sums(Plain, l, f) /\ Bytes(Plain, l) = f[N]
    BY <1>2, BytesDefined
  <2>2. /\ r.size = f[kept] % Word
        /\ kept = 0 \/ Room(f[kept], required)
        /\ \A m \in kept + 1 .. N : ~Room(f[m], required)
    BY <1>1, <1>6, <2>1
  <2>3. Bytes(Plain, r.list) = f[kept] /\ f[kept] <= f[N]
    BY <1>1, <1>2, <1>3, <2>1, SumsGrow
  <2>4. ASSUME l # <<>>, Room(l[1].end, required), kept = 0 PROVE FALSE
    <3>1. 1 \in 1 .. N /\ 1 \in kept + 1 .. N
      BY <1>2, <2>4
    <3>2. f[1] = f[1 - 1] + Plain[l[1].end] /\ f[0] = 0
      BY <2>1, <3>1 DEF Sums
    <3>3. Plain[l[1].end] = l[1].end /\ l[1].end \in Nat
      BY <3>1, Entries DEF Plain
    <3>4. f[1] = l[1].end
      BY <3>2, <3>3
    <3>. QED
      BY <2>2, <2>4, <3>1, <3>4
  <2>. QED
    BY <1>4, <2>1, <2>2, <2>3, <2>4
<1>. QED
  BY <1>1, <1>3, <1>5, <1>6

----------------------------------------------------------------------------
\* What the books of an LRU cache over files with tiles l, keys S and count c are.
Books(hard, l, S, c) ==
  /\ c = Bytes(Plain, l) % Word
  /\ hard => Bytes(Plain, l) <= max_cache_size
  /\ InStep(l, S)

\* Bytes are natural numbers, and those of the first tile are some of them.
LEMMA BytesType ==
  ASSUME NEW w \in [Sizes -> Nat], NEW l \in Seq(Entry)
  PROVE  Bytes(w, l) \in Nat /\ (l # <<>> => w[l[1].end] <= Bytes(w, l))
<1>1. PICK f : Sums(w, l, f) /\ Bytes(w, l) = f[Len(l)]
  BY BytesDefined
<1>2. Len(l) \in Nat /\ f[Len(l)] \in Nat
  BY <1>1, Entries DEF Sums
<1>3. ASSUME l # <<>> PROVE w[l[1].end] <= f[Len(l)]
  <2>1. 1 \in 1 .. Len(l) /\ 1 \in 0 .. Len(l)
    BY <1>2, <1>3
  <2>2. f[1] = f[1 - 1] + w[l[1].end] /\ f[0] = 0 /\ w[l[1].end] \in Nat
    BY <1>1, <2>1, Entries DEF Sums
  <2>3. f[1] <= f[Len(l)]
    BY <1>1, <2>1, SumsGrow
  <2>. QED
    BY <2>2, <2>3
<1>. QED
  BY <1>1, <1>2, <1>3

\* The first tile of a list takes another size.
LEMMA HeadReplaced ==
  ASSUME NEW l \in Seq(Entry), l # <<>>, NEW e \in Entry, e.id = l[1].id
  PROVE  /\ [l EXCEPT ![1] = e] \in Seq(Entry)
         /\ Bytes(Plain, [l EXCEPT ![1] = e]) = Bytes(Plain, l) - l[1].end + e.end
         /\ \A S : InStep(l, S) => InStep([l EXCEPT ![1] = e], S)
<1>. DEFINE N == Len(l)
            t == Tail(l)
            a == [l EXCEPT ![1] = e]
<1>1. /\ t \in Seq(Entry) /\ Len(t) = N - 1 /\ \A k \in 1 .. N - 1 : t[k] = l[k + 1]
      /\ N \in Nat \ {0} /\ l[1] \in Entry /\ DOMAIN l = 1 .. N
  OBVIOUS
<1>2. /\ a \in Seq(Entry) /\ Len(a) = N /\ a[1] = e /\ \A k \in 2 .. N : a[k] = l[k]
      /\ DOMAIN a = 1 .. N
  BY <1>1
<1>3. Plain \in [Sizes -> Nat] /\ Plain[e.end] = e.end /\ Plain[l[1].end] = l[1].end
      /\ e.end \in Nat /\ l[1].end \in Nat
  BY <1>1, CacheAssumption DEF Plain, Entry
<1>. HIDE DEF t, a, N
<1>4. ASSUME NEW x \in Entry
      PROVE  /\ <<x>> \o t \in Seq(Entry) /\ Len(<<x>> \o t) = N
             /\ (<<x>> \o t)[1] = x
             /\ \A k \in 2 .. N : (<<x>> \o t)[k] = l[k]
             /\ Bytes(Plain, <<x>> \o t) = Bytes(Plain, t) + Plain[x.end]
  <2>1. /\ <<x>> \o t \in Seq(Entry) /\ Len(<<x>> \o t) = Len(t) + 1
        /\ (<<x>> \o t)[1] = x
        /\ \A k \in 2 .. Len(t) + 1 : (<<x>> \o t)[k] = t[k - 1]
        /\ Bytes(Plain, <<x>> \o t) = Bytes(Plain, t) + Plain[x.end]
    BY <1>1, <1>3, Prepended
  <2>2. Len(t) + 1 = N /\ \A k \in 2 .. N : k - 1 \in 1 .. N - 1 /\ (k - 1) + 1 = k
    BY <1>1
  <2>. DEFINE y == <<x>> \o t
  <2>. HIDE DEF y
  <2>. QED
    BY <1>1, <2>1, <2>2
<1>5. l = <<l[1]>> \o t /\ a = <<e>> \o t
  <2>1. \A k \in 1 .. N : k = 1 \/ k \in 2 .. N
    BY <1>1
  <2>. DEFINE y == <<l[1]>> \o t
              z == <<e>> \o t
  <2>2. y \in Seq(Entry) /\ Len(y) = N /\ y[1] = l[1] /\ \A k \in 2 .. N : y[k] = l[k]
    BY <1>1, <1>4
  <2>3. z \in Seq(Entry) /\ Len(z) = N /\ z[1] = e /\ \A k \in 2 .. N : z[k] = l[k]
    BY <1>4
  <2>. HIDE DEF y, z
  <2>4. Len(l) = Len(y) /\ \A k \in 1 .. Len(l) : l[k] = y[k]
    BY <2>1, <2>2 DEF N
  <2>5. Len(a) = Len(z) /\ \A k \in 1 .. Len(a) : a[k] = z[k]
    BY <1>2, <2>1, <2>3
  <2>6. l = y
    BY <2>2, <2>4, SeqEqual
  <2>7. a = z
    BY <1>2, <2>3, <2>5, SeqEqual
  <2>. QED
    BY <2>6, <2>7 DEF y, z
<1>6. Bytes(Plain, a) = Bytes(Plain, l) - l[1].end + e.end
  <2>1. Bytes(Plain, l) = Bytes(Plain, t) + l[1].end
    BY <1>1, <1>3, <1>4, <1>5
  <2>2. Bytes(Plain, a) = Bytes(Plain, t) + e.end
    BY <1>1, <1>3, <1>4, <1>5
  <2>3. Bytes(Plain, t) \in Nat
    BY <1>1, <1>3, BytesType
  <2>. QED
    BY <1>3, <2>1, <2>2, <2>3
<1>7. ASSUME NEW S, InStep(l, S) PROVE InStep(a, S)
  <2>1. \A k \in 1 .. N : a[k].id = l[k].id
    <3>1. \A k \in 1 .. N : k = 1 \/ k \in 2 .. N
      BY <1>1
    <3>. QED
      BY <1>2, <3>1
  <2>. QED
    BY <1>1, <1>2, <1>7, <2>1 DEF InStep
<1>. QED
  BY <1>2, <1>6, <1>7 DEF a

\* TileCacheLRU::Put() of a new tile keeps the books.
LEMMA PutNewCounts ==
  ASSUME NEW hard \in BOOLEAN, NEW l \in Seq(Entry), NEW S, NEW c \in 0 .. Word - 1,
         Books(hard, l, S, c), NEW e \in Entry, e.id \notin S, e.end <= max_cache_size,
         NEW r, r = IF hard THEN TrimToFit(l, c, e.end) ELSE [list |-> l, gone |-> {}, size |-> c]
  PROVE  Books(hard, <<e>> \o r.list, (S \ r.gone) \cup {e.id}, Add(r.size, e.end))
<1>. DEFINE B == Bytes(Plain, r.list)
<1>1. /\ Plain \in [Sizes -> Nat] /\ e.end \in Nat /\ Plain[e.end] = e.end
      /\ max_cache_size \in Nat /\ max_cache_size < Word /\ Word \in Nat \ {0}
  BY CacheAssumption DEF Plain, Entry
<1>2. /\ r.list \in Seq(Entry) /\ r.size = B % Word /\ InStep(r.list, S \ r.gone)
      /\ hard => B <= max_cache_size /\ (r.list = <<>> \/ Room(B, e.end))
  <2>1. CASE ~hard
    <3>1. r.list = l /\ r.gone = {} /\ r.size = c /\ S \ {} = S
      BY <2>1
    <3>. QED
      BY <2>1, <3>1 DEF Books
  <2>2. CASE hard
    <3>1. r = TrimToFit(l, c, e.end) /\ c = Bytes(Plain, l) % Word
      BY <2>2 DEF Books
    <3>. DEFINE d == e.end
    <3>a. d \in Nat /\ r = TrimToFit(l, c, d)
      BY <1>1, <3>1
    <3>. HIDE DEF d
    <3>b. /\ r.list \in Seq(Entry) /\ r.size \in 0 .. Word - 1
          /\ r.list # <<>> => r.list[1] = l[1]
          /\ \A T : InStep(l, T) => InStep(r.list, T \ r.gone)
          /\ c = Bytes(Plain, l) % Word =>
               /\ r.size = Bytes(Plain, r.list) % Word
               /\ Bytes(Plain, r.list) <= Bytes(Plain, l)
               /\ r.list = <<>> \/ Room(Bytes(Plain, r.list), d)
               /\ l # <<>> /\ Room(l[1].end, d) => r.list # <<>>
      BY <3>a, TrimKeepsCount, Zenon
    <3>2. /\ r.list \in Seq(Entry)
          /\ \A T : InStep(l, T) => InStep(r.list, T \ r.gone)
          /\ c = Bytes(Plain, l) % Word =>
               /\ r.size = Bytes(Plain, r.list) % Word
               /\ Bytes(Plain, r.list) <= Bytes(Plain, l)
               /\ r.list = <<>> \/ Room(Bytes(Plain, r.list), e.end)
      BY <3>b DEF d
    <3>3. Bytes(Plain, l) <= max_cache_size /\ InStep(l, S)
      BY <2>2 DEF Books
    <3>4. B \in Nat /\ Bytes(Plain, l) \in Nat
      BY <1>1, <3>2, BytesType
    <3>5. r.size = B % Word /\ B <= Bytes(Plain, l) /\ (r.list = <<>> \/ Room(B, e.end))
      BY <3>1, <3>2
    <3>. HIDE DEF B
    <3>. QED
      BY <1>1, <3>2, <3>3, <3>4, <3>5
  <2>. QED
    BY <2>1, <2>2
<1>3. B \in Nat /\ (r.list = <<>> => B = 0)
  BY <1>1, <1>2, BytesType, NoBytes
<1>4. /\ Bytes(Plain, <<e>> \o r.list) = B + e.end
      /\ InStep(<<e>> \o r.list, (S \ r.gone) \cup {e.id})
  <2>1. e.id \notin S \ r.gone
    OBVIOUS
  <2>. DEFINE q == r.list
  <2>2. q \in Seq(Entry)
    BY <1>2
  <2>. HIDE DEF q
  <2>3. /\ Bytes(Plain, <<e>> \o q) = Bytes(Plain, q) + Plain[e.end]
        /\ \A T : InStep(q, T) /\ e.id \notin T => InStep(<<e>> \o q, T \cup {e.id})
    BY <1>1, <2>2, Prepended
  <2>4. InStep(<<e>> \o q, (S \ r.gone) \cup {e.id})
    BY <1>2, <2>1, <2>3 DEF q
  <2>. QED
    BY <1>1, <2>3, <2>4 DEF q
<1>. HIDE DEF B
<1>5. Add(r.size, e.end) = (B + e.end) % Word
  <2>1. B \in Int /\ e.end \in Int
    BY <1>1, <1>3
  <2>2. ((B % Word) + e.end) % Word = (B + e.end) % Word
    BY <2>1, Wrapped
  <2>. QED
    BY <1>2, <2>2 DEF Add
<1>6. hard => B + e.end <= max_cache_size
  <2>. SUFFICES ASSUME hard PROVE B + e.end <= max_cache_size
    OBVIOUS
  <2>1. CASE r.list = <<>>
    BY <1>1, <1>3, <2>1
  <2>2. CASE r.list # <<>>
    <3>1. Room(B, e.end) /\ B <= max_cache_size
      BY <1>2, <2>2
    <3>2. B \in 0 .. Word - 1
      BY <1>1, <1>3, <3>1
    <3>3. B % Word = B
      BY <3>2, Wrapped
    <3>. QED
      BY <1>1, <1>3, <3>1, <3>3 DEF Room
  <2>. QED
    BY <2>1, <2>2
<1>. QED
  BY <1>4, <1>5, <1>6 DEF Books

\* TileCacheLRU::Put() of a tile that is there keeps the books, and does not evict it.
LEMMA PutAgainCounts ==
  ASSUME NEW hard \in BOOLEAN, NEW l \in Seq(Entry), NEW S, NEW c \in 0 .. Word - 1,
         Books(hard, l, S, c), NEW e \in Entry, e.end <= max_cache_size,
         NEW k \in 1 .. Len(l), l[k].id = e.id,
         NEW r, r = IF hard /\ e.end > l[k].end
                    THEN TrimToFit(MoveToLruHead(l, k), c, e.end - l[k].end)
                    ELSE [list |-> MoveToLruHead(l, k), gone |-> {}, size |-> c]
  PROVE  /\ r.list # <<>>
         /\ Books(hard, [r.list EXCEPT ![1] = e], S \ r.gone, Add(Sub(r.size, l[k].end), e.end))
<1>. DEFINE head == MoveToLruHead(l, k)
            old  == l[k].end
            B    == Bytes(Plain, r.list)
            A    == Bytes(Plain, l)
<1>1. /\ Plain \in [Sizes -> Nat] /\ e.end \in Nat
      /\ max_cache_size \in Nat /\ max_cache_size < Word /\ Word \in Nat \ {0}
      /\ old \in Nat /\ old \in Sizes /\ Plain[old] = old /\ Len(l) \in Nat
  BY CacheAssumption, Entries DEF Plain, Entry
<1>2. /\ head \in Seq(Entry) /\ Len(head) = Len(l) /\ head[1] = l[k] /\ head # <<>>
      /\ Bytes(Plain, head) = A
      /\ \A T : InStep(l, T) => InStep(head, T)
  <2>1. /\ head \in Seq(Entry) /\ Len(head) = Len(l) /\ head[1] = l[k]
        /\ Bytes(Plain, head) = A
        /\ \A T : InStep(l, T) => InStep(head, T)
    BY <1>1, Moved
  <2>. QED
    BY <1>1, <2>1
<1>3. /\ c = A % Word /\ InStep(head, S) /\ A \in Nat /\ old <= A
      /\ hard => A <= max_cache_size
  <2>1. Plain[head[1].end] <= Bytes(Plain, head) /\ Bytes(Plain, head) \in Nat
    BY <1>1, <1>2, BytesType
  <2>. QED
    BY <1>1, <1>2, <2>1 DEF Books
<1>. HIDE DEF head
<1>4. /\ r.list \in Seq(Entry) /\ r.list # <<>> /\ r.list[1] = l[k]
      /\ r.size = B % Word /\ InStep(r.list, S \ r.gone)
      /\ hard => B <= max_cache_size /\ (e.end > old => Room(B, e.end - old))
  <2>1. CASE ~(hard /\ e.end > old)
    <3>1. r.list = head /\ r.gone = {} /\ r.size = c /\ S \ {} = S
      BY <2>1 DEF head
    <3>. QED
      BY <1>2, <1>3, <2>1, <3>1
  <2>2. CASE hard /\ e.end > old
    <3>1. r = TrimToFit(head, c, e.end - old) /\ e.end - old \in Nat /\ c = Bytes(Plain, head) % Word
      BY <1>1, <1>2, <1>3, <2>2 DEF head
    <3>. DEFINE d == e.end - old
    <3>. HIDE DEF d
    <3>a. r = TrimToFit(head, c, d) /\ d \in Nat
      BY <3>1 DEF d
    <3>b. /\ r.list \in Seq(Entry) /\ r.size \in 0 .. Word - 1
          /\ r.list # <<>> => r.list[1] = head[1]
          /\ \A T : InStep(head, T) => InStep(r.list, T \ r.gone)
          /\ c = Bytes(Plain, head) % Word =>
               /\ r.size = Bytes(Plain, r.list) % Word
               /\ Bytes(Plain, r.list) <= Bytes(Plain, head)
               /\ r.list = <<>> \/ Room(Bytes(Plain, r.list), d)
               /\ head # <<>> /\ Room(head[1].end, d) => r.list # <<>>
      BY <1>2, <3>a, TrimKeepsCount, Zenon
    <3>2. /\ r.list \in Seq(Entry) /\ r.size = B % Word
          /\ r.list # <<>> => r.list[1] = head[1]
          /\ \A T : InStep(head, T) => InStep(r.list, T \ r.gone)
          /\ B <= Bytes(Plain, head)
          /\ r.list = <<>> \/ Room(B, e.end - old)
          /\ head # <<>> /\ Room(head[1].end, e.end - old) => r.list # <<>>
      BY <3>1, <3>b DEF d
    <3>3. Room(old, e.end - old)
      <4>1. old \in 0 .. Word - 1 /\ old <= max_cache_size
        BY <1>1, <1>3, <2>2
      <4>2. old % Word = old
        BY <4>1, Wrapped
      <4>3. max_cache_size - old >= e.end - old
        BY <1>1
      <4>. QED
        BY <4>1, <4>2, <4>3 DEF Room
    <3>4. B \in Nat
      BY <1>1, <3>2, BytesType
    <3>5. A <= max_cache_size
      BY <1>3, <2>2
    <3>6. r.list # <<>>
      BY <1>2, <3>2, <3>3
    <3>. HIDE DEF B, A, old
    <3>. QED
      BY <1>1, <1>2, <1>3, <3>2, <3>4, <3>5, <3>6
  <2>. QED
    BY <2>1, <2>2
<1>5. B \in Nat /\ old <= B
  <2>1. Bytes(Plain, r.list) \in Nat /\ Plain[r.list[1].end] <= Bytes(Plain, r.list)
    BY <1>1, <1>4, BytesType
  <2>. QED
    BY <1>1, <1>4, <2>1
<1>6. /\ Bytes(Plain, [r.list EXCEPT ![1] = e]) = B - old + e.end
      /\ InStep([r.list EXCEPT ![1] = e], S \ r.gone)
  BY <1>4, HeadReplaced
<1>. HIDE DEF B, A, old
<1>7. Add(Sub(r.size, old), e.end) = (B - old + e.end) % Word
  <2>1. (B % Word) \in Int /\ 0 - old \in Int /\ B - old \in Int
    BY <1>1, <1>5, Wrapped
  <2>2. ((B % Word) + (0 - old)) % Word = (B + (0 - old)) % Word
    BY <1>5, <2>1, Wrapped
  <2>3. (B % Word) + (0 - old) = (B % Word) - old /\ B + (0 - old) = B - old
    BY <1>1, <1>5, <2>1
  <2>4. Sub(r.size, old) = (B - old) % Word
    BY <1>4, <2>2, <2>3 DEF Sub
  <2>. DEFINE d == B - old
  <2>5. ((d % Word) + e.end) % Word = (d + e.end) % Word
    <3>1. d \in Int /\ e.end \in Int
      BY <1>1, <2>1
    <3>. HIDE DEF d
    <3>. QED
      BY <3>1, Wrapped
  <2>. QED
    BY <2>4, <2>5 DEF Add
<1>8. hard => B - old + e.end <= max_cache_size
  <2>. SUFFICES ASSUME hard PROVE B - old + e.end <= max_cache_size
    OBVIOUS
  <2>1. CASE e.end > old
    <3>1. Room(B, e.end - old) /\ B <= max_cache_size
      BY <1>4, <2>1
    <3>2. B \in 0 .. Word - 1
      BY <1>1, <1>5, <3>1
    <3>3. B % Word = B
      BY <3>2, Wrapped
    <3>. QED
      BY <1>1, <1>5, <3>1, <3>3 DEF Room
  <2>2. CASE ~(e.end > old)
    BY <1>1, <1>4, <1>5, <2>2
  <2>. QED
    BY <2>1, <2>2
<1>. QED
  BY <1>4, <1>6, <1>7, <1>8 DEF Books, old

\* Trim() of an LRU cache keeps the books and ends the overcommitment.
LEMMA TrimCounts ==
  ASSUME NEW hard \in BOOLEAN, NEW l \in Seq(Entry), NEW S, NEW c \in 0 .. Word - 1,
         Books(hard, l, S, c), NEW r, r = TrimToFit(l, c, 0)
  PROVE  Books(hard, r.list, S \ r.gone, r.size) /\ r.size <= max_cache_size
<1>1. Plain \in [Sizes -> Nat] /\ max_cache_size \in Nat /\ Word \in Nat \ {0}
  BY CacheAssumption DEF Plain
<1>2. /\ r.list \in Seq(Entry) /\ r.size = Bytes(Plain, r.list) % Word
      /\ InStep(r.list, S \ r.gone)
      /\ Bytes(Plain, r.list) <= Bytes(Plain, l)
      /\ r.list = <<>> \/ Room(Bytes(Plain, r.list), 0)
  <2>. DEFINE d == 0
  <2>1. d \in Nat /\ r = TrimToFit(l, c, d)
    OBVIOUS
  <2>. HIDE DEF d
  <2>2. /\ r.list \in Seq(Entry) /\ r.size \in 0 .. Word - 1
        /\ r.list # <<>> => r.list[1] = l[1]
        /\ \A T : InStep(l, T) => InStep(r.list, T \ r.gone)
        /\ c = Bytes(Plain, l) % Word =>
             /\ r.size = Bytes(Plain, r.list) % Word
             /\ Bytes(Plain, r.list) <= Bytes(Plain, l)
             /\ r.list = <<>> \/ Room(Bytes(Plain, r.list), d)
             /\ l # <<>> /\ Room(l[1].end, d) => r.list # <<>>
    BY <2>1, TrimKeepsCount, Zenon
  <2>. QED
    BY <2>2 DEF Books, d
<1>3. Bytes(Plain, r.list) \in Nat /\ Bytes(Plain, l) \in Nat
  BY <1>1, <1>2, BytesType
<1>4. r.size <= max_cache_size
  <2>1. CASE r.list = <<>>
    <3>1. r.size = 0 % Word
      BY <1>1, <1>2, <2>1, NoBytes
    <3>2. 0 \in 0 .. Word - 1
      BY <1>1
    <3>3. r.size = 0
      BY <3>1, <3>2, Wrapped
    <3>. QED
      BY <1>1, <3>3
  <2>2. CASE r.list # <<>>
    BY <1>2, <2>2 DEF Room
  <2>. QED
    BY <2>1, <2>2
<1>5. hard => Bytes(Plain, r.list) <= max_cache_size
  BY <1>1, <1>2, <1>3 DEF Books
<1>. QED
  BY <1>2, <1>4, <1>5 DEF Books

----------------------------------------------------------------------------
\* What a call may come to.
Answer == {Got(e) : e \in Entry} \cup {Null, Threw, Freed}

\* Types, and what they rest on: only a flat cache has indices, and a thread that is about
\* to put a tile into the cache has one.
TInv ==
  /\ TypeOK
  /\ kind # "flat" => slot = [t \in Tiles |-> 0]
  /\ \A th \in Threads : pc[th] = "put" => tile[th] \in Sizes

\* What a tile counts for is a natural number.
LEMMA ChargeType ==
  ASSUME NEW end \in Sizes
  PROVE  Charge(end) \in Nat /\ end \in Nat
  BY CacheAssumption DEF Charge

\* Adding and subtracting stays within a word.
LEMMA WordType ==
  ASSUME NEW a \in Int, NEW b \in Int
  PROVE  Add(a, b) \in 0 .. Word - 1 /\ Sub(a, b) \in 0 .. Word - 1
<1>1. a + b \in Int /\ a - b \in Int
  OBVIOUS
<1>. QED
  BY <1>1, Wrapped DEF Add, Sub

\* The position at which a cache finds a tile.
LEMMA FindType ==
  ASSUME TInv, NEW t \in Tiles, NEW k \in Find(t)
  PROVE  /\ k \in 1 .. Len(list) /\ list[k] \in Entry /\ Len(list) \in Nat
         /\ kind # "flat" => list[k].id = t
<1>1. /\ list \in Seq(Entry) /\ slot \in [Tiles -> 0 .. Len(list)] /\ DOMAIN list = 1 .. Len(list)
      /\ Len(list) \in Nat
  BY DEF TInv, TypeOK
<1>2. CASE kind = "flat"
  <2>1. k = slot[t] /\ k # 0
    BY <1>2 DEF Find
  <2>2. k \in 1 .. Len(list)
    BY <1>1, <2>1
  <2>. QED
    BY <1>1, <1>2, <2>2
<1>3. CASE kind # "flat"
  <2>1. k \in DOMAIN list /\ list[k].id = t
    BY <1>3 DEF Find
  <2>. QED
    BY <1>1, <2>1
<1>. QED
  BY <1>2, <1>3

\* TileCacheLRU::Put() of a new tile.
LEMMA PutNewType ==
  ASSUME TInv, NEW th \in Threads, NEW e \in Entry, PutNew(th, e)
  PROVE  list' \in Seq(Entry) /\ ids' \subseteq Tiles /\ cache_size' \in 0 .. Word - 1
<1>. DEFINE s == TrimToFit(list, cache_size, Charge(e.end))
            r == IF Hard THEN s ELSE [list |-> list, gone |-> {}, size |-> cache_size]
<1>1. list \in Seq(Entry) /\ ids \subseteq Tiles /\ cache_size \in 0 .. Word - 1
  BY DEF TInv, TypeOK
<1>2. Charge(e.end) \in Nat /\ e.id \in Tiles
  BY ChargeType DEF Entry
<1>3. s.list \in Seq(Entry) /\ s.size \in 0 .. Word - 1
  <2>. DEFINE c == Charge(e.end)
  <2>. HIDE DEF c
  <2>1. c \in Nat /\ s = TrimToFit(list, cache_size, c)
    BY <1>2 DEF c
  <2>. HIDE DEF s
  <2>. QED
    BY <1>1, <2>1, TrimKeepsCount
<1>. HIDE DEF s
<1>4. r.list \in Seq(Entry) /\ r.size \in Int
  <2>1. Word \in Nat
    BY CacheAssumption
  <2>. QED
    BY <1>1, <1>3, <2>1
<1>5. list' = <<e>> \o r.list /\ ids' = (ids \ r.gone) \cup {e.id} /\ cache_size' = Add(r.size, Charge(e.end))
  BY DEF PutNew, s
<1>. HIDE DEF r
<1>6. list' \in Seq(Entry)
  BY <1>4, <1>5
<1>7. cache_size' \in 0 .. Word - 1
  BY <1>2, <1>4, <1>5, WordType
<1>. QED
  BY <1>1, <1>2, <1>5, <1>6, <1>7

\* TileCacheLRU::Put() of a tile that is there.
LEMMA PutAgainType ==
  ASSUME TInv, NEW th \in Threads, NEW e \in Entry, NEW k \in 1 .. Len(list), PutAgain(th, e, k)
  PROVE  list' \in Seq(Entry) /\ ids' \subseteq Tiles /\ cache_size' \in 0 .. Word - 1
<1>. DEFINE old   == list[k].end
            head  == MoveToLruHead(list, k)
            grows == Hard /\ Charge(e.end) > old
            r == IF grows THEN TrimToFit(head, cache_size, Charge(e.end) - old)
                 ELSE [list |-> head, gone |-> {}, size |-> cache_size]
<1>1. list \in Seq(Entry) /\ ids \subseteq Tiles /\ cache_size \in 0 .. Word - 1 /\ Word \in Nat
  BY CacheAssumption DEF TInv, TypeOK
<1>2. Charge(e.end) \in Nat /\ old \in Nat
  BY <1>1, ChargeType, Entries DEF Entry
<1>3. head \in Seq(Entry) /\ Len(head) = Len(list)
  <2>1. Plain \in [Sizes -> Nat]
    BY CacheAssumption DEF Plain
  <2>. QED
    BY <1>1, <2>1, Moved
<1>. HIDE DEF head
<1>4. r.list \in Seq(Entry) /\ r.size \in 0 .. Word - 1
  <2>1. CASE grows
    <3>. DEFINE c == Charge(e.end) - old
    <3>1. c \in Nat
      BY <1>2, <2>1
    <3>. HIDE DEF c
    <3>2. r = TrimToFit(head, cache_size, c)
      BY <2>1 DEF c
    <3>. HIDE DEF r
    <3>. QED
      BY <1>1, <1>3, <3>1, <3>2, TrimKeepsCount
  <2>2. CASE ~grows
    BY <1>1, <1>3, <2>2
  <2>. QED
    BY <2>1, <2>2
<1>5. /\ ids' = ids \ r.gone
      /\ IF r.list = <<>>
         THEN list' = r.list /\ cache_size' = r.size
         ELSE list' = [r.list EXCEPT ![1] = e] /\ cache_size' = Add(Sub(r.size, old), Charge(e.end))
  BY DEF PutAgain, head
<1>. HIDE DEF r
<1>6. list' \in Seq(Entry)
  BY <1>4, <1>5
<1>7. cache_size' \in 0 .. Word - 1
  <2>1. Sub(r.size, old) \in 0 .. Word - 1
    <3>1. r.size \in Int /\ old \in Int
      BY <1>1, <1>2, <1>4
    <3>. HIDE DEF old
    <3>. QED
      BY <3>1, WordType
  <2>2. Add(Sub(r.size, old), Charge(e.end)) \in 0 .. Word - 1
    <3>1. Sub(r.size, old) \in Int
      BY <1>1, <2>1
    <3>. QED
      BY <1>2, <3>1, WordType
  <2>. QED
    BY <1>4, <1>5, <2>2
<1>. QED
  BY <1>1, <1>5, <1>6, <1>7

\* Clear() and Trim().
LEMMA TrimType ==
  ASSUME TInv, NEW th \in Threads, Trim(th)
  PROVE  /\ list' \in Seq(Entry) /\ ids' \subseteq Tiles /\ cache_size' \in 0 .. Word - 1
         /\ slot' \in [Tiles -> 0 .. Len(list')]
         /\ kind # "flat" => slot' = [t \in Tiles |-> 0]
<1>1. list \in Seq(Entry) /\ ids \subseteq Tiles /\ cache_size \in 0 .. Word - 1 /\ Word \in Nat \ {0}
  BY CacheAssumption DEF TInv, TypeOK
<1>2. CASE Lru
  <2>. DEFINE r == TrimToFit(list, cache_size, 0)
  <2>1. list' = r.list /\ ids' = ids \ r.gone /\ cache_size' = r.size /\ slot' = slot
    BY <1>2 DEF Trim
  <2>2. r.list \in Seq(Entry) /\ r.size \in 0 .. Word - 1
    <3>. DEFINE d == 0
    <3>1. d \in Nat /\ r = TrimToFit(list, cache_size, d)
      OBVIOUS
    <3>. HIDE DEF d, r
    <3>. QED
      BY <1>1, <3>1, TrimKeepsCount
  <2>3. slot = [t \in Tiles |-> 0]
    BY <1>2 DEF TInv, Lru
  <2>. HIDE DEF r
  <2>4. list' \in Seq(Entry) /\ Len(list') \in Nat
    BY <2>1, <2>2
  <2>5. slot' \in [Tiles -> 0 .. Len(list')]
    BY <2>1, <2>3, <2>4
  <2>. QED
    BY <1>1, <2>1, <2>2, <2>3, <2>5
<1>3. CASE ~Lru
  <2>1. list' = <<>> /\ ids' = {} /\ slot' = [t \in Tiles |-> 0] /\ cache_size' = 0
    BY <1>3 DEF Trim, Clear
  <2>. QED
    BY <1>1, <2>1
<1>. QED
  BY <1>2, <1>3

\* cache_->Put(): types of the cache and of the answer.
LEMMA PutType ==
  ASSUME TInv, NEW th \in Threads, Put(th)
  PROVE  /\ list' \in Seq(Entry) /\ ids' \subseteq Tiles /\ cache_size' \in 0 .. Word - 1
         /\ slot' \in [Tiles -> 0 .. Len(list')]
         /\ kind # "flat" => slot' = [t \in Tiles |-> 0]
         /\ \E a \in Answer : Return(th, a)
<1>. DEFINE e == [id |-> want[th], end |-> tile[th]]
<1>1. /\ list \in Seq(Entry) /\ ids \subseteq Tiles /\ cache_size \in 0 .. Word - 1
      /\ Word \in Nat \ {0} /\ slot \in [Tiles -> 0 .. Len(list)] /\ Len(list) \in Nat
      /\ DOMAIN list = 1 .. Len(list)
  BY CacheAssumption DEF TInv, TypeOK
<1>2. e \in Entry /\ e.id \in Tiles /\ e.end \in Sizes /\ e.end = tile[th]
  <2>1. tile[th] \in Sizes /\ want[th] \in Tiles
    BY DEF TInv, TypeOK, Put
  <2>. QED
    BY <2>1 DEF Entry
<1>3. \/ kind = "flat" /\ PutFlat(th, e)
      \/ kind = "simple" /\ PutSimple(th, e)
      \/ Lru /\ Return(th, Threw) /\ UNCHANGED cache
      \/ Lru /\ PutNew(th, e)
      \/ Lru /\ \E k \in Find(e.id) : PutAgain(th, e, k)
  BY DEF Put
<1>. HIDE DEF e
<1>4. Charge(e.end) \in Nat /\ cache_size \in Int
  BY <1>1, <1>2, ChargeType
<1>5. Got(e) \in Answer /\ Threw \in Answer /\ Freed \in Answer
  BY <1>2 DEF Answer
<1>6. CASE kind = "flat" /\ PutFlat(th, e)
  <2>1. /\ cache_size' = Add(cache_size, Charge(e.end)) /\ list' = Append(list, e) /\ ids' = ids
        /\ slot' = [slot EXCEPT ![e.id] = Len(list) + 1] /\ Return(th, Got(e))
    BY <1>6 DEF PutFlat
  <2>2. list' \in Seq(Entry) /\ Len(list') = Len(list) + 1
    BY <1>1, <1>2, <2>1
  <2>3. slot' \in [Tiles -> 0 .. Len(list')]
    BY <1>1, <1>2, <2>1, <2>2
  <2>4. cache_size' \in 0 .. Word - 1
    BY <1>4, <2>1, WordType
  <2>. QED
    BY <1>1, <1>5, <1>6, <2>1, <2>2, <2>3, <2>4
<1>7. CASE kind = "simple" /\ PutSimple(th, e)
  <2>1. /\ cache_size' = Add(cache_size, Charge(e.end)) /\ slot' = slot
        /\ list' = (IF e.id \in ids THEN list ELSE Append(list, e)) /\ ids' = ids \cup {e.id}
        /\ \E k \in DOMAIN list' : Return(th, Got(list'[k]))
    BY <1>7 DEF PutSimple
  <2>2. list' \in Seq(Entry) /\ Len(list') \in Nat
    BY <1>1, <1>2, <2>1
  <2>3. slot = [t \in Tiles |-> 0]
    BY <1>7 DEF TInv
  <2>4. slot' \in [Tiles -> 0 .. Len(list')]
    BY <2>1, <2>2, <2>3
  <2>5. cache_size' \in 0 .. Word - 1
    BY <1>4, <2>1, WordType
  <2>6. \E a \in Answer : Return(th, a)
    <3>1. PICK k \in DOMAIN list' : Return(th, Got(list'[k]))
      BY <2>1
    <3>2. list'[k] \in Entry
      BY <2>2
    <3>. QED
      BY <3>1, <3>2 DEF Answer
  <2>. QED
    BY <1>1, <1>2, <2>1, <2>2, <2>3, <2>4, <2>5, <2>6
<1>8. CASE Lru
  <2>1. slot = [t \in Tiles |-> 0] /\ kind # "simple" /\ kind # "flat"
    BY <1>8 DEF TInv, Lru
  <2>2. /\ list' \in Seq(Entry) /\ ids' \subseteq Tiles /\ cache_size' \in 0 .. Word - 1
        /\ slot' = slot /\ \E a \in Answer : Return(th, a)
    <3>1. CASE Return(th, Threw) /\ UNCHANGED cache
      BY <1>1, <1>5, <3>1 DEF cache
    <3>2. CASE PutNew(th, e)
      <4>1. slot' = slot /\ Return(th, Got(e))
        BY <3>2 DEF PutNew
      <4>. QED
        BY <1>2, <1>5, <3>2, <4>1, PutNewType
    <3>3. CASE \E k \in Find(e.id) : PutAgain(th, e, k)
      <4>1. PICK k \in Find(e.id) : PutAgain(th, e, k)
        BY <3>3
      <4>2. k \in 1 .. Len(list)
        BY <1>2, FindType
      <4>3. slot' = slot /\ (Return(th, Got(e)) \/ Return(th, Freed))
        BY <4>1 DEF PutAgain
      <4>. QED
        BY <1>2, <1>5, <4>1, <4>2, <4>3, PutAgainType
    <3>. QED
      BY <1>3, <2>1, <3>1, <3>2, <3>3
  <2>3. slot' \in [Tiles -> 0 .. Len(list')]
    <3>1. Len(list') \in Nat
      BY <2>2
    <3>. QED
      BY <2>1, <2>2, <3>1
  <2>. QED
    BY <2>1, <2>2, <2>3
<1>. QED
  BY <1>3, <1>6, <1>7, <1>8

\* The invariant holds before the first call.
LEMMA InitTInv == Init => TInv
<1>. SUFFICES ASSUME Init PROVE TInv
  OBVIOUS
<1>1. /\ Word \in Nat \ {0} /\ MaxReplace \in Nat /\ Tiles # {}
  BY CacheAssumption
<1>2. /\ list = <<>> /\ ids = {} /\ slot = [t \in Tiles |-> 0] /\ cache_size = 0 /\ replaced = 0
      /\ _404s = {} /\ config \in Configs /\ disk \in [Tiles -> Sizes \cup {0}]
      /\ pc = [th \in Threads |-> "idle"] /\ tile = [th \in Threads |-> 0]
      /\ answer = [th \in Threads |-> Null]
  BY DEF Init
<1>3. want \in [Threads -> Tiles]
  <2>1. (CHOOSE t \in Tiles : TRUE) \in Tiles
    BY <1>1
  <2>. QED
    BY <2>1 DEF Init
<1>4. list \in Seq(Entry) /\ slot \in [Tiles -> 0 .. Len(list)]
  BY <1>2
<1>5. answer \in [Threads -> {Got(e) : e \in Entry} \cup {Null, Threw, Freed}]
  BY <1>2
<1>6. TypeOK
  BY <1>1, <1>2, <1>3, <1>4, <1>5 DEF TypeOK
<1>. QED
  BY <1>2, <1>6 DEF TInv

\* An answer that is returned is an answer.
LEMMA ReturnType ==
  ASSUME TInv, NEW th \in Threads, NEW a \in Answer, Return(th, a)
  PROVE  /\ pc' \in [Threads -> {"idle", "get", "load", "look", "fetch", "note", "put", "trim"}]
         /\ answer' \in [Threads -> Answer]
         /\ \A o \in Threads : pc'[o] = "put" => pc[o] = "put"
<1>1. /\ pc \in [Threads -> {"idle", "get", "load", "look", "fetch", "note", "put", "trim"}]
      /\ answer \in [Threads -> Answer]
  BY DEF TInv, TypeOK, Answer
<1>. QED
  BY <1>1 DEF Return

\* Every step keeps the types.
LEMMA NextTInv == TInv /\ [Next]_vars => TInv'
<1>. SUFFICES ASSUME TInv, [Next]_vars PROVE TInv'
  OBVIOUS
<1>. DEFINE Stages == {"idle", "get", "load", "look", "fetch", "note", "put", "trim"}
            CacheOK == /\ list' \in Seq(Entry) /\ ids' \subseteq Tiles /\ cache_size' \in 0 .. Word - 1
                       /\ slot' \in [Tiles -> 0 .. Len(list')]
                       /\ kind # "flat" => slot' = [t \in Tiles |-> 0]
            RestOK == /\ config' = config
                      /\ disk' \in [Tiles -> Sizes \cup {0}]
                      /\ replaced' \in 0 .. MaxReplace
                      /\ _404s' \subseteq Tiles
                      /\ pc' \in [Threads -> Stages]
                      /\ want' \in [Threads -> Tiles]
                      /\ tile' \in [Threads -> Sizes \cup {0}]
                      /\ answer' \in [Threads -> Answer]
                      /\ \A th \in Threads : pc'[th] = "put" => tile'[th] \in Sizes
<1>1. /\ config \in Configs /\ disk \in [Tiles -> Sizes \cup {0}] /\ replaced \in 0 .. MaxReplace
      /\ list \in Seq(Entry) /\ ids \subseteq Tiles /\ slot \in [Tiles -> 0 .. Len(list)]
      /\ cache_size \in 0 .. Word - 1 /\ _404s \subseteq Tiles /\ pc \in [Threads -> Stages]
      /\ want \in [Threads -> Tiles] /\ tile \in [Threads -> Sizes \cup {0}]
      /\ answer \in [Threads -> Answer]
      /\ kind # "flat" => slot = [t \in Tiles |-> 0]
      /\ \A th \in Threads : pc[th] = "put" => tile[th] \in Sizes
  BY DEF TInv, TypeOK, Answer
<1>2. Null \in Answer /\ Threw \in Answer /\ MaxReplace \in Nat /\ Word \in Nat \ {0}
      /\ Sizes \subseteq Nat \ {0}
  BY CacheAssumption DEF Answer
<1>3. UNCHANGED cache => CacheOK
  BY <1>1 DEF cache
<1>4. ASSUME NEW th \in Threads, NEW t \in Tiles, Call(th, t) PROVE CacheOK /\ RestOK
  <2>1. RestOK
    BY <1>1, <1>2, <1>4 DEF Call
  <2>2. UNCHANGED cache
    BY <1>4 DEF Call
  <2>. QED
    BY <1>3, <2>1, <2>2
<1>5. ASSUME NEW th \in Threads, Get(th) PROVE CacheOK /\ RestOK
  <2>1. CASE Find(want[th]) = {} /\ pc' = [pc EXCEPT ![th] = "load"] /\ UNCHANGED <<list, answer>>
    <3>1. UNCHANGED cache
      BY <1>5, <2>1 DEF Get, cache
    <3>2. RestOK
      BY <1>1, <1>5, <2>1 DEF Get
    <3>. QED
      BY <1>3, <3>1, <3>2
  <2>2. CASE \E k \in Find(want[th]) :
               /\ list' = IF Lru THEN MoveToLruHead(list, k) ELSE list
               /\ Return(th, Got(list[k]))
    <3>1. PICK k \in Find(want[th]) : /\ list' = IF Lru THEN MoveToLruHead(list, k) ELSE list
                                     /\ Return(th, Got(list[k]))
      BY <2>2
    <3>2. want[th] \in Tiles
      BY <1>1
    <3>3. k \in 1 .. Len(list) /\ list[k] \in Entry
      BY <3>2, FindType
    <3>4. list' \in Seq(Entry) /\ Len(list') = Len(list)
      <4>1. Plain \in [Sizes -> Nat]
        BY CacheAssumption DEF Plain
      <4>2. MoveToLruHead(list, k) \in Seq(Entry) /\ Len(MoveToLruHead(list, k)) = Len(list)
        BY <1>1, <3>3, <4>1, Moved
      <4>. QED
        BY <1>1, <3>1, <4>2
    <3>5. Got(list[k]) \in Answer
      BY <3>3 DEF Answer
    <3>6. /\ pc' \in [Threads -> Stages] /\ answer' \in [Threads -> Answer]
          /\ \A o \in Threads : pc'[o] = "put" => pc[o] = "put"
      BY <3>1, <3>5, ReturnType
    <3>7. UNCHANGED <<config, disk, replaced, ids, slot, cache_size, _404s, want, tile>>
      BY <1>5 DEF Get
    <3>. QED
      BY <1>1, <3>4, <3>6, <3>7
  <2>. QED
    BY <1>5, <2>1, <2>2 DEF Get
<1>6. ASSUME NEW th \in Threads, Load(th) PROVE CacheOK /\ RestOK
  <2>. DEFINE end == disk[want[th]]
  <2>1. UNCHANGED <<config, disk, replaced, cache, _404s, want>> /\ end \in Sizes \cup {0}
    BY <1>1, <1>6 DEF Load
  <2>2. CASE end # 0 /\ tile' = [tile EXCEPT ![th] = end] /\ pc' = [pc EXCEPT ![th] = "put"] /\ UNCHANGED answer
    <3>1. end \in Sizes
      BY <2>1, <2>2
    <3>. QED
      BY <1>1, <1>3, <2>1, <2>2, <3>1
  <2>3. CASE Return(th, Null) /\ UNCHANGED tile
    <3>1. /\ pc' \in [Threads -> Stages] /\ answer' \in [Threads -> Answer]
          /\ \A o \in Threads : pc'[o] = "put" => pc[o] = "put"
      BY <1>2, <2>3, ReturnType
    <3>. QED
      BY <1>1, <1>3, <2>1, <2>3, <3>1
  <2>4. CASE pc' = [pc EXCEPT ![th] = "look"] /\ UNCHANGED <<tile, answer>>
    BY <1>1, <1>3, <2>1, <2>4
  <2>. QED
    BY <1>6, <2>2, <2>3, <2>4 DEF Load
<1>7. ASSUME NEW th \in Threads, Look(th) PROVE CacheOK /\ RestOK
  <2>1. UNCHANGED <<config, disk, replaced, cache, _404s, want, tile>>
    BY <1>7 DEF Look
  <2>2. CASE Return(th, Null)
    <3>1. /\ pc' \in [Threads -> Stages] /\ answer' \in [Threads -> Answer]
          /\ \A o \in Threads : pc'[o] = "put" => pc[o] = "put"
      BY <1>2, <2>2, ReturnType
    <3>. QED
      BY <1>1, <1>3, <2>1, <2>2, <3>1
  <2>3. CASE pc' = [pc EXCEPT ![th] = "fetch"] /\ UNCHANGED answer
    BY <1>1, <1>3, <2>1, <2>3
  <2>. QED
    BY <1>7, <2>2, <2>3 DEF Look
<1>8. ASSUME NEW th \in Threads, Fetch(th) PROVE CacheOK /\ RestOK
  <2>1. UNCHANGED <<config, replaced, cache, _404s, want, answer>> /\ pc' = [pc EXCEPT ![th] = "put"]
    BY <1>8 DEF Fetch
  <2>2. PICK end \in Sizes : /\ tile' = [tile EXCEPT ![th] = end]
                            /\ disk' \in {disk, [disk EXCEPT ![want[th]] = end]}
    BY <1>8 DEF Fetch
  <2>. QED
    BY <1>1, <1>3, <2>1, <2>2
<1>9. ASSUME NEW th \in Threads, FetchFails(th) \/ Cleanup(th) PROVE CacheOK /\ RestOK
  <2>1. UNCHANGED cache
    BY <1>9 DEF FetchFails, Cleanup
  <2>2. RestOK
    BY <1>1, <1>9 DEF FetchFails, Cleanup
  <2>. QED
    BY <1>3, <2>1, <2>2
<1>10. ASSUME NEW th \in Threads, Note(th) PROVE CacheOK /\ RestOK
  <2>1. UNCHANGED <<config, disk, replaced, cache, want, tile>> /\ _404s' = _404s \cup {want[th]}
    BY <1>10 DEF Note
  <2>2. /\ pc' \in [Threads -> Stages] /\ answer' \in [Threads -> Answer]
        /\ \A o \in Threads : pc'[o] = "put" => pc[o] = "put"
    BY <1>2, <1>10, ReturnType DEF Note
  <2>. QED
    BY <1>1, <1>3, <2>1, <2>2
<1>11. ASSUME NEW th \in Threads, Put(th) PROVE CacheOK /\ RestOK
  <2>1. CacheOK /\ \E a \in Answer : Return(th, a)
    BY <1>11, PutType
  <2>2. PICK a \in Answer : Return(th, a)
    BY <2>1
  <2>3. /\ pc' \in [Threads -> Stages] /\ answer' \in [Threads -> Answer]
        /\ \A o \in Threads : pc'[o] = "put" => pc[o] = "put"
    BY <2>2, ReturnType
  <2>4. UNCHANGED <<config, disk, replaced, _404s, want, tile>>
    BY <1>11 DEF Put
  <2>. QED
    BY <1>1, <2>1, <2>3, <2>4
<1>12. ASSUME NEW th \in Threads, Trim(th) PROVE CacheOK /\ RestOK
  <2>1. CacheOK
    BY <1>12, TrimType
  <2>2. RestOK
    BY <1>1, <1>12 DEF Trim
  <2>. QED
    BY <2>1, <2>2
<1>13. ASSUME NEW th \in Threads, ClearCache(th) PROVE CacheOK /\ RestOK
  <2>1. list' = <<>> /\ ids' = {} /\ slot' = [t \in Tiles |-> 0] /\ cache_size' = 0
    BY <1>13 DEF ClearCache, Clear
  <2>2. RestOK
    BY <1>1, <1>13 DEF ClearCache
  <2>. QED
    BY <1>2, <2>1, <2>2
<1>14. ASSUME NEW t \in Tiles, NEW end \in Sizes, Replace(t, end) PROVE CacheOK /\ RestOK
  <2>1. UNCHANGED cache
    BY <1>14 DEF Replace
  <2>2. RestOK
    BY <1>1, <1>2, <1>14 DEF Replace
  <2>. QED
    BY <1>3, <2>1, <2>2
<1>15. ASSUME UNCHANGED vars PROVE CacheOK /\ RestOK
  <2>1. UNCHANGED cache
    BY <1>15 DEF vars, cache
  <2>2. UNCHANGED <<config, disk, replaced, _404s, pc, want, tile, answer>>
    BY <1>15 DEF vars, cache
  <2>3. RestOK
    BY <1>1, <2>2
  <2>. QED
    BY <1>3, <2>1, <2>3
<1>16. CacheOK /\ RestOK
  <2>. HIDE DEF CacheOK, RestOK
  <2>. QED
    BY <1>4, <1>5, <1>6, <1>7, <1>8, <1>9, <1>10, <1>11, <1>12, <1>13, <1>14, <1>15 DEF Next, Step
<1>. QED
  BY <1>1, <1>16 DEF TInv, TypeOK, kind, Answer

\* The types of the caches, of the requests of threads and of their answers.
THEOREM TypeCorrect == Spec => []TypeOK
<1>1. TInv => TypeOK
  BY DEF TInv
<1>. QED
  BY <1>1, InitTInv, NextTInv, PTL DEF Spec

----------------------------------------------------------------------------
\* LRU caches hold tiles of files: over an extract they count a tile at one size when it
\* comes and at another when it goes.
LruOverFiles ==
  \A c \in Configs : c[1] \in {"lru_soft", "lru_hard"} => c[2] = "files"

Weight == [end \in Sizes |-> Charge(end)]

\* The count is that of the tiles held, as far as a size_t goes.
Counted == cache_size = HeldBytes % Word

\* An index of a flat cache is that of the tile.
FlatIndexed == kind = "flat" => \A t \in Tiles : slot[t] # 0 => list[slot[t]].id = t

\* A cache without a lock has one caller, which does not put a tile that is there.
Alone ==
  kind = "simple" =>
    \A th \in Threads : pc[th] # "idle" =>
      /\ \A o \in Threads : pc[o] # "idle" => o = th
      /\ pc[th] \in {"load", "look", "fetch", "put"} => want[th] \notin ids

\* A thread that has a tile has the one it asked for.
Answers == \A th \in Threads : answer[th][1] = "tile" => answer[th][2] = want[th]

\* The inductive invariant.
BInv ==
  /\ TInv
  /\ Counted
  /\ NeverOvercommitted
  /\ kind # "flat" => InStep(list, ids)
  /\ FlatIndexed
  /\ Alone
  /\ Answers
  /\ UpdatedStays

\* What tiles count for.
LEMMA WeightType ==
  ASSUME config \in Configs
  PROVE  /\ Weight \in [Sizes -> Nat]
         /\ LruOverFiles /\ Lru => Weight = Plain /\ \A end \in Sizes : Charge(end) = end
         /\ \A end \in Sizes : Weight[end] = Charge(end)
<1>1. Weight \in [Sizes -> Nat]
  BY ChargeType DEF Weight
<1>2. ASSUME LruOverFiles, Lru PROVE Weight = Plain /\ \A end \in Sizes : Charge(end) = end
  <2>1. source = "files"
    BY <1>2 DEF LruOverFiles, Lru, kind, source
  <2>. QED
    BY <2>1 DEF Weight, Plain, Charge
<1>. QED
  BY <1>1, <1>2 DEF Weight

\* The books of an LRU cache, in the terms of the lemmas about lists.
LEMMA BooksAre ==
  ASSUME config \in Configs, LruOverFiles, Lru
  PROVE  Counted /\ NeverOvercommitted /\ InStep(list, ids) <=> Books(Hard, list, ids, cache_size)
<1>1. HeldBytes = Bytes(Plain, list)
  BY WeightType DEF HeldBytes, Weight
<1>. QED
  BY <1>1 DEF Counted, NeverOvercommitted, Books

\* What an LRU cache or another does with its tiles keeps the count and the keys.
LEMMA PutBooks ==
  ASSUME LruOverFiles, BInv, NEW th \in Threads, Put(th)
  PROVE  /\ Counted' /\ NeverOvercommitted' /\ (kind # "flat" => InStep(list', ids'))
         /\ \/ Return(th, Threw)
            \/ \E x \in Entry : x.id = want[th] /\ Return(th, Got(x))
<1>. DEFINE e == [id |-> want[th], end |-> tile[th]]
<1>1. /\ TInv /\ config \in Configs /\ list \in Seq(Entry) /\ ids \subseteq Tiles
      /\ cache_size \in 0 .. Word - 1 /\ Len(list) \in Nat /\ DOMAIN list = 1 .. Len(list)
  BY DEF BInv, TInv, TypeOK
<1>2. e \in Entry /\ e.id = want[th] /\ e.id \in Tiles /\ e.end \in Sizes /\ e.end = tile[th]
  <2>1. tile[th] \in Sizes /\ want[th] \in Tiles
    BY DEF BInv, TInv, TypeOK, Put
  <2>. QED
    BY <2>1 DEF Entry
<1>3. \/ kind = "flat" /\ PutFlat(th, e)
      \/ kind = "simple" /\ PutSimple(th, e)
      \/ Lru /\ Return(th, Threw) /\ UNCHANGED cache
      \/ Lru /\ Charge(e.end) <= max_cache_size /\ Find(e.id) = {} /\ PutNew(th, e)
      \/ Lru /\ Charge(e.end) <= max_cache_size /\ \E k \in Find(e.id) : PutAgain(th, e, k)
  BY DEF Put
<1>. HIDE DEF e
<1>4. config' = config /\ pc[th] = "put"
  BY DEF Put
<1>5. Weight \in [Sizes -> Nat] /\ HeldBytes = Bytes(Weight, list) /\ HeldBytes' = Bytes(Weight, list')
  <2>1. Weight' = Weight
    BY <1>4 DEF Weight, Charge, source
  <2>2. HeldBytes = Bytes(Weight, list) /\ HeldBytes' = Bytes(Weight', list')
    BY DEF HeldBytes, Weight
  <2>. QED
    BY <1>1, <2>1, <2>2, WeightType
<1>6. ASSUME list' = Append(list, e), cache_size' = Add(cache_size, Charge(e.end)), ~Hard
      PROVE  Counted' /\ NeverOvercommitted'
  <2>1. HeldBytes' = Bytes(Weight, list) + Weight[e.end]
    BY <1>1, <1>2, <1>5, <1>6, Appended
  <2>2. Weight[e.end] = Charge(e.end) /\ Charge(e.end) \in Nat
    BY <1>1, <1>2, WeightType, ChargeType
  <2>3. Bytes(Weight, list) \in Nat
    BY <1>1, <1>5, BytesType
  <2>4. cache_size = Bytes(Weight, list) % Word
    BY <1>5 DEF BInv, Counted
  <2>. DEFINE A == Bytes(Weight, list)
              c == Charge(e.end)
  <2>5. ((A % Word) + c) % Word = (A + c) % Word
    <3>1. A \in Int /\ c \in Int
      BY <2>2, <2>3
    <3>. HIDE DEF A, c
    <3>. QED
      BY <3>1, Wrapped
  <2>6. cache_size' = HeldBytes' % Word
    BY <1>6, <2>1, <2>2, <2>4, <2>5 DEF Add
  <2>. QED
    BY <1>4, <1>6, <2>6 DEF Counted, NeverOvercommitted, Hard, kind
<1>7. CASE kind = "flat" /\ PutFlat(th, e)
  <2>1. ~Hard /\ list' = Append(list, e) /\ cache_size' = Add(cache_size, Charge(e.end)) /\ Return(th, Got(e))
    BY <1>7 DEF Hard, PutFlat
  <2>. QED
    BY <1>2, <1>6, <1>7, <2>1
<1>8. CASE kind = "simple" /\ PutSimple(th, e)
  <2>1. e.id \notin ids
    BY <1>2, <1>4, <1>8 DEF BInv, Alone
  <2>2. /\ ~Hard /\ list' = Append(list, e) /\ cache_size' = Add(cache_size, Charge(e.end))
        /\ ids' = ids \cup {e.id}
    BY <1>8, <2>1 DEF Hard, PutSimple
  <2>3. InStep(list, ids)
    BY <1>8 DEF BInv
  <2>4. InStep(list', ids') /\ list' \in Seq(Entry)
    BY <1>1, <1>2, <1>5, <2>1, <2>2, <2>3, Appended
  <2>5. PICK k \in DOMAIN list' : list'[k].id = e.id /\ Return(th, Got(list'[k]))
    BY <1>8 DEF PutSimple
  <2>6. list'[k] \in Entry
    BY <2>4
  <2>. QED
    BY <1>2, <1>6, <1>8, <2>2, <2>4, <2>5, <2>6
<1>9. CASE Lru
  <2>1. kind # "flat" /\ kind # "simple" /\ Hard \in BOOLEAN
    BY <1>9 DEF Lru, Hard
  <2>2. Books(Hard, list, ids, cache_size)
    BY <1>1, <1>9, <2>1, BooksAre DEF BInv
  <2>3. Charge(e.end) = e.end /\ \A end \in Sizes : Charge(end) = end
    BY <1>1, <1>2, <1>9, WeightType
  <2>4. Books(Hard, list', ids', cache_size') => Counted' /\ NeverOvercommitted' /\ InStep(list', ids')
    <3>1. Weight = Plain /\ Hard' = Hard
      BY <1>1, <1>4, <1>9, WeightType DEF Hard, kind
    <3>2. HeldBytes' = Bytes(Plain, list')
      BY <1>5, <3>1
    <3>. QED
      BY <3>1, <3>2 DEF Books, Counted, NeverOvercommitted
  <2>5. CASE Return(th, Threw) /\ UNCHANGED cache
    <3>1. list' = list /\ ids' = ids /\ cache_size' = cache_size
      BY <2>5 DEF cache
    <3>. QED
      BY <2>2, <2>4, <2>5, <3>1
  <2>6. CASE Charge(e.end) <= max_cache_size /\ Find(e.id) = {} /\ PutNew(th, e)
    <3>. DEFINE r == IF Hard THEN TrimToFit(list, cache_size, e.end)
                     ELSE [list |-> list, gone |-> {}, size |-> cache_size]
    <3>1. /\ list' = <<e>> \o r.list /\ ids' = (ids \ r.gone) \cup {e.id}
          /\ cache_size' = Add(r.size, e.end) /\ Return(th, Got(e))
      BY <2>3, <2>6 DEF PutNew
    <3>2. e.id \notin ids
      <4>1. InStep(list, ids)
        BY <2>2 DEF Books
      <4>. QED
        BY <2>1, <2>6, <4>1 DEF Find, InStep
    <3>3. e.end <= max_cache_size
      BY <2>3, <2>6
    <3>4. r = IF Hard THEN TrimToFit(list, cache_size, e.end)
              ELSE [list |-> list, gone |-> {}, size |-> cache_size]
      OBVIOUS
    <3>. HIDE DEF r
    <3>5. Books(Hard, <<e>> \o r.list, (ids \ r.gone) \cup {e.id}, Add(r.size, e.end))
      BY <1>1, <1>2, <2>1, <2>2, <3>2, <3>3, <3>4, PutNewCounts
    <3>. QED
      BY <1>2, <2>4, <3>1, <3>5
  <2>7. CASE Charge(e.end) <= max_cache_size /\ \E k \in Find(e.id) : PutAgain(th, e, k)
    <3>1. PICK k \in Find(e.id) : PutAgain(th, e, k)
      BY <2>7
    <3>2. k \in 1 .. Len(list) /\ list[k].id = e.id /\ list[k] \in Entry
      BY <1>1, <1>2, <2>1, FindType
    <3>. DEFINE old == list[k].end
                r == IF Hard /\ e.end > list[k].end
                     THEN TrimToFit(MoveToLruHead(list, k), cache_size, e.end - list[k].end)
                     ELSE [list |-> MoveToLruHead(list, k), gone |-> {}, size |-> cache_size]
    <3>3. /\ ids' = ids \ r.gone
          /\ IF r.list = <<>>
             THEN list' = r.list /\ cache_size' = r.size /\ Return(th, Freed)
             ELSE /\ list' = [r.list EXCEPT ![1] = e]
                  /\ cache_size' = Add(Sub(r.size, list[k].end), e.end)
                  /\ Return(th, Got(e))
      <4>. DEFINE head == MoveToLruHead(list, k)
                  q == IF Hard /\ Charge(e.end) > list[k].end
                       THEN TrimToFit(head, cache_size, Charge(e.end) - list[k].end)
                       ELSE [list |-> head, gone |-> {}, size |-> cache_size]
      <4>1. /\ ids' = ids \ q.gone
            /\ IF q.list = <<>>
               THEN list' = q.list /\ cache_size' = q.size /\ Return(th, Freed)
               ELSE /\ list' = [q.list EXCEPT ![1] = e]
                    /\ cache_size' = Add(Sub(q.size, list[k].end), Charge(e.end))
                    /\ Return(th, Got(e))
        BY <3>1, Zenon DEF PutAgain
      <4>. HIDE DEF head
      <4>2. q = r
        BY <2>3 DEF head
      <4>3. Charge(e.end) = e.end
        BY <2>3
      <4>. HIDE DEF q, r
      <4>. QED
        BY <4>1, <4>2, <4>3
    <3>4. e.end <= max_cache_size
      BY <2>3, <2>7
    <3>5. r = IF Hard /\ e.end > list[k].end
              THEN TrimToFit(MoveToLruHead(list, k), cache_size, e.end - list[k].end)
              ELSE [list |-> MoveToLruHead(list, k), gone |-> {}, size |-> cache_size]
      OBVIOUS
    <3>. HIDE DEF r
    <3>6. /\ r.list # <<>>
          /\ Books(Hard, [r.list EXCEPT ![1] = e], ids \ r.gone, Add(Sub(r.size, list[k].end), e.end))
      <4>. DEFINE hard == Hard
      <4>1. /\ hard \in BOOLEAN /\ Books(hard, list, ids, cache_size) /\ list[k].id = e.id
            /\ r = IF hard /\ e.end > list[k].end
                   THEN TrimToFit(MoveToLruHead(list, k), cache_size, e.end - list[k].end)
                   ELSE [list |-> MoveToLruHead(list, k), gone |-> {}, size |-> cache_size]
        BY <2>1, <2>2, <3>2, <3>5
      <4>. HIDE DEF hard
      <4>2. /\ r.list # <<>>
            /\ Books(hard, [r.list EXCEPT ![1] = e], ids \ r.gone, Add(Sub(r.size, list[k].end), e.end))
        BY <1>1, <1>2, <3>2, <3>4, <4>1, PutAgainCounts, ZenonT(60)
      <4>. QED
        BY <4>2 DEF hard
    <3>. QED
      BY <1>2, <2>4, <3>3, <3>6
  <2>. QED
    BY <1>3, <2>1, <2>5, <2>6, <2>7
<1>. QED
  BY <1>3, <1>7, <1>8, <1>9

\* An empty cache is in order.
LEMMA EmptyBooks ==
  ASSUME list = <<>>, ids = {}, cache_size = 0
  PROVE  Counted /\ NeverOvercommitted /\ InStep(list, ids)
<1>1. Word \in Nat \ {0} /\ max_cache_size \in Nat
  BY CacheAssumption
<1>2. HeldBytes = 0
  <2>1. Weight \in [Sizes -> Nat]
    BY ChargeType DEF Weight
  <2>2. HeldBytes = Bytes(Weight, <<>>)
    BY DEF HeldBytes, Weight
  <2>. QED
    BY <2>1, <2>2, NoBytes
<1>3. 0 % Word = 0
  <2>1. 0 \in 0 .. Word - 1
    BY <1>1
  <2>. QED
    BY <2>1, Wrapped
<1>4. Counted /\ NeverOvercommitted
  BY <1>1, <1>2, <1>3 DEF Counted, NeverOvercommitted
<1>. QED
  BY <1>4 DEF InStep

\* The invariant holds before the first call.
LEMMA InitBInv == Init => BInv
<1>. SUFFICES ASSUME Init PROVE BInv
  OBVIOUS
<1>1. TInv
  BY InitTInv
<1>2. /\ list = <<>> /\ ids = {} /\ cache_size = 0 /\ slot = [t \in Tiles |-> 0]
      /\ pc = [th \in Threads |-> "idle"] /\ answer = [th \in Threads |-> Null]
  BY DEF Init
<1>3. Counted /\ NeverOvercommitted /\ InStep(list, ids)
  BY <1>2, EmptyBooks
<1>4. FlatIndexed /\ Alone
  BY <1>2 DEF FlatIndexed, Alone
<1>5. Answers /\ UpdatedStays
  BY <1>2 DEF Answers, UpdatedStays, Null, Freed
<1>. QED
  BY <1>1, <1>3, <1>4, <1>5 DEF BInv

\* A step that leaves the cache alone leaves its books in order.
LEMMA SameCache ==
  ASSUME BInv, UNCHANGED cache, config' = config
  PROVE  Counted' /\ NeverOvercommitted' /\ (kind # "flat" => InStep(list, ids)') /\ FlatIndexed'
<1>1. list' = list /\ ids' = ids /\ cache_size' = cache_size /\ slot' = slot
  BY DEF cache
<1>2. HeldBytes' = HeldBytes
  BY <1>1 DEF HeldBytes, Charge, source
<1>. QED
  BY <1>1, <1>2 DEF BInv, Counted, NeverOvercommitted, FlatIndexed, Hard, kind

\* A call that ends with what was asked for leaves its thread with that, and a cache without
\* a lock without callers.
LEMMA Returned ==
  ASSUME BInv, NEW th \in Threads, NEW a, Return(th, a), a # Freed, a[1] = "tile" => a[2] = want[th],
         pc[th] # "idle", want' = want, config' = config
  PROVE  Alone' /\ Answers' /\ UpdatedStays'
<1>1. /\ pc' = [pc EXCEPT ![th] = "idle"] /\ answer' = [answer EXCEPT ![th] = a]
      /\ DOMAIN pc = Threads /\ DOMAIN answer = Threads
  BY DEF Return, BInv, TInv, TypeOK
<1>2. kind' = kind
  BY DEF kind
<1>3. Alone'
  <2>. SUFFICES ASSUME kind = "simple", NEW o \in Threads, pc'[o] # "idle" PROVE FALSE
    BY <1>2 DEF Alone
  <2>1. o # th /\ pc[o] # "idle"
    BY <1>1
  <2>. QED
    BY <2>1 DEF BInv, Alone
<1>4. \A o \in Threads : answer'[o] = IF o = th THEN a ELSE answer[o]
  BY <1>1
<1>. QED
  BY <1>3, <1>4 DEF BInv, Answers, UpdatedStays

\* cache_->Get().
LEMMA GetKeeps ==
  ASSUME LruOverFiles, BInv, NEW th \in Threads, Get(th)
  PROVE  /\ Counted' /\ NeverOvercommitted' /\ (kind # "flat" => InStep(list, ids)') /\ FlatIndexed'
         /\ Alone' /\ Answers' /\ UpdatedStays'
<1>1. /\ TInv /\ config \in Configs /\ list \in Seq(Entry) /\ cache_size \in 0 .. Word - 1
      /\ Len(list) \in Nat /\ DOMAIN list = 1 .. Len(list)
      /\ want[th] \in Tiles /\ DOMAIN pc = Threads /\ DOMAIN answer = Threads
  BY DEF BInv, TInv, TypeOK
<1>2. /\ config' = config /\ ids' = ids /\ slot' = slot /\ cache_size' = cache_size /\ want' = want
      /\ pc[th] = "get"
  BY DEF Get
<1>3. kind' = kind
  BY <1>2 DEF kind
<1>4. CASE Find(want[th]) = {} /\ pc' = [pc EXCEPT ![th] = "load"] /\ UNCHANGED <<list, answer>>
  <2>1. UNCHANGED cache
    BY <1>2, <1>4 DEF cache
  <2>2. Answers' /\ UpdatedStays'
    BY <1>2, <1>4 DEF BInv, Answers, UpdatedStays
  <2>3. Alone'
    <3>. SUFFICES ASSUME kind = "simple" PROVE Alone'
      BY <1>3 DEF Alone
    <3>1. InStep(list, ids)
      BY DEF BInv
    <3>2. want[th] \notin ids
      BY <1>4, <3>1 DEF Find, InStep
    <3>3. \A o \in Threads : pc'[o] # "idle" => o = th
      <4>1. \A o \in Threads : o # th => pc[o] = "idle"
        BY <1>2 DEF BInv, Alone
      <4>. QED
        BY <1>1, <1>4, <4>1
    <3>. QED
      BY <1>2, <3>2, <3>3 DEF Alone
  <2>. QED
    BY <1>2, <2>1, <2>2, <2>3, SameCache
<1>5. ASSUME NEW k \in Find(want[th]),
             list' = IF Lru THEN MoveToLruHead(list, k) ELSE list,
             Return(th, Got(list[k]))
      PROVE  /\ Counted' /\ NeverOvercommitted' /\ (kind # "flat" => InStep(list, ids)') /\ FlatIndexed'
             /\ Alone' /\ Answers' /\ UpdatedStays'
  <2>1. k \in 1 .. Len(list) /\ (kind # "flat" => list[k].id = want[th])
    BY <1>1, FindType
  <2>2. list[k].id = want[th]
    <3>1. kind = "flat" => k = slot[want[th]] /\ k # 0
      BY DEF Find
    <3>. QED
      BY <1>1, <2>1, <3>1 DEF BInv, FlatIndexed
  <2>3. Alone' /\ Answers' /\ UpdatedStays'
    <3>. DEFINE a == Got(list[k])
    <3>1. a # Freed /\ (a[1] = "tile" => a[2] = want[th])
      BY <2>2 DEF Got, Freed
    <3>2. Return(th, a)
      BY <1>5
    <3>3. pc[th] # "idle"
      BY <1>2
    <3>. HIDE DEF a
    <3>. QED
      BY <1>2, <3>1, <3>2, <3>3, Returned
  <2>4. CASE ~Lru
    <3>1. UNCHANGED cache
      BY <1>2, <1>5, <2>4 DEF cache
    <3>. QED
      BY <1>2, <2>3, <3>1, SameCache
  <2>5. CASE Lru
    <3>. DEFINE head == MoveToLruHead(list, k)
    <3>1. Weight \in [Sizes -> Nat] /\ Weight' = Weight
      BY <1>1, <1>2, WeightType DEF Weight, Charge, source
    <3>2. /\ Bytes(Weight, head) = Bytes(Weight, list)
          /\ InStep(list, ids) => InStep(head, ids)
      BY <1>1, <2>1, <3>1, Moved
    <3>3. list' = head /\ kind # "flat"
      BY <1>5, <2>5 DEF Lru
    <3>. HIDE DEF head
    <3>4. HeldBytes = Bytes(Weight, list) /\ HeldBytes' = Bytes(Weight', list')
      BY DEF HeldBytes, Weight
    <3>5. HeldBytes' = HeldBytes
      BY <3>1, <3>2, <3>3, <3>4
    <3>6. Counted' /\ NeverOvercommitted'
      BY <1>2, <1>3, <3>5 DEF BInv, Counted, NeverOvercommitted, Hard
    <3>7. InStep(list, ids)'
      BY <1>2, <3>2, <3>3 DEF BInv
    <3>8. FlatIndexed'
      BY <1>3, <3>3 DEF FlatIndexed
    <3>. QED
      BY <2>3, <3>6, <3>7, <3>8
  <2>. QED
    BY <2>4, <2>5
<1>. QED
  BY <1>4, <1>5 DEF Get

\* cache_->Put().
LEMMA PutKeeps ==
  ASSUME LruOverFiles, BInv, NEW th \in Threads, Put(th)
  PROVE  /\ Counted' /\ NeverOvercommitted' /\ (kind # "flat" => InStep(list, ids)') /\ FlatIndexed'
         /\ Alone' /\ Answers' /\ UpdatedStays'
<1>. DEFINE e == [id |-> want[th], end |-> tile[th]]
<1>1. config' = config /\ want' = want /\ pc[th] = "put" /\ pc[th] # "idle"
  BY DEF Put
<1>2. /\ Counted' /\ NeverOvercommitted' /\ (kind # "flat" => InStep(list, ids)')
      /\ \/ Return(th, Threw)
         \/ \E x \in Entry : x.id = want[th] /\ Return(th, Got(x))
  BY PutBooks
<1>3. Alone' /\ Answers' /\ UpdatedStays'
  <2>1. PICK a : Return(th, a) /\ a # Freed /\ (a[1] = "tile" => a[2] = want[th])
    <3>1. CASE Return(th, Threw)
      <4>1. Threw # Freed /\ Threw[1] # "tile"
        BY DEF Threw, Freed
      <4>. QED
        BY <3>1, <4>1
    <3>2. CASE \E x \in Entry : x.id = want[th] /\ Return(th, Got(x))
      <4>1. PICK x \in Entry : x.id = want[th] /\ Return(th, Got(x))
        BY <3>2
      <4>2. Got(x) # Freed /\ Got(x)[2] = want[th]
        BY <4>1 DEF Got, Freed
      <4>. QED
        BY <4>1, <4>2
    <3>. QED
      BY <1>2, <3>1, <3>2
  <2>. QED
    BY <1>1, <2>1, Returned
<1>4. FlatIndexed'
  <2>. SUFFICES ASSUME kind = "flat" PROVE FlatIndexed'
    BY <1>1 DEF FlatIndexed, kind
  <2>1. PutFlat(th, e)
    BY DEF Put, Lru
  <2>2. list' = Append(list, e) /\ slot' = [slot EXCEPT ![e.id] = Len(list) + 1]
    BY <2>1 DEF PutFlat
  <2>3. /\ list \in Seq(Entry) /\ slot \in [Tiles -> 0 .. Len(list)] /\ Len(list) \in Nat
        /\ FlatIndexed /\ e.id \in Tiles /\ e \in Entry
    <3>1. tile[th] \in Sizes /\ want[th] \in Tiles
      BY <1>1 DEF BInv, TInv, TypeOK
    <3>2. e \in Entry /\ e.id \in Tiles
      BY <3>1 DEF Entry
    <3>. QED
      BY <3>2 DEF BInv, TInv, TypeOK
  <2>. HIDE DEF e
  <2>4. /\ \A k \in 1 .. Len(list) : list'[k] = list[k]
        /\ list'[Len(list) + 1] = e
    BY <2>2, <2>3
  <2>5. ASSUME NEW t \in Tiles, slot'[t] # 0 PROVE list'[slot'[t]].id = t
    <3>1. CASE t = e.id
      <4>1. slot'[t] = Len(list) + 1
        BY <2>2, <2>3, <3>1
      <4>. QED
        BY <2>4, <3>1, <4>1
    <3>2. CASE t # e.id
      <4>1. slot'[t] = slot[t]
        BY <2>2, <2>3, <3>2
      <4>2. slot[t] \in 1 .. Len(list)
        BY <2>3, <2>5, <4>1
      <4>3. list[slot[t]].id = t
        BY <2>3, <2>5, <4>1 DEF FlatIndexed
      <4>. QED
        BY <2>4, <4>1, <4>2, <4>3
    <3>. QED
      BY <3>1, <3>2
  <2>. QED
    BY <2>5 DEF FlatIndexed
<1>. QED
  BY <1>2, <1>3, <1>4

\* Clear() leaves an empty cache.
LEMMA ClearKeeps ==
  ASSUME Clear
  PROVE  Counted' /\ NeverOvercommitted' /\ InStep(list, ids)' /\ FlatIndexed'
<1>1. list' = <<>> /\ ids' = {} /\ slot' = [t \in Tiles |-> 0] /\ cache_size' = 0
  BY DEF Clear
<1>2. Counted' /\ NeverOvercommitted' /\ InStep(list, ids)'
  <2>1. (list = <<>> /\ ids = {} /\ cache_size = 0 => Counted /\ NeverOvercommitted /\ InStep(list, ids))'
    BY EmptyBooks, PTL
  <2>. QED
    BY <1>1, <2>1
<1>3. FlatIndexed'
  BY <1>1 DEF FlatIndexed
<1>. QED
  BY <1>2, <1>3

\* Trim() of either kind of cache keeps the books, and ends the overcommitment.
LEMMA TrimKeeps ==
  ASSUME LruOverFiles, BInv, NEW th \in Threads, Trim(th)
  PROVE  /\ Counted' /\ NeverOvercommitted' /\ (kind # "flat" => InStep(list, ids)') /\ FlatIndexed'
         /\ ~OverCommitted'
<1>1. /\ config \in Configs /\ list \in Seq(Entry) /\ cache_size \in 0 .. Word - 1
      /\ max_cache_size \in Nat
  BY CacheAssumption DEF BInv, TInv, TypeOK
<1>2. config' = config /\ kind' = kind
  BY DEF Trim, kind
<1>3. CASE ~Lru
  <2>1. Clear
    BY <1>3 DEF Trim
  <2>2. cache_size' = 0
    BY <2>1 DEF Clear
  <2>3. ~OverCommitted'
    BY <1>1, <2>2 DEF OverCommitted
  <2>. QED
    BY <2>1, <2>3, ClearKeeps
<1>4. CASE Lru
  <2>. DEFINE r == TrimToFit(list, cache_size, 0)
  <2>1. list' = r.list /\ ids' = ids \ r.gone /\ cache_size' = r.size
    BY <1>4 DEF Trim
  <2>2. Hard \in BOOLEAN /\ kind # "flat" /\ Hard' = Hard
    BY <1>2, <1>4 DEF Hard, Lru
  <2>3. Books(Hard, list, ids, cache_size)
    BY <1>1, <1>4, <2>2, BooksAre DEF BInv
  <2>4. Books(Hard, r.list, ids \ r.gone, r.size) /\ r.size <= max_cache_size
    <3>. DEFINE hard == Hard
    <3>1. hard \in BOOLEAN /\ Books(hard, list, ids, cache_size) /\ r = TrimToFit(list, cache_size, 0)
      BY <2>2, <2>3
    <3>. HIDE DEF hard, r
    <3>2. Books(hard, r.list, ids \ r.gone, r.size) /\ r.size <= max_cache_size
      BY <1>1, <3>1, TrimCounts, Zenon
    <3>. QED
      BY <3>2 DEF hard
  <2>. HIDE DEF r
  <2>5. HeldBytes' = Bytes(Plain, list')
    <3>1. Weight = Plain /\ Weight' = Weight
      BY <1>1, <1>2, <1>4, WeightType DEF Weight, Charge, source
    <3>2. HeldBytes' = Bytes(Weight', list')
      BY DEF HeldBytes, Weight
    <3>. QED
      BY <3>1, <3>2
  <2>6. Counted' /\ NeverOvercommitted' /\ InStep(list, ids)'
    BY <2>1, <2>2, <2>4, <2>5 DEF Books, Counted, NeverOvercommitted
  <2>7. cache_size' \in Nat /\ ~OverCommitted'
    <3>1. cache_size' \in 0 .. Word - 1
      BY TrimType DEF BInv
    <3>. QED
      BY <1>1, <2>1, <2>4, <3>1, CacheAssumption DEF OverCommitted
  <2>8. FlatIndexed'
    BY <1>2, <2>2 DEF FlatIndexed
  <2>. QED
    BY <2>6, <2>7, <2>8
<1>. QED
  BY <1>3, <1>4

\* Every step keeps the invariant.
LEMMA NextBInv == LruOverFiles /\ BInv /\ [Next]_vars => BInv'
<1>. SUFFICES ASSUME LruOverFiles, BInv, [Next]_vars PROVE BInv'
  OBVIOUS
<1>. DEFINE CacheIn == /\ Counted' /\ NeverOvercommitted' /\ (kind # "flat" => InStep(list, ids)')
                       /\ FlatIndexed'
            CallsIn == Alone' /\ Answers' /\ UpdatedStays'
            Stages  == {"idle", "get", "load", "look", "fetch", "note", "put", "trim"}
<1>1. /\ TInv /\ pc \in [Threads -> Stages] /\ want \in [Threads -> Tiles]
      /\ DOMAIN pc = Threads /\ DOMAIN answer = Threads /\ Alone /\ Answers /\ UpdatedStays
  BY DEF BInv, TInv, TypeOK
<1>2. TInv'
  BY <1>1, NextTInv
<1>3. UNCHANGED cache /\ config' = config => CacheIn
  BY SameCache
<1>4. Null # Freed /\ Null[1] # "tile"
  BY DEF Null, Freed
<1>5. ASSUME NEW th \in Threads, Return(th, Null), pc[th] # "idle", want' = want, config' = config
      PROVE  CallsIn
  <2>. DEFINE a == Null
  <2>1. Return(th, a) /\ a # Freed /\ (a[1] = "tile" => a[2] = want[th])
    BY <1>4, <1>5
  <2>. HIDE DEF a
  <2>. QED
    BY <1>5, <2>1, Returned
\* A thread that goes on with its call.
<1>6. ASSUME NEW th \in Threads, NEW s \in {"load", "look", "fetch", "put", "note"},
             pc[th] \in {"load", "look", "fetch"},
             pc' = [pc EXCEPT ![th] = s], want' = want, ids' = ids, config' = config, answer' = answer
      PROVE  CallsIn
  <2>1. Answers' /\ UpdatedStays'
    BY <1>1, <1>6 DEF Answers, UpdatedStays
  <2>2. Alone'
    <3>1. kind' = kind
      BY <1>6 DEF kind
    <3>2. \A o \in Threads : pc'[o] = IF o = th THEN s ELSE pc[o]
      BY <1>1, <1>6
    <3>3. pc[th] # "idle"
      BY <1>6
    <3>. QED
      BY <1>1, <1>6, <3>1, <3>2, <3>3 DEF Alone
  <2>. QED
    BY <2>1, <2>2
<1>7. ASSUME NEW th \in Threads, NEW t \in Tiles, Call(th, t) PROVE CacheIn /\ CallsIn
  <2>1. /\ UNCHANGED cache /\ config' = config /\ ids' = ids /\ pc' = [pc EXCEPT ![th] = "get"]
        /\ want' = [want EXCEPT ![th] = t] /\ answer' = [answer EXCEPT ![th] = Null]
        /\ kind = "simple" => \A o \in Threads : pc[o] = "idle"
    BY <1>7 DEF Call, cache
  <2>2. kind' = kind
    BY <2>1 DEF kind
  <2>3. Alone'
    BY <1>1, <2>1, <2>2 DEF Alone
  <2>4. \A o \in Threads : /\ answer'[o] = IF o = th THEN Null ELSE answer[o]
                          /\ want'[o] = IF o = th THEN t ELSE want[o]
    BY <1>1, <2>1
  <2>5. Answers' /\ UpdatedStays'
    BY <1>1, <1>4, <2>4 DEF Answers, UpdatedStays
  <2>. QED
    BY <1>3, <2>1, <2>3, <2>5
<1>8. ASSUME NEW th \in Threads, Get(th) PROVE CacheIn /\ CallsIn
  BY <1>8, GetKeeps
<1>9. ASSUME NEW th \in Threads, Load(th) PROVE CacheIn /\ CallsIn
  <2>1. UNCHANGED cache /\ config' = config /\ want' = want /\ ids' = ids /\ pc[th] = "load"
    BY <1>9 DEF Load, cache
  <2>2. \/ pc' = [pc EXCEPT ![th] = "put"] /\ answer' = answer
        \/ Return(th, Null)
        \/ pc' = [pc EXCEPT ![th] = "look"] /\ answer' = answer
    BY <1>9 DEF Load
  <2>3. CallsIn
    <3>. HIDE DEF CallsIn
    <3>. QED
      BY <1>5, <1>6, <2>1, <2>2
  <2>. QED
    BY <1>3, <2>1, <2>3
<1>10. ASSUME NEW th \in Threads, Look(th) PROVE CacheIn /\ CallsIn
  <2>1. UNCHANGED cache /\ config' = config /\ want' = want /\ ids' = ids /\ pc[th] = "look"
    BY <1>10 DEF Look, cache
  <2>2. Return(th, Null) \/ (pc' = [pc EXCEPT ![th] = "fetch"] /\ answer' = answer)
    BY <1>10 DEF Look
  <2>3. CallsIn
    <3>. HIDE DEF CallsIn
    <3>. QED
      BY <1>5, <1>6, <2>1, <2>2
  <2>. QED
    BY <1>3, <2>1, <2>3
<1>11. ASSUME NEW th \in Threads, Fetch(th) \/ FetchFails(th) PROVE CacheIn /\ CallsIn
  <2>1. /\ UNCHANGED cache /\ config' = config /\ want' = want /\ ids' = ids /\ pc[th] = "fetch"
        /\ answer' = answer
        /\ pc' = [pc EXCEPT ![th] = "put"] \/ pc' = [pc EXCEPT ![th] = "note"]
    BY <1>11 DEF Fetch, FetchFails, cache
  <2>2. CallsIn
    <3>. HIDE DEF CallsIn
    <3>. QED
      BY <1>6, <2>1
  <2>. QED
    BY <1>3, <2>1, <2>2
<1>12. ASSUME NEW th \in Threads, Note(th) PROVE CacheIn /\ CallsIn
  <2>1. UNCHANGED cache /\ config' = config /\ want' = want /\ pc[th] = "note" /\ Return(th, Null)
    BY <1>12 DEF Note
  <2>2. CallsIn
    <3>. HIDE DEF CallsIn
    <3>. QED
      BY <1>5, <2>1
  <2>. QED
    BY <1>3, <2>1, <2>2
<1>13. ASSUME NEW th \in Threads, Put(th) PROVE CacheIn /\ CallsIn
  BY <1>13, PutKeeps
<1>14. ASSUME NEW th \in Threads, Cleanup(th) PROVE CacheIn /\ CallsIn
  <2>1. /\ UNCHANGED cache /\ config' = config /\ want' = want /\ ids' = ids /\ answer' = answer
        /\ pc' = [pc EXCEPT ![th] = "trim"]
        /\ kind = "simple" => \A o \in Threads : pc[o] = "idle"
    BY <1>14 DEF Cleanup, cache
  <2>2. kind' = kind
    BY <2>1 DEF kind
  <2>3. Alone'
    BY <1>1, <2>1, <2>2 DEF Alone
  <2>4. Answers' /\ UpdatedStays'
    BY <1>1, <2>1 DEF Answers, UpdatedStays
  <2>. QED
    BY <1>3, <2>1, <2>3, <2>4
<1>15. ASSUME NEW th \in Threads, Trim(th) PROVE CacheIn /\ CallsIn
  <2>1. CacheIn
    BY <1>15, TrimKeeps
  <2>2. /\ config' = config /\ want' = want /\ answer' = answer /\ pc[th] = "trim"
        /\ pc' = [pc EXCEPT ![th] = "idle"]
    BY <1>15 DEF Trim
  <2>3. kind' = kind
    BY <2>2 DEF kind
  <2>4. Alone'
    <3>1. \A o \in Threads : pc'[o] = IF o = th THEN "idle" ELSE pc[o]
      BY <1>1, <2>2
    <3>. QED
      BY <1>1, <2>2, <2>3, <3>1 DEF Alone
  <2>5. Answers' /\ UpdatedStays'
    BY <1>1, <2>2 DEF Answers, UpdatedStays
  <2>. QED
    BY <2>1, <2>4, <2>5
<1>16. ASSUME NEW th \in Threads, ClearCache(th) PROVE CacheIn /\ CallsIn
  <2>1. /\ Clear /\ config' = config /\ want' = want /\ answer' = answer /\ pc' = pc /\ ids' = {}
    BY <1>16 DEF ClearCache, Clear
  <2>2. CacheIn
    BY <2>1, ClearKeeps
  <2>3. kind' = kind
    BY <2>1 DEF kind
  <2>4. CallsIn
    BY <1>1, <2>1, <2>3 DEF Alone, Answers, UpdatedStays
  <2>. QED
    BY <2>2, <2>4
<1>17. ASSUME UNCHANGED vars \/ \E t \in Tiles, end \in Sizes : Replace(t, end) PROVE CacheIn /\ CallsIn
  <2>1. /\ UNCHANGED cache /\ config' = config /\ want' = want /\ answer' = answer /\ pc' = pc
        /\ ids' = ids
    BY <1>17 DEF Replace, vars, cache
  <2>2. kind' = kind
    BY <2>1 DEF kind
  <2>3. CallsIn
    BY <1>1, <2>1, <2>2 DEF Alone, Answers, UpdatedStays
  <2>. QED
    BY <1>3, <2>1, <2>3
<1>18. CacheIn /\ CallsIn
  <2>. HIDE DEF CacheIn, CallsIn
  <2>. QED
    BY <1>7, <1>8, <1>9, <1>10, <1>11, <1>12, <1>13, <1>14, <1>15, <1>16, <1>17 DEF Next, Step
<1>19. kind' = kind
  <2>1. config' = config
    BY DEF Next, Step, Call, Get, Load, Look, Fetch, FetchFails, Note, Put, Cleanup, Trim,
           ClearCache, Replace, vars
  <2>. QED
    BY <2>1 DEF kind
<1>. QED
  BY <1>2, <1>18, <1>19 DEF BInv

----------------------------------------------------------------------------
\* The invariant holds throughout, for LRU caches over files and for the other caches over
\* files or an extract.
LEMMA BInvHolds ==
  ASSUME LruOverFiles
  PROVE  Spec => []BInv
<1>1. BInv /\ [Next]_vars => BInv'
  BY NextBInv
<1>. QED
  BY <1>1, InitBInv, PTL DEF Spec

\* The books of every cache balance: its keys are those of the tiles held, one for each, and
\* it counts the bytes of these tiles, as long as they come to less than a size_t can hold.
THEOREM BooksStayBalanced ==
  ASSUME LruOverFiles
  PROVE  Spec => [](MapMatchesList /\ (HeldBytes < Word => BooksBalance))
<1>1. BInv => MapMatchesList
  BY DEF BInv, MapMatchesList, InStep
<1>2. BInv /\ HeldBytes < Word => BooksBalance
  <2>. SUFFICES ASSUME BInv, HeldBytes < Word PROVE BooksBalance
    OBVIOUS
  <2>1. HeldBytes \in Nat /\ Word \in Nat
    <3>1. Weight \in [Sizes -> Nat] /\ list \in Seq(Entry)
      BY WeightType DEF BInv, TInv, TypeOK
    <3>2. HeldBytes = Bytes(Weight, list)
      BY DEF HeldBytes, Weight
    <3>. QED
      BY <3>1, <3>2, BytesType, CacheAssumption
  <2>2. HeldBytes % Word = HeldBytes
    <3>. DEFINE b == HeldBytes
    <3>1. b \in 0 .. Word - 1
      BY <2>1
    <3>. HIDE DEF b
    <3>2. b % Word = b
      BY <3>1, Wrapped
    <3>. QED
      BY <3>2 DEF b
  <2>3. SizeIsOfTilesHeld
    BY <2>2 DEF BInv, Counted, SizeIsOfTilesHeld
  <2>. QED
    BY <1>1, <2>3 DEF BooksBalance
<1>. QED
  BY <1>1, <1>2, BInvHolds, PTL

\* Hard control keeps its promise: the tiles of the cache never exceed the limit, whatever
\* threads load the same tile at the same time, in whatever sizes.
THEOREM LimitIsKept ==
  ASSUME LruOverFiles
  PROVE  Spec => []NeverOvercommitted
<1>1. BInv => NeverOvercommitted
  BY DEF BInv
<1>. QED
  BY <1>1, BInvHolds, PTL

\* A caller of GetGraphTile() gets the tile it asked for, and none that was freed: the entry
\* that Put() updates is at the head of the list when it makes room for it, and there is
\* room for the head alone.
THEOREM CallersGetTheirTiles ==
  ASSUME LruOverFiles
  PROVE  Spec => []TilesRight
<1>1. BInv => TilesRight
  BY DEF BInv, TilesRight, RightTile, Answers
<1>. QED
  BY <1>1, BInvHolds, PTL

\* After Trim() the cache is not overcommitted.
THEOREM TrimAlwaysRelieves ==
  ASSUME LruOverFiles
  PROVE  Spec => TrimRelieves
<1>1. BInv /\ [Next]_vars => [\A th \in Threads : Trim(th) => ~OverCommitted']_vars
  BY TrimKeeps
<1>. QED
  BY <1>1, BInvHolds, PTL DEF Spec, TrimRelieves

====
