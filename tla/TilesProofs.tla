---------------------------- MODULE TilesProofs ----------------------------
(***************************************************************************)
(* What wsd's TileCache holds, for any number of tiles, edits and requests: *)
(* a keyframe and deltas that follow one another, and, where it is valid,   *)
(* the document as it is unless an invalidation is on its way.  The order   *)
(* of what the Kit sends is kept along; TileViewProofs builds on it.         *)
(***************************************************************************)
EXTENDS Tiles, SeqLemmas

Putting    == INSTANCE FoldProofs WITH Op <- PutTile
Combining  == INSTANCE FoldProofs WITH Op <- Combine
Painting   == INSTANCE FoldProofs WITH Op <- Render
Requesting == INSTANCE FoldProofs WITH Op <- RequestTile
Serving    == INSTANCE FoldProofs WITH Op <- SendRequestedTile
Gathering  == INSTANCE FoldProofs WITH Op <- Accumulate
Creating   == INSTANCE FoldProofs WITH Op <- CreateTile
Removing   == INSTANCE FoldProofs WITH Op <- RemoveTile

-----------------------------------------------------------------------------
(* Sequences *)

IsSeq(q) == \E S : q \in Seq(S)

(* A sequence has a length and positions. *)
LEMMA SeqParts ==
    ASSUME NEW q, IsSeq(q)
    PROVE  Len(q) \in Nat /\ DOMAIN q = 1..Len(q)
BY LenProperties DEF IsSeq

(* Appending: the elements before stay where they are. *)
LEMMA Appended ==
    ASSUME NEW q, IsSeq(q), NEW m
    PROVE  /\ IsSeq(Append(q, m)) /\ Len(q) \in Nat /\ DOMAIN q = 1..Len(q)
           /\ DOMAIN Append(q, m) = 1..Len(q)+1
           /\ \A i \in DOMAIN q : Append(q, m)[i] = q[i]
           /\ Append(q, m)[Len(q) + 1] = m
<1>1. PICK S : q \in Seq(S)
  BY DEF IsSeq
<1>2. q \in Seq(S \cup {m}) /\ m \in S \cup {m}
  BY <1>1, SeqMonotonic
<1>3. Append(q, m) \in Seq(S \cup {m})
  BY <1>2, AppendParts
<1> QED  BY <1>2, <1>3, AppendParts DEF IsSeq

(* The tail: every element moves one place forward. *)
LEMMA Shortened ==
    ASSUME NEW q, IsSeq(q), q # <<>>
    PROVE  /\ IsSeq(Tail(q)) /\ Len(q) \in Nat \ {0} /\ DOMAIN q = 1..Len(q)
           /\ Head(q) = q[1] /\ DOMAIN Tail(q) = 1..Len(q)-1
           /\ \A i \in DOMAIN Tail(q) : Tail(q)[i] = q[i + 1]
<1>1. PICK S : q \in Seq(S)
  BY DEF IsSeq
<1> QED  BY <1>1, TailParts DEF IsSeq

(* A function on 1..n is a sequence. *)
LEMMA SeqByDomain ==
    ASSUME NEW n \in Nat, NEW q, q = [i \in 1..n |-> q[i]]
    PROVE  IsSeq(q) /\ Len(q) = n
<1> DEFINE S == {q[i] : i \in 1..n}
<1>1. q \in [1..n -> S]
  OBVIOUS
<1>2. q \in Seq(S)
  BY <1>1
<1>3. DOMAIN q = 1..n /\ Len(q) \in Nat /\ 1..Len(q) = 1..n
  BY <1>1, <1>2, LenProperties
<1>4. Len(q) = n
  <2>1. ~(Len(q) < n)
    <3> SUFFICES ASSUME Len(q) < n PROVE FALSE
      OBVIOUS
    <3>1. n \in 1..n /\ n \notin 1..Len(q)
      BY <1>3
    <3> QED  BY <1>3, <3>1
  <2>2. ~(n < Len(q))
    <3> SUFFICES ASSUME n < Len(q) PROVE FALSE
      OBVIOUS
    <3>1. Len(q) \in 1..Len(q) /\ Len(q) \notin 1..n
      BY <1>3
    <3> QED  BY <1>3, <3>1
  <2> QED  BY <1>3, <2>1, <2>2
<1> QED  BY <1>2, <1>4 DEF IsSeq

(* The first of some positions is one of them. *)
LEMMA FirstOf ==
    ASSUME NEW q, IsSeq(q), NEW at, at \subseteq DOMAIN q, at # {}
    PROVE  (CHOOSE i \in at : \A j \in at : i <= j) \in at
<1>1. at \subseteq Nat
  BY SeqParts
<1> QED  BY <1>1, LeastOf

(* r has only elements of q, and all those that are kept. *)
Thins(q, r, kept) ==
    /\ IsSeq(r)
    /\ \A n \in DOMAIN r : \E i \in DOMAIN q : r[n] = q[i]
    /\ \A i \in kept : \E n \in DOMAIN r : r[n] = q[i]

(* r has elements of q in the order of q. *)
Within(q, r) ==
    /\ IsSeq(q) /\ IsSeq(r)
    /\ \E h : /\ \A n \in DOMAIN r : h[n] \in DOMAIN q /\ r[n] = q[h[n]]
             /\ \A m, n \in DOMAIN r : m < n => h[m] < h[n]

(* RemoveAt keeps all but one element, in their order. *)
LEMMA Removed ==
    ASSUME NEW q, IsSeq(q), NEW x \in DOMAIN q
    PROVE  Thins(q, RemoveAt(q, x), DOMAIN q \ {x}) /\ Within(q, RemoveAt(q, x))
<1>1. PICK S : q \in Seq(S)
  BY DEF IsSeq
<1>2. Len(q) \in Nat /\ DOMAIN q = 1..Len(q) /\ x \in 1..Len(q) /\ x \in Nat
      /\ \A i \in 1..Len(q) : q[i] \in S
  BY <1>1, LenProperties, ElementOfSeq
<1> DEFINE a == SubSeq(q, 1, x - 1)
           b == SubSeq(q, x + 1, Len(q))
<1>3. a \in Seq(S) /\ Len(a) = x - 1 /\ \A i \in 1..x-1 : a[i] = q[i]
  <2>1. \A i \in 1..x-1 : q[i] \in S
    BY <1>2
  <2>2. /\ a \in Seq(S) /\ Len(a) = IF 1 <= x - 1 THEN (x - 1) - 1 + 1 ELSE 0
        /\ \A i \in 1..(x - 1) - 1 + 1 : a[i] = q[1 + i - 1]
    BY <1>2, <2>1, SubSeqProperties
  <2> HIDE DEF a
  <2> QED  BY <1>2, <2>2
<1>4. b \in Seq(S) /\ Len(b) = Len(q) - x /\ \A i \in 1..Len(q)-x : b[i] = q[x + i]
  <2>1. \A i \in x+1..Len(q) : q[i] \in S
    BY <1>2
  <2>2. /\ b \in Seq(S) /\ Len(b) = IF x + 1 <= Len(q) THEN Len(q) - (x + 1) + 1 ELSE 0
        /\ \A i \in 1..Len(q) - (x + 1) + 1 : b[i] = q[(x + 1) + i - 1]
    BY <1>2, <2>1, SubSeqProperties
  <2> HIDE DEF b
  <2>3. Len(q) - (x + 1) + 1 = Len(q) - x /\ (x + 1 <= Len(q) \/ Len(q) - x = 0)
        /\ \A i \in 1..Len(q)-x : (x + 1) + i - 1 = x + i
    BY <1>2
  <2> QED  BY <2>2, <2>3
<1> DEFINE r == RemoveAt(q, x)
<1>5. /\ r \in Seq(S) /\ Len(r) = Len(q) - 1
      /\ \A i \in 1..Len(q)-1 : r[i] = IF i <= x - 1 THEN q[i] ELSE q[i + 1]
  <2>1. r = a \o b
    BY DEF RemoveAt
  <2> HIDE DEF a, b, r
  <2>2. /\ r \in Seq(S) /\ Len(r) = Len(a) + Len(b)
        /\ \A i \in 1..Len(a)+Len(b) : r[i] = IF i <= Len(a) THEN a[i] ELSE b[i - Len(a)]
    BY <1>3, <1>4, <2>1, ConcatProperties
  <2>3. Len(r) = Len(q) - 1
    BY <1>2, <1>3, <1>4, <2>2
  <2>4. ASSUME NEW i \in 1..Len(q)-1 PROVE r[i] = IF i <= x - 1 THEN q[i] ELSE q[i + 1]
    <3>1. CASE i <= x - 1
      BY <1>2, <1>3, <1>4, <2>2, <3>1
    <3>2. CASE ~(i <= x - 1)
      <4>1. i - (x - 1) \in 1..Len(q)-x /\ x + (i - (x - 1)) = i + 1
        BY <1>2, <3>2
      <4>2. r[i] = b[i - (x - 1)]
        BY <1>2, <1>3, <1>4, <2>2, <3>2
      <4> QED  BY <1>4, <3>2, <4>1, <4>2
    <3> QED  BY <3>1, <3>2
  <2> QED  BY <2>2, <2>3, <2>4
<1> HIDE DEF r
<1>6. DOMAIN r = 1..Len(q)-1
  BY <1>5, LenProperties
<1>7. \A n \in DOMAIN r : \E i \in DOMAIN q : r[n] = q[i]
  BY <1>2, <1>5, <1>6
<1>8. ASSUME NEW i \in DOMAIN q \ {x} PROVE \E n \in DOMAIN r : r[n] = q[i]
  <2>1. CASE i < x
    BY <1>2, <1>5, <1>6, <2>1
  <2>2. CASE i > x
    <3>1. i - 1 \in DOMAIN r /\ (i - 1) + 1 = i /\ ~(i - 1 <= x - 1)
      BY <1>2, <1>6, <2>2
    <3> QED  BY <1>5, <1>6, <3>1
  <2> QED  BY <1>2, <2>1, <2>2
<1>9. IsSeq(r)
  BY <1>5 DEF IsSeq
<1>10. Within(q, r)
  <2> DEFINE h == [n \in DOMAIN r |-> IF n <= x - 1 THEN n ELSE n + 1]
  <2>1. \A n \in DOMAIN r : h[n] \in DOMAIN q /\ r[n] = q[h[n]]
    BY <1>2, <1>5, <1>6
  <2>2. \A m, n \in DOMAIN r : m < n => h[m] < h[n]
    BY <1>2, <1>6
  <2> HIDE DEF h
  <2> QED  BY <1>9, <2>1, <2>2 DEF Within
<1> QED  BY <1>7, <1>8, <1>9, <1>10 DEF Thins, r

(* PickAt keeps exactly the elements at the positions named. *)
LEMMA Picked ==
    ASSUME NEW q, IsSeq(q), NEW at, at \subseteq DOMAIN q
    PROVE  /\ Thins(q, PickAt(q, at), at)
           /\ \A n \in DOMAIN PickAt(q, at) : \E i \in at : PickAt(q, at)[n] = q[i]
<1> DEFINE card == Cardinality(at)
           upTo(i) == {j \in at : j <= i}
           rank == [i \in at |-> Cardinality(upTo(i))]
           r == PickAt(q, at)
<1>1. Len(q) \in Nat /\ DOMAIN q = 1..Len(q) /\ at \subseteq 1..Len(q) /\ at \subseteq Nat
  BY SeqParts
<1>2. IsFiniteSet(at) /\ card \in Nat
  <2>1. IsFiniteSet(1..Len(q))
    BY <1>1, FS_Interval
  <2> QED  BY <1>1, <2>1, FS_Subset, FS_CardinalityType
<1>3. ASSUME NEW i \in at
      PROVE  IsFiniteSet(upTo(i)) /\ rank[i] \in 1..card
  <2>1. upTo(i) \in SUBSET at /\ i \in upTo(i)
    BY <1>1
  <2>2. IsFiniteSet(upTo(i)) /\ Cardinality(upTo(i)) <= card
    BY <1>2, <2>1, FS_Subset
  <2>3. Cardinality(upTo(i)) \in Nat /\ Cardinality(upTo(i)) # 0
    BY <2>1, <2>2, FS_CardinalityType, FS_EmptySet
  <2> QED  BY <1>2, <2>2, <2>3
<1>4. ASSUME NEW i \in at, NEW j \in at, i < j PROVE rank[i] < rank[j]
  <2>1. upTo(i) \subseteq upTo(j) \ {j} /\ j \in upTo(j)
    BY <1>1, <1>4
  <2>2. IsFiniteSet(upTo(j) \ {j}) /\ Cardinality(upTo(j) \ {j}) = Cardinality(upTo(j)) - 1
    BY <1>3, <2>1, FS_RemoveElement
  <2>3. Cardinality(upTo(i)) <= Cardinality(upTo(j) \ {j})
    BY <2>1, <2>2, FS_Subset
  <2>4. rank[i] = Cardinality(upTo(i)) /\ rank[j] = Cardinality(upTo(j))
        /\ rank[i] \in Nat /\ rank[j] \in Nat
    BY <1>3
  <2> QED  BY <2>2, <2>3, <2>4
<1>5. \A i, j \in at : rank[i] = rank[j] => i = j
  <2> SUFFICES ASSUME NEW i \in at, NEW j \in at, i # j PROVE rank[i] # rank[j]
    OBVIOUS
  <2>1. i < j \/ j < i
    BY <1>1
  <2>2. rank[i] \in 1..card /\ rank[j] \in 1..card
    BY <1>3
  <2> HIDE DEF rank
  <2> QED  BY <1>2, <1>4, <2>1, <2>2
<1>6. \A n \in 1..card : \E i \in at : rank[i] = n
  <2>1. rank \in Injection(at, 1..card)
    <3>1. rank \in [at -> 1..card]
      BY <1>3
    <3> QED  BY <1>5, <3>1 DEF Injection, IsInjective
  <2>2. IsFiniteSet(1..card) /\ Cardinality(1..card) = card
    BY <1>2, FS_Interval
  <2>3. rank \in Surjection(at, 1..card)
    <3> HIDE DEF rank
    <3> QED  BY <2>1, <2>2, FS_Injection
  <2> QED  BY <2>3 DEF Surjection
<1>7. \A n \in 1..card : (CHOOSE i \in at : Cardinality({j \in at : j <= i}) = n) \in at
                         /\ rank[CHOOSE i \in at : Cardinality({j \in at : j <= i}) = n] = n
  <2> SUFFICES ASSUME NEW n \in 1..card
               PROVE  LET x == CHOOSE i \in at : Cardinality({j \in at : j <= i}) = n
                      IN  x \in at /\ rank[x] = n
    OBVIOUS
  <2>1. \E i \in at : Cardinality({j \in at : j <= i}) = n
    BY <1>6
  <2> DEFINE x == CHOOSE i \in at : Cardinality({j \in at : j <= i}) = n
  <2>2. x \in at /\ Cardinality({j \in at : j <= x}) = n
    BY <2>1
  <2> QED  BY <2>2
<1>8. /\ r = [n \in 1..card |-> q[CHOOSE i \in at : Cardinality({j \in at : j <= i}) = n]]
      /\ DOMAIN r = 1..card
  BY DEF PickAt
<1>9. IsSeq(r)
  <2>1. r = [n \in 1..card |-> r[n]]
    BY <1>8
  <2> HIDE DEF r
  <2> QED  BY <1>2, <2>1, SeqByDomain
<1>10. \A n \in DOMAIN r : \E i \in at : r[n] = q[i]
  BY <1>7, <1>8
<1>11. ASSUME NEW i \in at PROVE \E n \in DOMAIN r : r[n] = q[i]
  <2> DEFINE n == rank[i]
             x == CHOOSE y \in at : Cardinality({j \in at : j <= y}) = n
  <2>1. n \in 1..card
    BY <1>3
  <2>2. x \in at /\ rank[x] = n
    <3> HIDE DEF rank
    <3> QED  BY <1>7, <2>1
  <2>3. x = i
    <3> HIDE DEF rank, x
    <3> QED  BY <1>5, <2>2
  <2>4. r[n] = q[x]
    <3> HIDE DEF rank
    <3> QED  BY <1>8, <2>1
  <2> QED  BY <1>8, <2>1, <2>3, <2>4
<1>12. Thins(q, r, at)
  <2> HIDE DEF r, rank
  <2>1. \A n \in DOMAIN r : \E i \in DOMAIN q : r[n] = q[i]
    BY <1>10
  <2> QED  BY <1>9, <1>11, <2>1 DEF Thins
<1> QED  BY <1>10, <1>12

(* A finite set of tiles in order is a sequence. *)
LEMMA SortedSeq ==
    ASSUME NEW ts, IsFiniteSet(ts) PROVE IsSeq(Sorted(ts))
<1> DEFINE r == Sorted(ts)
           nth(n) == CHOOSE t \in ts :
                        n = Cardinality({u \in ts : u[1] < t[1] \/ (u[1] = t[1] /\ u[2] <= t[2])})
<1>1. Cardinality(ts) \in Nat
  BY FS_CardinalityType
<1>2. r = [n \in 1..Cardinality(ts) |-> nth(n)]
  BY DEF Sorted
<1> HIDE DEF r, nth
<1>3. r = [n \in 1..Cardinality(ts) |-> r[n]]
  BY <1>2
<1>4. IsSeq(r)
  BY <1>1, <1>3, SeqByDomain
<1> QED  BY <1>4 DEF r

(* There are finitely many tiles. *)
LEMMA TileFinite == IsFiniteSet(Tile)
<1>1. IsFiniteSet(Parts) /\ IsFiniteSet(Pos)
  BY TilesAssumption
<1> QED  BY <1>1, FS_Product DEF Tile

-----------------------------------------------------------------------------
(* The invariant *)

Fields == {"docType", "queue", "prev", "nextWid", "view", "remembered", "up", "cache", "rendering",
           "ver", "sent", "oldWid", "requested", "onFly", "area", "part", "sendQ", "wire"}

(* An invalidation of t is in q; one behind position i is. *)
Announced(q, t) == \E i \in DOMAIN q : q[i].k = "inval" /\ t \in q[i].ts
Behind(q, i, t) == \E j \in DOMAIN q : j > i /\ q[j].k = "inval" /\ t \in q[j].ts

(* The renderings of t in q. *)
Of(q, t) == {i \in DOMAIN q : q[i].k = "tile" /\ q[i].t = t}

(* Invalidations name finitely many tiles; renderings have a number. *)
Telling(q) == \A i \in DOMAIN q : q[i].k = "inval" => IsFiniteSet(q[i].ts)
Worded(q) ==
    \A i \in DOMAIN q :
        /\ q[i].k = "inval" => DOMAIN q[i] = {"k", "ts", "mine"}
        /\ q[i].k = "tile" => q[i].f.wid \in Nat

(* An entry of the cache. *)
Entry(e) ==
    \/ e = NotCached
    \/ /\ DOMAIN e = {"here", "valid", "frames"} /\ e.here = TRUE
       /\ IsSeq(e.frames) /\ e.frames # <<>>

Formed(s) ==
    /\ DOMAIN s = Fields
    /\ IsSeq(s.queue) /\ IsSeq(s.requested) /\ IsSeq(s.up)
    /\ Telling(s.queue) /\ Telling(s.up) /\ Worded(s.up) /\ s.nextWid \in Nat
    /\ s.prev = [t \in Tile |-> s.prev[t]]
    /\ s.cache = [t \in Tile |-> s.cache[t]]
    /\ \A t \in Tile : Entry(s.cache[t])

(* For a tile with the entry e that looks like x: what is valid is x, and what was rendered *)
(* is, unless an invalidation follows it.                                                   *)
FreshAt(t, e, queue, up, x) ==
    \/ Announced(queue, t)
    \/ /\ e.here /\ e.valid => Last(e.frames).c = x \/ Announced(up, t)
       /\ \A i \in Of(up, t) : up[i].f.c = x \/ Behind(up, i, t)

(* Each delta starts at the rendering before it: in the cache, from the cache to the first *)
(* on the way, between those on the way, and up to the one the Kit remembers, p, if it does. *)
ChainAt(t, e, up, p) ==
    /\ e.here => e.frames[1].key /\ \A i \in 2..Len(e.frames) : e.frames[i].from = e.frames[i - 1].c
    /\ \A i \in Of(up, t) :
          (\A j \in Of(up, t) : i <= j) /\ ~up[i].f.key /\ e.here => up[i].f.from = Last(e.frames).c
    /\ \A i, j \in Of(up, t) :
          i < j /\ ~up[j].f.key /\ (\A k \in Of(up, t) : k <= i \/ j <= k) => up[j].f.from = up[i].f.c
    /\ \A i \in Of(up, t) : (\A j \in Of(up, t) : j <= i) => up[i].f.c = p \/ p = Blank
    /\ Of(up, t) = {} /\ e.here => Last(e.frames).c = p \/ p = Blank

Kept(s, d) ==
    /\ Formed(s)
    /\ \A t \in Tile : FreshAt(t, s.cache[t], s.queue, s.up, d[t])
    /\ \A t \in Tile : ChainAt(t, s.cache[t], s.up, s.prev[t])

-----------------------------------------------------------------------------
(* Operations that leave cache and renderings alone *)

(* From s to u the cache and the renderings stay, and no invalidation is lost. *)
Same(s, u) ==
    /\ Formed(u)
    /\ u.cache = s.cache /\ u.up = s.up /\ u.prev = s.prev /\ u.nextWid = s.nextWid
    /\ \A t \in Tile : Announced(s.queue, t) => Announced(u.queue, t)

(* The messages of q with pictures of t, and the picture one of them ends with. *)
Carrying(q, t) == {i \in DOMAIN q : q[i].k \in {"tile", "delta"} /\ q[i].t = t}
Result(m) == Last(m.fs).c

(* Frames of which each is made from the picture before it. *)
Linked(fs) == IsSeq(fs) /\ fs # <<>> /\ \A i \in 2..Len(fs) : fs[i].from = fs[i - 1].c

(* The frames of an entry are in the order of their wire ids. *)
Rises(e) ==
    e.here => /\ Linked(e.frames) /\ Last(e.frames).c \in Nat
              /\ \A i \in DOMAIN e.frames : e.frames[i].wid \in Nat
              /\ \A i, j \in DOMAIN e.frames : i < j => e.frames[i].wid < e.frames[j].wid

(* What waits in q of a tile is in the order of the document's states, and none of it is *)
(* newer than what its entry e has.                                                      *)
Waiting(q, t, e) ==
    \A i \in Carrying(q, t) :
        /\ Linked(q[i].fs) /\ Result(q[i]) \in Nat
        /\ e.here => Result(q[i]) <= Last(e.frames).c
        /\ \A j \in Carrying(q, t) : i < j => Result(q[i]) <= Result(q[j])

Outgoing(s) ==
    /\ IsSeq(s.sendQ) /\ s.sent \in [Tile -> Nat]
    /\ \A t \in Tile :
          /\ Rises(s.cache[t])
          /\ Waiting(s.sendQ, t, s.cache[t])

(* From q to r, what is sent anew of a tile ends with what its entry e has last. *)
Adds(q, r, t, e) ==
    \A j \in Carrying(r, t) :
        \/ \E i \in Carrying(q, t) : Result(r[j]) = Result(q[i])
        \/ e.here /\ Result(r[j]) = Last(e.frames).c

Sends(s, u) == \A t \in Tile : Adds(s.sendQ, u.sendQ, t, s.cache[t])

Passes(s, u) ==
    /\ u.wire = s.wire
    /\ Outgoing(s) => Outgoing(u) /\ Sends(s, u)

(* From s to u the cache and the renderings stay, no invalidation is lost, and pictures are *)
(* sent in order.                                                                           *)
Calm(s, u) == Same(s, u) /\ Passes(s, u)

(* So does one step after another. *)
LEMMA AddsTwice ==
    ASSUME NEW q, NEW r, NEW w, NEW t, NEW e, Adds(q, r, t, e), Adds(r, w, t, e)
    PROVE  Adds(q, w, t, e)
BY DEF Adds

(* Calm steps follow one another. *)
LEMMA CalmTwice ==
    ASSUME NEW s, NEW u, NEW v, Calm(s, u), Calm(u, v) PROVE Calm(s, v)
<1>1. Same(s, v) /\ u.cache = s.cache
  BY DEF Calm, Same
<1>2. ASSUME Sends(s, u), Sends(u, v) PROVE Sends(s, v)
  BY <1>1, <1>2, AddsTwice DEF Sends
<1> QED  BY <1>1, <1>2 DEF Calm, Passes

(* Doing nothing is calm. *)
LEMMA CalmSelf == ASSUME NEW s, Formed(s) PROVE Calm(s, s)
<1>1. Sends(s, s)
  BY DEF Sends, Adds
<1> QED  BY <1>1 DEF Calm, Same, Passes

(* Such an operation keeps the invariant. *)
LEMMA SameKeeps ==
    ASSUME NEW s, NEW u, NEW d, Kept(s, d), Same(s, u) PROVE Kept(u, d)
<1>1. \A t \in Tile : FreshAt(t, u.cache[t], u.queue, u.up, d[t])
  BY DEF Kept, Same, FreshAt
<1> QED  BY <1>1 DEF Kept, Same

(* So does a calm one. *)
LEMMA CalmKeeps ==
    ASSUME NEW s, NEW u, NEW d, Kept(s, d), Calm(s, u) PROVE Kept(u, d)
BY SameKeeps DEF Calm

(* A calm operation ends in a state of the same form. *)
LEMMA CalmForm == ASSUME NEW s, NEW u, Calm(s, u) PROVE Formed(u)
BY DEF Calm, Same

(* Only other fields change. *)
Idle(s, u) ==
    /\ DOMAIN u = Fields
    /\ u.cache = s.cache /\ u.up = s.up /\ u.prev = s.prev /\ u.queue = s.queue
    /\ u.requested = s.requested /\ u.nextWid = s.nextWid

(* Then cache and renderings stay. *)
LEMMA IdleSame == ASSUME NEW s, NEW u, Formed(s), Idle(s, u) PROVE Same(s, u)
BY DEF Formed, Idle, Same

(* Nothing is sent either. *)
Silent(s, u) ==
    u.sendQ = s.sendQ /\ u.wire = s.wire /\ (s.sent \in [Tile -> Nat] => u.sent \in [Tile -> Nat])
Quiet(s, u) == Idle(s, u) /\ Silent(s, u)

(* Pictures stay in order when none is sent. *)
LEMMA SilentPasses == ASSUME NEW s, NEW u, u.cache = s.cache, Silent(s, u) PROVE Passes(s, u)
<1>1. Sends(s, u)
  BY DEF Sends, Adds, Silent
<1>2. Outgoing(s) => Outgoing(u)
  BY DEF Outgoing, Silent
<1> QED  BY <1>1, <1>2 DEF Passes, Silent

(* That is calm. *)
LEMMA QuietCalm == ASSUME NEW s, NEW u, Formed(s), Quiet(s, u) PROVE Calm(s, u)
BY IdleSame, SilentPasses DEF Quiet, Calm, Idle

(* The waiting requests change. *)
LEMMA RequestsCalm ==
    ASSUME NEW s, Formed(s), NEW rs, IsSeq(rs) PROVE Calm(s, [s EXCEPT !.requested = rs])
<1> DEFINE u == [s EXCEPT !.requested = rs]
<1>1. /\ DOMAIN u = Fields /\ u.cache = s.cache /\ u.up = s.up /\ u.prev = s.prev
      /\ u.queue = s.queue /\ u.requested = rs /\ u.nextWid = s.nextWid /\ Silent(s, u)
  BY DEF Formed, Fields, Silent
<1> HIDE DEF u
<1>2. Same(s, u)
  BY <1>1 DEF Formed, Same
<1>3. Calm(s, u)
  BY <1>1, <1>2, SilentPasses DEF Calm
<1> QED  BY <1>3 DEF u

(* The queue of the Kit changes, and keeps what it has of invalidations. *)
LEMMA QueueCalm ==
    ASSUME NEW s, Formed(s), NEW q, IsSeq(q), Telling(q),
           \A t \in Tile : Announced(s.queue, t) => Announced(q, t)
    PROVE  Calm(s, [s EXCEPT !.queue = q])
<1> DEFINE u == [s EXCEPT !.queue = q]
<1>1. /\ DOMAIN u = Fields /\ u.cache = s.cache /\ u.up = s.up /\ u.prev = s.prev
      /\ u.queue = q /\ u.requested = s.requested /\ u.nextWid = s.nextWid /\ Silent(s, u)
  BY DEF Formed, Fields, Silent
<1> HIDE DEF u
<1>2. Same(s, u)
  BY <1>1 DEF Formed, Same
<1>3. Calm(s, u)
  BY <1>1, <1>2, SilentPasses DEF Calm
<1> QED  BY <1>3 DEF u

(* Thinning out a queue keeps the tiles its invalidations name, and the invalidations *)
(* that are kept.                                                                     *)
LEMMA Thinned ==
    ASSUME NEW q, NEW r, NEW kept, Thins(q, r, kept), Telling(q)
    PROVE  /\ IsSeq(r) /\ Telling(r)
           /\ (\A i \in DOMAIN q : q[i].k = "inval" => i \in kept)
                 => \A t : Announced(q, t) => Announced(r, t)
BY DEF Thins, Telling, Announced

(* Appending something keeps the invalidations of a queue. *)
LEMMA Lengthened ==
    ASSUME NEW q, IsSeq(q), Telling(q), NEW m, m.k = "inval" => IsFiniteSet(m.ts)
    PROVE  /\ IsSeq(Append(q, m)) /\ Telling(Append(q, m))
           /\ \A t : Announced(q, t) => Announced(Append(q, m), t)
           /\ m.k = "inval" => \A t \in m.ts : Announced(Append(q, m), t)
<1> DEFINE r == Append(q, m)
<1>1. /\ IsSeq(r) /\ Len(q) \in Nat /\ DOMAIN q = 1..Len(q) /\ DOMAIN r = 1..Len(q)+1
      /\ \A i \in DOMAIN q : r[i] = q[i]
      /\ r[Len(q) + 1] = m
  BY Appended
<1>2. /\ DOMAIN q \subseteq DOMAIN r /\ Len(q) + 1 \in DOMAIN r
      /\ \A i \in DOMAIN r : i \in DOMAIN q \/ i = Len(q) + 1
  BY <1>1
<1> HIDE DEF r
<1>3. Telling(r)
  BY <1>1, <1>2 DEF Telling
<1>4. \A t : Announced(q, t) => Announced(r, t)
  BY <1>1, <1>2 DEF Announced
<1>5. m.k = "inval" => \A t \in m.ts : Announced(r, t)
  BY <1>1, <1>2 DEF Announced
<1> QED  BY <1>1, <1>3, <1>4, <1>5 DEF r

-----------------------------------------------------------------------------
(* The Kit's queue *)

(* A request takes the place of an equal one. *)
LEMMA PutTileCalm ==
    ASSUME NEW s, Formed(s), NEW r PROVE Calm(s, PutTile(s, r))
<1> DEFINE same == {i \in DOMAIN s.queue : /\ s.queue[i].k = "tile"
                                           /\ s.queue[i].t = r.t /\ s.queue[i].old = r.old}
           rest == IF same = {} THEN s.queue
                   ELSE RemoveAt(s.queue, CHOOSE i \in same : \A j \in same : i <= j)
           m == [k |-> "tile", t |-> r.t, old |-> r.old, ver |-> r.ver]
<1>1. IsSeq(s.queue) /\ Telling(s.queue)
  BY DEF Formed
<1>2. /\ IsSeq(rest) /\ Telling(rest)
      /\ \A t : Announced(s.queue, t) => Announced(rest, t)
  <2>1. CASE same = {}
    BY <1>1, <2>1
  <2>2. CASE same # {}
    <3> DEFINE x == CHOOSE i \in same : \A j \in same : i <= j
    <3>1. x \in same
      BY <1>1, <2>2, FirstOf
    <3> HIDE DEF x
    <3>2. x \in DOMAIN s.queue /\ s.queue[x].k = "tile"
      BY <3>1
    <3>3. Thins(s.queue, RemoveAt(s.queue, x), DOMAIN s.queue \ {x})
      BY <1>1, <3>2, Removed
    <3>4. rest = RemoveAt(s.queue, x)
      BY <2>2 DEF x
    <3>5. \A i \in DOMAIN s.queue : s.queue[i].k = "inval" => i \in DOMAIN s.queue \ {x}
      BY <3>2
    <3> HIDE DEF rest, same
    <3> QED  BY <1>1, <3>3, <3>4, <3>5, Thinned
  <2> QED  BY <2>1, <2>2
<1>3. PutTile(s, r) = [s EXCEPT !.queue = Append(rest, m)]
  BY DEF PutTile
<1>4. m.k # "inval"
  OBVIOUS
<1> HIDE DEF rest, m
<1>5. /\ IsSeq(Append(rest, m)) /\ Telling(Append(rest, m))
      /\ \A t : Announced(s.queue, t) => Announced(Append(rest, m), t)
  BY <1>2, <1>4, Lengthened
<1> QED  BY <1>3, <1>5, QueueCalm

(* So with several. *)
LEMMA PutTilesCalm ==
    ASSUME NEW s, Formed(s), NEW rs, IsSeq(rs) PROVE Calm(s, PutTiles(s, rs))
<1>1. PICK S : rs \in Seq(S)
  BY DEF IsSeq
<1>2. Len(rs) \in Nat
  BY SeqParts
<1>3. PICK r : Putting!IsRun(r, s, rs) /\ Putting!Fold(s, rs) = r[Len(rs)]
  BY <1>1, Putting!FoldRuns
<1>4. PutTiles(s, rs) = Putting!Fold(s, rs)
  BY DEF PutTiles, FoldLeft, MapThenFoldSet, Max, Putting!Max, Putting!Fold
<1> DEFINE T == {i \in Nat : Calm(s, r[i])}
<1>5. 0 \in T
  BY <1>3, CalmSelf DEF Putting!IsRun
<1>6. ASSUME NEW i \in Nat, i + 1 <= Len(rs), i \in T PROVE i + 1 \in T
  <2>1. r[i + 1] = PutTile(r[i], rs[i + 1])
    <3>1. i + 1 \in 1..Len(rs) /\ (i + 1) - 1 = i
      BY <1>2, <1>6
    <3> QED  BY <1>3, <3>1 DEF Putting!IsRun
  <2>2. Formed(r[i]) /\ Calm(s, r[i])
    BY <1>6 DEF Calm, Same
  <2>3. Calm(r[i], r[i + 1])
    BY <2>1, <2>2, PutTileCalm
  <2> QED  BY <2>2, <2>3, CalmTwice
<1>7. Len(rs) \in T
  <2> HIDE DEF T
  <2> QED  BY <1>2, <1>5, <1>6, StepsTo
<1> QED  BY <1>3, <1>4, <1>7

(* A new invalidation replaces those it covers. *)
LEMMA PutInvalCalm ==
    ASSUME NEW s, Formed(s), NEW ts, IsFiniteSet(ts)
    PROVE  Calm(s, PutInval(s, ts)) /\ \A t \in ts : Announced(PutInval(s, ts).queue, t)
<1> DEFINE q == s.queue
           at == {i \in DOMAIN q : ~(q[i].k = "inval" /\ q[i].ts \subseteq ts)}
           m == [k |-> "inval", ts |-> ts]
           r == Append(PickAt(q, at), m)
<1>1. IsSeq(q) /\ Telling(q)
  BY DEF Formed
<1>2. Thins(q, PickAt(q, at), at)
  BY <1>1, Picked
<1>3. PutInval(s, ts) = [s EXCEPT !.queue = r]
  BY DEF PutInval
<1>4. m.k = "inval" /\ m.ts = ts
  OBVIOUS
<1>5. ASSUME NEW t, Announced(q, t) PROVE t \in ts \/ Announced(PickAt(q, at), t)
  <2>1. PICK i \in DOMAIN q : q[i].k = "inval" /\ t \in q[i].ts
    BY <1>5 DEF Announced
  <2>2. CASE q[i].ts \subseteq ts
    BY <2>1, <2>2
  <2>3. CASE ~(q[i].ts \subseteq ts)
    <3>1. i \in at
      BY <2>1, <2>3
    <3> HIDE DEF at
    <3>2. PICK n \in DOMAIN PickAt(q, at) : PickAt(q, at)[n] = q[i]
      BY <1>2, <3>1 DEF Thins
    <3> QED  BY <2>1, <3>2 DEF Announced
  <2> QED  BY <2>2, <2>3
<1> HIDE DEF at, m
<1>6. IsSeq(PickAt(q, at)) /\ Telling(PickAt(q, at))
  BY <1>1, <1>2, Thinned
<1>7. /\ IsSeq(r) /\ Telling(r)
      /\ \A t : Announced(PickAt(q, at), t) => Announced(r, t)
      /\ \A t \in ts : Announced(r, t)
  BY <1>4, <1>6, Lengthened
<1> HIDE DEF r
<1>8. \A t : Announced(q, t) => Announced(r, t)
  BY <1>5, <1>7
<1>9. Calm(s, PutInval(s, ts))
  BY <1>3, <1>7, <1>8, QueueCalm
<1>10. PutInval(s, ts).queue = r
  BY <1>3 DEF Formed, Fields
<1> QED  BY <1>7, <1>9, <1>10

-----------------------------------------------------------------------------
(* wsd's session and requests *)

USE DEF Fields

(* A thinner queue still waits in order. *)
LEMMA WaitingWithin ==
    ASSUME NEW q, NEW r, Within(q, r), NEW t, NEW e, Waiting(q, t, e)
    PROVE  Waiting(r, t, e) /\ Adds(q, r, t, e)
<1>1. PICK h : /\ \A n \in DOMAIN r : h[n] \in DOMAIN q /\ r[n] = q[h[n]]
               /\ \A m, n \in DOMAIN r : m < n => h[m] < h[n]
  BY DEF Within
<1>2. \A j \in Carrying(r, t) : h[j] \in Carrying(q, t) /\ r[j] = q[h[j]] /\ j \in DOMAIN r
  BY <1>1 DEF Carrying
<1>3. ASSUME NEW i \in Carrying(r, t)
      PROVE  /\ Linked(r[i].fs) /\ Result(r[i]) \in Nat
             /\ e.here => Result(r[i]) <= Last(e.frames).c
             /\ \A j \in Carrying(r, t) : i < j => Result(r[i]) <= Result(r[j])
  BY <1>1, <1>2 DEF Waiting
<1> QED  BY <1>2, <1>3 DEF Waiting, Adds

(* If m is for t it ends with what the entry e has last. *)
Ends(m, t, e) ==
    m.k \in {"tile", "delta"} /\ m.t = t => Linked(m.fs) /\ e.here /\ Result(m) = Last(e.frames).c

(* Such a message joins the queue. *)
LEMMA WaitingAppend ==
    ASSUME NEW q, IsSeq(q), NEW t, NEW e, Waiting(q, t, e), NEW m, Rises(e), Ends(m, t, e)
    PROVE  Waiting(Append(q, m), t, e) /\ Adds(q, Append(q, m), t, e)
<1> DEFINE r == Append(q, m)
           n == Len(q)
<1>1. /\ n \in Nat /\ DOMAIN q = 1..n /\ DOMAIN r = 1..n+1
      /\ (\A i \in DOMAIN q : r[i] = q[i]) /\ r[n + 1] = m
  BY Appended
<1> HIDE DEF r, n
<1>2. \A j \in Carrying(r, t) :
         \/ j \in Carrying(q, t) /\ r[j] = q[j] /\ j \in 1..n
         \/ j = n + 1 /\ r[j] = m /\ m.k \in {"tile", "delta"} /\ m.t = t
  <2> SUFFICES ASSUME NEW j \in Carrying(r, t)
               PROVE  \/ j \in Carrying(q, t) /\ r[j] = q[j] /\ j \in 1..n
                      \/ j = n + 1 /\ r[j] = m /\ m.k \in {"tile", "delta"} /\ m.t = t
    OBVIOUS
  <2>1. j \in 1..n+1 /\ r[j].k \in {"tile", "delta"} /\ r[j].t = t
    BY <1>1 DEF Carrying
  <2>2. CASE j \in 1..n
    BY <1>1, <2>1, <2>2 DEF Carrying
  <2>3. CASE j \notin 1..n
    <3>1. j = n + 1
      BY <1>1, <2>1, <2>3
    <3> QED  BY <1>1, <2>1, <3>1
  <2> QED  BY <2>2, <2>3
<1>3. ASSUME NEW i \in Carrying(r, t)
      PROVE  /\ Linked(r[i].fs) /\ Result(r[i]) \in Nat
             /\ e.here => Result(r[i]) <= Last(e.frames).c
             /\ \A j \in Carrying(r, t) : i < j => Result(r[i]) <= Result(r[j])
  <2>1. CASE i \in Carrying(q, t) /\ r[i] = q[i] /\ i \in 1..n
    <3>1. /\ Linked(r[i].fs) /\ Result(r[i]) \in Nat
          /\ e.here => Result(r[i]) <= Last(e.frames).c
      BY <2>1 DEF Waiting
    <3>2. ASSUME NEW j \in Carrying(r, t), i < j PROVE Result(r[i]) <= Result(r[j])
      <4>1. CASE j \in Carrying(q, t) /\ r[j] = q[j]
        BY <2>1, <3>2, <4>1 DEF Waiting
      <4>2. CASE r[j] = m /\ m.k \in {"tile", "delta"} /\ m.t = t
        BY <3>1, <4>2 DEF Ends
      <4> QED  BY <1>2, <4>1, <4>2
    <3> QED  BY <3>1, <3>2
  <2>2. CASE i = n + 1 /\ r[i] = m /\ m.k \in {"tile", "delta"} /\ m.t = t
    <3>1. \A j \in Carrying(r, t) : ~(i < j)
      <4>1. \A j \in Carrying(r, t) : j \in 1..n \/ j = n + 1
        BY <1>2
      <4>2. \A j \in 1..n : ~(n + 1 < j)
        BY <1>1
      <4>3. ~(n + 1 < n + 1)
        BY <1>1
      <4> QED  BY <2>2, <4>1, <4>2, <4>3
    <3>2. Linked(m.fs) /\ e.here /\ Result(m) = Last(e.frames).c /\ Last(e.frames).c \in Nat
      BY <2>2 DEF Rises, Ends
    <3> QED  BY <2>2, <3>1, <3>2
  <2> QED  BY <1>2, <2>1, <2>2
<1>4. Waiting(r, t, e)
  BY <1>3 DEF Waiting
<1>5. Adds(q, r, t, e)
  BY <1>2 DEF Adds, Ends
<1> QED  BY <1>4, <1>5 DEF r

(* m ends with what the cache of s has last of its tile. *)
Latest(s, m) ==
    Outgoing(s) => \A t \in Tile : Ends(m, t, s.cache[t])

(* Such a message is put into the sender queue. *)
LEMMA EnqueuePasses ==
    ASSUME NEW s, NEW m, Latest(s, m), NEW q, Within(s.sendQ, q), NEW u, u.sendQ = Append(q, m),
           u.cache = s.cache, u.wire = s.wire, u.sent = s.sent
    PROVE  Passes(s, u)
<1> SUFFICES ASSUME Outgoing(s) PROVE Outgoing(u) /\ Sends(s, u)
  BY DEF Passes
<1>1. IsSeq(q) /\ IsSeq(u.sendQ)
  BY Appended DEF Within
<1>2. ASSUME NEW t \in Tile
      PROVE  /\ Rises(s.cache[t]) /\ Waiting(u.sendQ, t, s.cache[t])
             /\ Adds(s.sendQ, u.sendQ, t, s.cache[t])
  <2> DEFINE e == s.cache[t]
  <2>1. Rises(e) /\ Waiting(s.sendQ, t, e)
    BY DEF Outgoing
  <2>2. Ends(m, t, e)
    BY DEF Latest
  <2> HIDE DEF e
  <2>3. Waiting(q, t, e) /\ Adds(s.sendQ, q, t, e)
    BY <2>1, WaitingWithin
  <2>4. Waiting(u.sendQ, t, e) /\ Adds(q, u.sendQ, t, e)
    BY <1>1, <2>1, <2>2, <2>3, WaitingAppend
  <2>5. Adds(s.sendQ, u.sendQ, t, e)
    BY <2>3, <2>4, AddsTwice
  <2> QED  BY <2>1, <2>4, <2>5 DEF e
<1> QED  BY <1>1, <1>2 DEF Outgoing, Sends

(* enqueueSendMessage() changes only what belongs to the session. *)
LEMMA EnqueueIdle ==
    ASSUME NEW s, Formed(s), NEW m
    PROVE  LET u == EnqueueSendMessage(s, m)
           IN  /\ Idle(s, u) /\ u.wire = s.wire /\ u.sent = s.sent
               /\ u = s \/ u.sendQ = SenderEnqueue(s.sendQ, m)
BY DEF Idle, EnqueueSendMessage, Formed

(* It keeps pictures in order. *)
LEMMA EnqueueCalm ==
    ASSUME NEW s, Formed(s), NEW m, Latest(s, m) PROVE Calm(s, EnqueueSendMessage(s, m))
<1> DEFINE u == EnqueueSendMessage(s, m)
           q == s.sendQ
           same == {i \in DOMAIN q : q[i].k = "tile" /\ q[i].t = m.t}
           x == CHOOSE i \in same : \A j \in same : i <= j
           rest == IF m.k = "tile" /\ same # {} THEN RemoveAt(q, x) ELSE q
<1>1. /\ Idle(s, u) /\ u.wire = s.wire /\ u.sent = s.sent
      /\ u = s \/ u.sendQ = SenderEnqueue(q, m)
  BY EnqueueIdle
<1>2. SenderEnqueue(q, m) = Append(rest, m)
  <2> DEFINE cut == RemoveAt(q, x)
  <2>1. SenderEnqueue(q, m) = IF m.k = "tile" /\ same # {} THEN Append(cut, m) ELSE Append(q, m)
    BY DEF SenderEnqueue
  <2> HIDE DEF cut, same
  <2>2. rest = IF m.k = "tile" /\ same # {} THEN cut ELSE q
    BY DEF cut
  <2> HIDE DEF rest
  <2> QED  BY <2>1, <2>2
<1> HIDE DEF u
<1>3. Passes(s, u)
  <2>1. CASE u = s
    BY <2>1, SilentPasses DEF Silent
  <2>2. CASE ~Outgoing(s)
    BY <1>1, <2>2 DEF Passes
  <2>3. CASE u.sendQ = SenderEnqueue(q, m) /\ Outgoing(s)
    <3>1. IsSeq(q)
      BY <2>3 DEF Outgoing
    <3>2. Within(q, q)
      <4> DEFINE h == [n \in DOMAIN q |-> n]
      <4>1. /\ \A n \in DOMAIN q : h[n] \in DOMAIN q /\ q[n] = q[h[n]]
            /\ \A a, n \in DOMAIN q : a < n => h[a] < h[n]
        OBVIOUS
      <4> HIDE DEF h
      <4> QED  BY <3>1, <4>1 DEF Within
    <3>3. ASSUME same # {} PROVE Within(q, RemoveAt(q, x))
      <4>1. same \subseteq DOMAIN q
        OBVIOUS
      <4> HIDE DEF same
      <4>2. x \in DOMAIN q
        BY <3>1, <3>3, <4>1, FirstOf
      <4> HIDE DEF x
      <4> QED  BY <3>1, <4>2, Removed
    <3>4. Within(q, rest)
      <4> HIDE DEF same, x
      <4> QED  BY <3>2, <3>3
    <3> HIDE DEF rest
    <3> QED  BY <1>1, <1>2, <2>3, <3>4, EnqueuePasses DEF Idle
  <2> QED  BY <1>1, <2>1, <2>2, <2>3
<1>4. Same(s, u)
  BY <1>1, IdleSame
<1> QED  BY <1>3, <1>4 DEF Calm, u

(* Positions up to the last one are picked as they are. *)
LEMMA PickedEnd ==
    ASSUME NEW q, IsSeq(q), NEW at, at \subseteq DOMAIN q, at # {},
           \A i \in at, j \in DOMAIN q : i < j => j \in at
    PROVE  \E k \in 1..Len(q) :
              /\ PickAt(q, at) = [n \in 1..Len(q)-k+1 |-> q[n + k - 1]]
<1> DEFINE N == Len(q)
           k == CHOOSE i \in at : \A j \in at : i <= j
<1>1. N \in Nat /\ DOMAIN q = 1..N
  BY SeqParts
<1>2. k \in at /\ \A j \in at : k <= j
  <2>1. at \subseteq Nat
    BY <1>1
  <2> QED  BY <2>1, LeastOf
<1> HIDE DEF k, N
<1>3. k \in 1..N /\ k \in Nat
  BY <1>1, <1>2
<1>4. at = k..N
  <2>1. at \subseteq k..N
    BY <1>1, <1>2
  <2>2. ASSUME NEW j \in k..N PROVE j \in at
    <3>1. j \in DOMAIN q /\ (j = k \/ k < j)
      BY <1>1, <1>3
    <3> QED  BY <1>2, <3>1
  <2> QED  BY <2>1, <2>2
<1>5. Cardinality(at) = N - k + 1
  BY <1>1, <1>3, <1>4, FS_Interval
<1>6. ASSUME NEW i \in at PROVE Cardinality({j \in at : j <= i}) = i - k + 1
  <2>1. {j \in at : j <= i} = k..i /\ i \in Int /\ k <= i
    BY <1>1, <1>3, <1>4
  <2>2. Cardinality(k..i) = i - k + 1
    BY <1>3, <2>1, FS_Interval
  <2> QED  BY <2>1, <2>2
<1>7. ASSUME NEW n \in 1..N-k+1
      PROVE  (CHOOSE i \in at : Cardinality({j \in at : j <= i}) = n) = n + k - 1
  <2> DEFINE P(i) == i \in at /\ Cardinality({j \in at : j <= i}) = n
  <2>1. n + k - 1 \in at /\ (n + k - 1) - k + 1 = n
    BY <1>1, <1>3, <1>4
  <2>2. P(n + k - 1)
    BY <1>6, <2>1
  <2>3. ASSUME NEW i \in at, Cardinality({j \in at : j <= i}) = n PROVE i = n + k - 1
    <3>1. i - k + 1 = n /\ i \in Int
      BY <1>1, <1>3, <1>4, <1>6, <2>3
    <3> QED  BY <1>3, <3>1
  <2> QED  BY <2>2, <2>3
<1>8. PickAt(q, at) = [n \in 1..N-k+1 |-> q[n + k - 1]]
  <2> DEFINE nth(n) == CHOOSE i \in at : Cardinality({j \in at : j <= i}) = n
  <2>1. PickAt(q, at) = [n \in 1..N-k+1 |-> q[nth(n)]]
    BY <1>5 DEF PickAt
  <2>2. \A n \in 1..N-k+1 : nth(n) = n + k - 1
    BY <1>7
  <2> HIDE DEF nth
  <2> QED  BY <2>1, <2>2
<1> QED  BY <1>3, <1>8 DEF N

(* What the client lacks of an entry is a chain that ends with what the entry has last. *)
LEMMA RestLinked ==
    ASSUME NEW e, e.here, Rises(e), NEW last \in Nat,
           PickAt(e.frames, {i \in DOMAIN e.frames : e.frames[i].wid > last}) # <<>>
    PROVE  LET rest == PickAt(e.frames, {i \in DOMAIN e.frames : e.frames[i].wid > last})
           IN  Linked(rest) /\ Last(rest) = Last(e.frames)
<1> DEFINE fs == e.frames
           at == {i \in DOMAIN fs : fs[i].wid > last}
           rest == PickAt(fs, at)
           N == Len(fs)
<1>1. /\ IsSeq(fs) /\ fs # <<>> /\ N \in Nat /\ DOMAIN fs = 1..N
      /\ \A i \in 2..N : fs[i].from = fs[i - 1].c
  BY SeqParts DEF Rises, Linked
<1>2. at \subseteq DOMAIN fs
  OBVIOUS
<1>3. CASE at = {}
  <2>1. Cardinality(at) = 0
    BY <1>3, FS_EmptySet
  <2>2. rest = <<>>
    <3> HIDE DEF at
    <3> QED  BY <2>1 DEF PickAt
  <2> QED  BY <2>2
<1>4. CASE at # {}
  <2>1. \A i \in at, j \in DOMAIN fs : i < j => j \in at
    <3> SUFFICES ASSUME NEW i \in at, NEW j \in DOMAIN fs, i < j PROVE fs[j].wid > last
      OBVIOUS
    <3>1. i \in DOMAIN fs /\ fs[i].wid > last /\ fs[i].wid < fs[j].wid
          /\ fs[i].wid \in Nat /\ fs[j].wid \in Nat
      BY DEF Rises
    <3> QED  BY <3>1
  <2>2. PICK k \in 1..N : rest = [n \in 1..N-k+1 |-> fs[n + k - 1]]
    <3> HIDE DEF at, fs
    <3>1. \E k \in 1..Len(fs) : PickAt(fs, at) = [n \in 1..Len(fs)-k+1 |-> fs[n + k - 1]]
      BY <1>1, <1>2, <1>4, <2>1, PickedEnd
    <3> QED  BY <3>1
  <2> HIDE DEF rest, at, fs, N
  <2>3. N - k + 1 \in Nat /\ N - k + 1 >= 1 /\ k \in Nat
    BY <1>1
  <2>4. IsSeq(rest) /\ Len(rest) = N - k + 1
    <3> DEFINE L == N - k + 1
    <3>1. L \in Nat /\ rest = [n \in 1..L |-> fs[n + k - 1]]
      BY <2>2, <2>3
    <3> HIDE DEF L
    <3>2. rest = [n \in 1..L |-> rest[n]]
      BY <3>1
    <3>3. IsSeq(rest) /\ Len(rest) = L
      BY <3>1, <3>2, SeqByDomain
    <3> QED  BY <3>3 DEF L
  <2>5. rest # <<>>
    BY <2>3, <2>4
  <2>6. ASSUME NEW i \in 2..Len(rest) PROVE rest[i].from = rest[i - 1].c
    <3>1. i \in 1..N-k+1 /\ i - 1 \in 1..N-k+1 /\ i + k - 1 \in 2..N
          /\ (i - 1) + k - 1 = (i + k - 1) - 1
      <4>1. k >= 1 /\ k <= N /\ i >= 2 /\ i <= N - k + 1 /\ i \in Int /\ k \in Int /\ N \in Int
        BY <1>1, <2>3, <2>4
      <4> HIDE DEF N
      <4> QED  BY ONLY <4>1
    <3> QED  BY <1>1, <2>2, <3>1
  <2>7. rest[Len(rest)] = fs[N]
    <3>1. N - k + 1 \in 1..N-k+1 /\ (N - k + 1) + k - 1 = N
      BY <1>1, <2>3
    <3> QED  BY <2>2, <2>4, <3>1
  <2>8. Linked(rest) /\ Last(rest) = Last(fs)
    BY <2>4, <2>5, <2>6, <2>7 DEF Linked, Last, N
  <2> QED  BY <2>8 DEF rest, at, fs
<1> QED  BY <1>3, <1>4

(* sendTile() of a tile the cache has. *)
LEMMA SendTileCalm ==
    ASSUME NEW s, Formed(s), NEW t, t \in Tile => s.cache[t].here, NEW wid \in Nat
    PROVE  Calm(s, SendTile(s, t, wid))
<1> DEFINE u == [s EXCEPT !.sent[t] = wid]
           fs == s.cache[t].frames
           rest == PickAt(fs, {i \in DOMAIN fs : fs[i].wid > s.sent[t]})
           m == [k |-> IF s.sent[t] < fs[1].wid THEN "tile" ELSE "delta",
                 t |-> t, wid |-> wid, fs |-> rest]
<1>1. Quiet(s, u)
  BY DEF Quiet, Idle, Silent, Formed
<1>2. SendTile(s, t, wid) = IF rest = <<>> THEN u ELSE EnqueueSendMessage(u, m)
  BY Zenon DEF SendTile
<1>3. m.t = t /\ m.fs = rest
  OBVIOUS
<1> HIDE DEF u, m
<1>4. Calm(s, u) /\ Formed(u) /\ u.cache = s.cache
  BY <1>1, QuietCalm DEF Calm, Same
<1> DEFINE v == EnqueueSendMessage(u, m)
<1>5. ASSUME rest # <<>>, Outgoing(s) PROVE Calm(s, v)
  <2>1. ASSUME t \in Tile
        PROVE  Linked(rest) /\ u.cache[t].here /\ Last(rest) = Last(u.cache[t].frames)
    <3> DEFINE e == s.cache[t]
               last == s.sent[t]
    <3>1. Rises(e) /\ e.here /\ last \in Nat
      BY <1>5, <2>1 DEF Outgoing
    <3>2. rest = PickAt(e.frames, {i \in DOMAIN e.frames : e.frames[i].wid > last})
      OBVIOUS
    <3> HIDE DEF e, last, rest
    <3>3. Linked(rest) /\ Last(rest) = Last(e.frames)
      BY <1>5, <3>1, <3>2, RestLinked
    <3> QED  BY <1>4, <3>1, <3>3 DEF e
  <2>2. Latest(u, m)
    <3> HIDE DEF rest
    <3> QED  BY <1>3, <2>1 DEF Latest, Ends, Result
  <2> QED  BY <1>4, <2>2, EnqueueCalm, CalmTwice
<1>6. ASSUME ~Outgoing(s) PROVE Calm(s, v)
  <2>1. Idle(u, v) /\ v.wire = u.wire
    BY <1>4, EnqueueIdle
  <2>2. Idle(s, v) /\ v.wire = s.wire
    BY <1>1, <2>1 DEF Quiet, Idle, Silent
  <2> QED  BY <1>6, <2>2, IdleSame DEF Calm, Passes
<1> HIDE DEF rest, v
<1> QED  BY <1>2, <1>4, <1>5, <1>6 DEF v

(* subscribeToTileRendering() changes only the subscriptions. *)
LEMMA SubscribeQuiet ==
    ASSUME NEW s, DOMAIN s = Fields, NEW t, NEW ver PROVE Quiet(s, Subscribe(s, t, ver))
BY DEF Quiet, Idle, Silent, Subscribe

(* removeOutdatedTilesOnFly() changes only what is on the fly. *)
LEMMA RemoveOutdatedQuiet ==
    ASSUME NEW s, DOMAIN s = Fields PROVE Quiet(s, RemoveOutdated(s))
BY DEF Quiet, Idle, Silent, RemoveOutdated

(* cancelTiles() changes only the subscriptions. *)
LEMMA CancelRenderingCalm ==
    ASSUME NEW s, Formed(s) PROVE Calm(s, CancelRendering(s))
<1>1. Quiet(s, CancelRendering(s))
  BY DEF Quiet, Idle, Silent, Formed, CancelRendering
<1> QED  BY <1>1, QuietCalm

(* The variables of the loop of sendRequestedTiles(). *)
Loop(s, st) ==
    /\ DOMAIN st = {"s", "being", "delayed", "render"}
    /\ Calm(s, st.s) /\ IsSeq(st.render)

(* One turn of it. *)
LEMMA ServingStep ==
    ASSUME NEW s0, NEW st, Loop(s0, st), NEW x PROVE Loop(s0, SendRequestedTile(st, x))
<1> DEFINE s == st.s
           r == Head(s.requested)
           t == r.t
           r1 == [r EXCEPT !.ver = s.ver + 1, !.old = IF s.cache[t].here THEN @ ELSE 0]
           popped == [s EXCEPT !.requested = Tail(@)]
           turned == [s EXCEPT !.requested = Append(Tail(@), r)]
           bumped == [popped EXCEPT !.ver = @ + 1]
           st1 == [st EXCEPT !.s.requested = Append(Tail(@), r), !.delayed = @ + 1]
           st2 == [st EXCEPT !.s = SendTile(popped, t, 0)]
           st3 == [st EXCEPT !.s = Subscribe(bumped, t, r1.ver),
                             !.being = @ + 1, !.render = Append(@, r1)]
           st4 == [st EXCEPT !.s = Subscribe(popped, t, r.ver), !.being = @ + 1]
           u == SendRequestedTile(st, x)
<1>1. \/ u = st
      \/ s.requested # <<>> /\ (u \in {st1, st3, st4} \/ (u = st2 /\ IsValid(s, t)))
  <2> DEFINE again == \/ ~(s.rendering[t].here /\ ~s.rendering[t].stale)
                      \/ s.rendering[t].ver < r.ver
             stop == \/ Len(s.onFly) + st.being >= Limit
                     \/ s.requested = <<>>
                     \/ st.delayed >= Len(s.requested)
  <2>1. u = IF stop THEN st ELSE IF IdenticalOnFly(s, t) >= 2 THEN st1
            ELSE IF IsValid(s, t) THEN st2 ELSE IF again THEN st3 ELSE st4
    BY Zenon DEF SendRequestedTile
  <2>2. ~stop => s.requested # <<>>
    OBVIOUS
  <2> HIDE DEF st1, st2, st3, st4, u, again, stop, s, t
  <2> QED  BY <2>1, <2>2, Zenon
<1>2. Formed(s) /\ Calm(s0, s) /\ DOMAIN s = Fields
  BY DEF Loop, Calm, Same, Formed
<1>3. CASE u = st
  BY <1>3
<1>4. CASE s.requested # <<>> /\ (u \in {st1, st3, st4} \/ (u = st2 /\ IsValid(s, t)))
  <2>1. IsSeq(Tail(s.requested)) /\ IsSeq(Append(Tail(s.requested), r))
    BY <1>2, <1>4, Shortened, Appended DEF Formed
  <2>2. Calm(s, popped) /\ Calm(s, turned)
    BY <1>2, <2>1, RequestsCalm
  <2>3. Calm(popped, bumped)
    <3>1. Quiet(popped, bumped)
      BY <2>2 DEF Quiet, Idle, Silent, Calm, Same, Formed
    <3> QED  BY <2>2, <3>1, QuietCalm DEF Calm, Same
  <2>4. DOMAIN popped = Fields /\ DOMAIN bumped = Fields
    BY <2>2, <2>3 DEF Calm, Same, Formed
  <2> DEFINE v2 == SendTile(popped, t, 0)
             v3 == Subscribe(bumped, t, r1.ver)
             v4 == Subscribe(popped, t, r.ver)
  <2>5. Quiet(bumped, v3) /\ Quiet(popped, v4)
    <3> HIDE DEF popped, bumped, r, r1, t
    <3> QED  BY <2>4, SubscribeQuiet
  <2>6. /\ DOMAIN st1 = DOMAIN st /\ st1.s = turned /\ st1.render = st.render
        /\ DOMAIN st2 = DOMAIN st /\ st2.s = v2 /\ st2.render = st.render
        /\ DOMAIN st3 = DOMAIN st /\ st3.s = v3 /\ st3.render = Append(st.render, r1)
        /\ DOMAIN st4 = DOMAIN st /\ st4.s = v4 /\ st4.render = st.render
    <3> HIDE DEF v2, v3, v4, r, r1
    <3> QED  BY DEF Loop, v2, v3, v4
  <2> HIDE DEF v2, v3, v4, popped, bumped, turned, st1, st2, st3, st4, r, r1, t, u
  <2>7. (IsValid(s, t) => Calm(popped, v2)) /\ Calm(bumped, v3) /\ Calm(popped, v4)
    <3>1. Calm(bumped, v3) /\ Calm(popped, v4)
      BY <2>2, <2>3, <2>5, QuietCalm DEF Calm, Same
    <3>2. ASSUME IsValid(s, t) PROVE Calm(popped, v2)
      <4>1. t \in Tile => popped.cache[t].here
        BY <2>2, <3>2 DEF IsValid, Calm, Same
      <4> QED  BY <2>2, <4>1, SendTileCalm, CalmForm DEF v2
    <3> QED  BY <3>1, <3>2
  <2>8. (IsValid(s, t) => Calm(s, v2)) /\ Calm(s, v3) /\ Calm(s, v4)
    <3>1. Calm(s, bumped)
      BY <2>2, <2>3, CalmTwice
    <3> QED  BY <2>2, <2>7, <3>1, CalmTwice
  <2>9. (IsValid(s, t) => Calm(s0, v2)) /\ Calm(s0, v3) /\ Calm(s0, v4) /\ Calm(s0, turned)
    BY <1>2, <2>2, <2>8, CalmTwice
  <2>10. IsSeq(st.render) /\ IsSeq(Append(st.render, r1))
    BY Appended DEF Loop
  <2>11. Loop(s0, st1) /\ (IsValid(s, t) => Loop(s0, st2))
    BY <2>6, <2>9, <2>10 DEF Loop
  <2>12. Loop(s0, st3) /\ Loop(s0, st4)
    BY <2>6, <2>9, <2>10 DEF Loop
  <2>13. Loop(s0, u)
    BY <1>4, <2>11, <2>12
  <2> QED  BY <2>13 DEF u
<1> QED  BY <1>1, <1>3, <1>4

(* The loop, and the requests it leads to. *)
LEMMA SendRequestedTilesCalm ==
    ASSUME NEW s, Formed(s) PROVE Calm(s, SendRequestedTiles(s))
<1> DEFINE s0 == RemoveOutdated(s)
           base == [s |-> s0, being |-> BeingRendered(s0), delayed |-> 0, render |-> <<>>]
           turns == [i \in 1..(2 * Len(s0.requested)) |-> i]
           st == FoldLeft(SendRequestedTile, base, turns)
<1>1. Calm(s, s0) /\ Formed(s0)
  BY RemoveOutdatedQuiet, QuietCalm DEF Formed, Calm, Same
<1>2. SendRequestedTiles(s) = PutTiles(st.s, st.render)
  BY DEF SendRequestedTiles
<1>3. Loop(s, base)
  <2>1. IsSeq(<<>>)
    BY DEF IsSeq
  <2> HIDE DEF s0
  <2> QED  BY <1>1, <2>1 DEF Loop
<1>4. 2 * Len(s0.requested) \in Nat
  BY <1>1, SeqParts DEF Formed
<1>5. turns \in Seq(Nat) /\ Len(turns) = 2 * Len(s0.requested)
  <2> DEFINE n == 2 * Len(s0.requested)
  <2> HIDE DEF n
  <2> QED  BY <1>4 DEF n
<1> HIDE DEF turns, base
<1>6. PICK r : Serving!IsRun(r, base, turns) /\ Serving!Fold(base, turns) = r[Len(turns)]
  BY <1>5, Serving!FoldRuns
<1>7. st = Serving!Fold(base, turns)
  BY DEF FoldLeft, MapThenFoldSet, Max, Serving!Max, Serving!Fold
<1> HIDE DEF st
<1> DEFINE T == {i \in Nat : Loop(s, r[i])}
<1>8. 0 \in T
  BY <1>3, <1>6 DEF Serving!IsRun
<1>9. ASSUME NEW i \in Nat, i + 1 <= Len(turns), i \in T PROVE i + 1 \in T
  <2>1. r[i + 1] = SendRequestedTile(r[i], turns[i + 1])
    <3>1. i + 1 \in 1..Len(turns) /\ (i + 1) - 1 = i
      BY <1>4, <1>5, <1>9
    <3> QED  BY <1>6, <3>1 DEF Serving!IsRun
  <2> QED  BY <1>9, <2>1, ServingStep
<1>10. Len(turns) \in T
  <2> HIDE DEF T
  <2> QED  BY <1>4, <1>5, <1>8, <1>9, StepsTo
<1>11. Loop(s, st)
  BY <1>6, <1>7, <1>10
<1>12. Calm(s, st.s) /\ Calm(st.s, PutTiles(st.s, st.render))
  BY <1>11, PutTilesCalm DEF Loop, Calm, Same
<1> QED  BY <1>2, <1>12, CalmTwice

(* The variables of the loop of handleTileCombinedRequest(). *)
Order(s, st) ==
    /\ DOMAIN st = {"s", "force", "reqs", "render"}
    /\ Calm(s, st.s) /\ IsSeq(st.reqs) /\ IsSeq(st.render)

(* One turn of it. *)
LEMMA RequestingStep ==
    ASSUME NEW s0, NEW st, Order(s0, st), NEW r0 PROVE Order(s0, RequestTile(st, r0))
<1> DEFINE s == st.s
           t == r0.t
           r == [r0 EXCEPT !.ver = s.ver + 1, !.old = IF s.cache[t].here THEN @ ELSE 0]
           s1 == [s EXCEPT !.ver = @ + 1, !.sent[t] = IF st.force THEN 0 ELSE @]
           s2 == Subscribe(s1, t, r.ver)
           r1 == [r EXCEPT !.old = r0.old]
           st1 == [st EXCEPT !.s = s1, !.reqs = Append(@, r1)]
           st2 == [st EXCEPT !.s = s2, !.reqs = Append(@, r), !.render = Append(@, r)]
<1>1. RequestTile(st, r0) = st1 \/ RequestTile(st, r0) = st2
  BY DEF RequestTile
<1>2. Formed(s) /\ Calm(s0, s) /\ DOMAIN s = Fields
  BY DEF Order, Calm, Same, Formed
<1>3. Quiet(s, s1) /\ DOMAIN s1 = Fields
  BY <1>2 DEF Quiet, Idle, Silent
<1>4. Quiet(s1, s2)
  <2> HIDE DEF s1, r
  <2> QED  BY <1>3, SubscribeQuiet
<1>5. /\ DOMAIN st1 = DOMAIN st /\ st1.s = s1 /\ st1.reqs = Append(st.reqs, r1) /\ st1.render = st.render
      /\ DOMAIN st2 = DOMAIN st /\ st2.s = s2 /\ st2.reqs = Append(st.reqs, r)
      /\ st2.render = Append(st.render, r)
  <2> HIDE DEF s1, s2, r, r1
  <2> QED  BY DEF Order
<1>6. /\ IsSeq(st.render) /\ IsSeq(Append(st.render, r))
      /\ IsSeq(Append(st.reqs, r)) /\ IsSeq(Append(st.reqs, r1))
  BY Appended DEF Order
<1> HIDE DEF s1, s2, st1, st2, r, r1
<1>7. Calm(s, s1) /\ Calm(s1, s2)
  BY <1>2, <1>3, <1>4, QuietCalm DEF Calm, Same
<1>8. Calm(s0, s1) /\ Calm(s0, s2)
  BY <1>2, <1>7, CalmTwice
<1>9. Order(s0, st1) /\ Order(s0, st2)
  BY <1>5, <1>6, <1>8 DEF Order
<1> QED  BY <1>1, <1>9

(* A new request joins the waiting ones. *)
LEMMA AccumulateSeq ==
    ASSUME NEW q, IsSeq(q), NEW r PROVE IsSeq(Accumulate(q, r))
<1> DEFINE same == {i \in DOMAIN q : q[i].t[2] = r.t[2]}
           x == CHOOSE i \in same : \A j \in same : i <= j
           u == [q EXCEPT ![x].ver = r.ver, ![x].old = r.old]
<1>1. Accumulate(q, r) = Append(q, r) \/ Accumulate(q, r) = u
  BY DEF Accumulate
<1>2. Len(q) \in Nat /\ DOMAIN q = 1..Len(q)
  BY SeqParts
<1>3. u = [i \in 1..Len(q) |-> u[i]]
  <2> HIDE DEF x
  <2> QED  BY <1>2
<1> HIDE DEF u
<1>4. IsSeq(u) /\ IsSeq(Append(q, r))
  BY <1>2, <1>3, SeqByDomain, Appended
<1> QED  BY <1>1, <1>4

(* All new requests join them. *)
LEMMA GatherSeq ==
    ASSUME NEW q, IsSeq(q), NEW rs, IsSeq(rs) PROVE IsSeq(FoldLeft(Accumulate, q, rs))
<1>1. PICK S : rs \in Seq(S)
  BY DEF IsSeq
<1>2. Len(rs) \in Nat
  BY SeqParts
<1>3. PICK r : Gathering!IsRun(r, q, rs) /\ Gathering!Fold(q, rs) = r[Len(rs)]
  BY <1>1, Gathering!FoldRuns
<1>4. FoldLeft(Accumulate, q, rs) = Gathering!Fold(q, rs)
  BY DEF FoldLeft, MapThenFoldSet, Max, Gathering!Max, Gathering!Fold
<1> DEFINE T == {i \in Nat : IsSeq(r[i])}
<1>5. 0 \in T
  BY <1>3 DEF Gathering!IsRun
<1>6. ASSUME NEW i \in Nat, i + 1 <= Len(rs), i \in T PROVE i + 1 \in T
  <2>1. r[i + 1] = Accumulate(r[i], rs[i + 1])
    <3>1. i + 1 \in 1..Len(rs) /\ (i + 1) - 1 = i
      BY <1>2, <1>6
    <3> QED  BY <1>3, <3>1 DEF Gathering!IsRun
  <2> QED  BY <1>6, <2>1, AccumulateSeq
<1>7. Len(rs) \in T
  <2> HIDE DEF T
  <2> QED  BY <1>2, <1>5, <1>6, StepsTo
<1> QED  BY <1>3, <1>4, <1>7

(* handleTileCombinedRequest() *)
LEMMA CombinedRequestCalm ==
    ASSUME NEW s, Formed(s), NEW ts, IsSeq(ts), NEW force
    PROVE  Calm(s, HandleTileCombinedRequest(s, ts, force))
<1> DEFINE old(t) == IF force \/ s.oldWid[t] = NoWid THEN 0 ELSE s.oldWid[t]
           base == [s |-> s, force |-> force, reqs |-> <<>>, render |-> <<>>]
           rs == [i \in DOMAIN ts |-> [t |-> ts[i], ver |-> 0, old |-> old(ts[i])]]
           st == FoldLeft(RequestTile, base, rs)
           s1 == PutTiles(st.s, st.render)
           waiting == IF s1.requested = <<>> THEN st.reqs ELSE FoldLeft(Accumulate, s1.requested, st.reqs)
           s2 == [s1 EXCEPT !.requested = waiting]
<1>1. HandleTileCombinedRequest(s, ts, force) = SendRequestedTiles(s2)
  BY DEF HandleTileCombinedRequest
<1>2. Len(ts) \in Nat /\ DOMAIN ts = 1..Len(ts)
  BY SeqParts
<1>3. IsSeq(rs) /\ Len(rs) \in Nat
  <2>1. rs = [i \in 1..Len(ts) |-> rs[i]]
    <3> HIDE DEF old
    <3> QED  BY <1>2
  <2> HIDE DEF rs
  <2> QED  BY <1>2, <2>1, SeqByDomain
<1>4. Order(s, base)
  <2>1. IsSeq(<<>>) /\ Calm(s, s)
    BY CalmSelf DEF IsSeq
  <2> QED  BY <2>1 DEF Order
<1> HIDE DEF rs, base
<1>5. PICK S : rs \in Seq(S)
  BY <1>3 DEF IsSeq
<1>6. PICK r : Requesting!IsRun(r, base, rs) /\ Requesting!Fold(base, rs) = r[Len(rs)]
  BY <1>5, Requesting!FoldRuns
<1>7. st = Requesting!Fold(base, rs)
  BY DEF FoldLeft, MapThenFoldSet, Max, Requesting!Max, Requesting!Fold
<1> HIDE DEF st
<1> DEFINE T == {i \in Nat : Order(s, r[i])}
<1>8. 0 \in T
  BY <1>4, <1>6 DEF Requesting!IsRun
<1>9. ASSUME NEW i \in Nat, i + 1 <= Len(rs), i \in T PROVE i + 1 \in T
  <2>1. r[i + 1] = RequestTile(r[i], rs[i + 1])
    <3>1. i + 1 \in 1..Len(rs) /\ (i + 1) - 1 = i
      BY <1>3, <1>9
    <3> QED  BY <1>6, <3>1 DEF Requesting!IsRun
  <2> QED  BY <1>9, <2>1, RequestingStep
<1>10. Len(rs) \in T
  <2> HIDE DEF T
  <2> QED  BY <1>3, <1>8, <1>9, StepsTo
<1>11. Order(s, st)
  BY <1>6, <1>7, <1>10
<1>12. Calm(s, s1) /\ Formed(s1)
  <2>1. Calm(st.s, s1)
    BY <1>11, PutTilesCalm DEF Order, Calm, Same
  <2> HIDE DEF s1
  <2> QED  BY <1>11, <2>1, CalmTwice DEF Order, Calm, Same
<1>13. IsSeq(waiting)
  <2> HIDE DEF s1
  <2> QED  BY <1>11, <1>12, GatherSeq DEF Order, Formed
<1>14. Calm(s1, s2)
  <2> HIDE DEF s1, waiting
  <2> QED  BY <1>12, <1>13, RequestsCalm
<1>15. Calm(s2, SendRequestedTiles(s2))
  <2> HIDE DEF s2
  <2> QED  BY <1>14, SendRequestedTilesCalm DEF Calm, Same
<1> HIDE DEF s1, s2
<1> QED  BY <1>1, <1>12, <1>14, <1>15, CalmTwice

(* "canceltiles" *)
LEMMA CancelTileRequestsCalm ==
    ASSUME NEW s, Formed(s) PROVE Calm(s, CancelTileRequests(s))
<1> DEFINE u == [s EXCEPT !.requested = <<>>]
           v == [s EXCEPT !.onFly = <<>>, !.requested = <<>>, !.oldWid = NoWids]
<1>1. CancelTileRequests(s) = CancelRendering(v)
  BY DEF CancelTileRequests
<1>2. Calm(s, u)
  <2>1. IsSeq(<<>>)
    BY DEF IsSeq
  <2> QED  BY <2>1, RequestsCalm
<1>3. Quiet(u, v)
  BY DEF Formed, Quiet, Idle, Silent
<1> HIDE DEF u, v
<1>4. Calm(u, v)
  BY <1>2, <1>3, QuietCalm DEF Calm, Same
<1>5. Calm(v, CancelRendering(v))
  BY <1>4, CancelRenderingCalm DEF Calm, Same
<1> QED  BY <1>1, <1>2, <1>4, <1>5, CalmTwice

(* "tileprocessed" *)
LEMMA TileProcessedCalm ==
    ASSUME NEW s, Formed(s), NEW t PROVE Calm(s, TileProcessed(s, t))
<1> DEFINE same == {i \in DOMAIN s.onFly : s.onFly[i].t = t}
           u == IF same = {} THEN s
                ELSE [s EXCEPT !.onFly = RemoveAt(@, CHOOSE i \in same : \A j \in same : i <= j)]
<1>1. TileProcessed(s, t) = SendRequestedTiles(u)
  BY DEF TileProcessed
<1>2. Quiet(s, u)
  <2> DEFINE v == [s EXCEPT !.onFly = RemoveAt(@, CHOOSE i \in same : \A j \in same : i <= j)]
  <2>1. Quiet(s, s) /\ Quiet(s, v)
    BY DEF Quiet, Idle, Silent, Formed
  <2> QED  BY <2>1
<1> HIDE DEF u
<1>3. Calm(s, u)
  BY <1>2, QuietCalm
<1>4. Calm(u, SendRequestedTiles(u))
  BY <1>3, SendRequestedTilesCalm DEF Calm, Same
<1> QED  BY <1>1, <1>3, <1>4, CalmTwice

(* "clientvisiblearea" and "setclientpart" *)
LEMMA SetVisibleAreaCalm == ASSUME NEW s, Formed(s), NEW a PROVE Calm(s, SetVisibleArea(s, a))
<1>1. Quiet(s, SetVisibleArea(s, a))
  BY DEF Quiet, Idle, Silent, SetVisibleArea, Formed
<1> QED  BY <1>1, QuietCalm

(* "setclientpart" changes only what belongs to the session. *)
LEMMA SetClientPartCalm == ASSUME NEW s, Formed(s), NEW p PROVE Calm(s, SetClientPart(s, p))
<1>1. Quiet(s, SetClientPart(s, p))
  BY DEF Quiet, Idle, Silent, SetClientPart, Formed
<1> QED  BY <1>1, QuietCalm

-----------------------------------------------------------------------------
(* The browser: what it asks wsd for *)

PageFields == {"tiles", "tileCache", "part", "dir", "area", "sentArea", "empty", "partPrefetch",
               "active", "joining"}
USE DEF PageFields

(* What the layer holds of a tile is nothing, or shows nothing, or shows the picture x. *)
Showing(img, x) == img = Blank \/ img = x
Drawn(tile, x) ==
    \/ tile = NoTile
    \/ /\ DOMAIN tile = {"here", "current", "inv", "loaded", "img"} /\ tile.here = TRUE
       /\ Showing(tile.img, x)

(* The layer shows the area a, and has one picture of each tile: pic. *)
Page(c, a, pic) ==
    /\ DOMAIN c = PageFields /\ c.area = a
    /\ c.tiles = [t \in Tile |-> c.tiles[t]] /\ c.tileCache = [t \in Tile |-> c.tileCache[t]]
    /\ \A t \in Tile : Drawn(c.tiles[t], pic[t]) /\ Showing(c.tileCache[t], pic[t])

(* A tile that is held keeps its picture when a flag or the count of it changes. *)
LEMMA DrawnFlag ==
    ASSUME NEW tile, NEW x, Drawn(tile, x), tile.here, NEW y
    PROVE  /\ Drawn([tile EXCEPT !.inv = y], x)
           /\ Drawn([tile EXCEPT !.current = y], x)
<1>1. DOMAIN tile = {"here", "current", "inv", "loaded", "img"} /\ tile.here = TRUE
      /\ Showing(tile.img, x)
  BY DEF Drawn, NoTile
<1> DEFINE u == [tile EXCEPT !.inv = y]
           v == [tile EXCEPT !.current = y]
<1>2. DOMAIN u = DOMAIN tile /\ u.here = TRUE /\ u.img = tile.img
  BY <1>1
<1>3. DOMAIN v = DOMAIN tile /\ v.here = TRUE /\ v.img = tile.img
  BY <1>1
<1> HIDE DEF u, v
<1>4. Drawn(u, x) /\ Drawn(v, x)
  BY <1>1, <1>2, <1>3 DEF Drawn
<1> QED  BY <1>4 DEF u, v

(* Only the tiles the layer holds change. *)
LEMMA TilesPage ==
    ASSUME NEW a, NEW pic, NEW c, Page(c, a, pic), NEW d, DOMAIN d = PageFields,
           d.area = c.area, d.tileCache = c.tileCache, d.tiles = [t \in Tile |-> d.tiles[t]],
           \A t \in Tile : Drawn(d.tiles[t], pic[t])
    PROVE  Page(d, a, pic)
BY DEF Page

(* Neither they nor what is kept beside them change. *)
LEMMA SamePage ==
    ASSUME NEW a, NEW pic, NEW c, Page(c, a, pic), NEW d, DOMAIN d = PageFields,
           d.area = c.area, d.tileCache = c.tileCache, d.tiles = c.tiles
    PROVE  Page(d, a, pic)
BY DEF Page

(* Removing and creating tiles does not scroll, and draws nothing new. *)
LEMMA RemoveTilePage ==
    ASSUME NEW a, NEW pic, NEW c, Page(c, a, pic), NEW t
    PROVE  Page(RemoveTile(c, t), a, pic)
<1> DEFINE tile == c.tiles[t]
           old == c.tileCache[t]
           img == IF tile.inv = 0 /\ tile.img # Blank THEN tile.img ELSE old
           n == IF ~tile.loaded /\ c.empty > 0 THEN c.empty - 1 ELSE c.empty
           d == [c EXCEPT !.tiles[t] = NoTile, !.tileCache[t] = img, !.empty = n]
<1>1. RemoveTile(c, t) = IF ~tile.here THEN c ELSE d
  <2>1. d = [c EXCEPT !.tiles[t] = NoTile,
                      !.tileCache[t] = IF tile.inv = 0 /\ tile.img # Blank THEN tile.img ELSE @,
                      !.empty = IF ~tile.loaded /\ @ > 0 THEN @ - 1 ELSE @]
    OBVIOUS
  <2> QED  BY <2>1 DEF RemoveTile
<1>2. t \in Tile /\ tile.here => Showing(img, pic[t])
  BY DEF Page, Drawn, Showing, NoTile
<1> HIDE DEF img, n
<1>3. /\ DOMAIN d = PageFields /\ d.area = c.area
      /\ d.tiles = [c.tiles EXCEPT ![t] = NoTile]
      /\ d.tileCache = [c.tileCache EXCEPT ![t] = img]
  BY DEF Page
<1> HIDE DEF d
<1>4. /\ d.tiles = [x \in Tile |-> d.tiles[x]] /\ d.tileCache = [x \in Tile |-> d.tileCache[x]]
      /\ \A x \in Tile : /\ d.tiles[x] = IF x = t THEN NoTile ELSE c.tiles[x]
                         /\ d.tileCache[x] = IF x = t THEN img ELSE c.tileCache[x]
  BY <1>3 DEF Page
<1>5. ASSUME tile.here PROVE Page(d, a, pic)
  <2>1. Drawn(NoTile, pic[t])
    BY DEF Drawn
  <2>2. ASSUME NEW x \in Tile PROVE Drawn(d.tiles[x], pic[x]) /\ Showing(d.tileCache[x], pic[x])
    BY <1>2, <1>4, <1>5, <2>1 DEF Page
  <2> QED  BY <1>3, <1>4, <2>2 DEF Page
<1> QED  BY <1>1, <1>5

(* createTile() does not either: it shows what _tileCache has. *)
LEMMA CreateTilePage ==
    ASSUME NEW a, NEW pic, NEW c, Page(c, a, pic), NEW t
    PROVE  Page(CreateTile(c, t), a, pic)
<1> DEFINE tile == [here |-> TRUE, current |-> TRUE, inv |-> 0,
                    loaded |-> c.tileCache[t] # Blank, img |-> c.tileCache[t]]
           d == [c EXCEPT !.tiles[t] = tile, !.empty = @ + 1]
<1>1. CreateTile(c, t) = IF c.tiles[t].here THEN c ELSE d
  BY DEF CreateTile
<1>2. t \in Tile => Drawn(tile, pic[t])
  <2>1. /\ DOMAIN tile = {"here", "current", "inv", "loaded", "img"} /\ tile.here = TRUE
        /\ tile.img = c.tileCache[t]
    OBVIOUS
  <2> HIDE DEF tile
  <2> QED  BY <2>1 DEF Drawn, Page
<1> HIDE DEF tile
<1>3. /\ DOMAIN d = PageFields /\ d.area = c.area /\ d.tileCache = c.tileCache
      /\ d.tiles = [c.tiles EXCEPT ![t] = tile]
  BY DEF Page
<1> HIDE DEF d
<1>4. /\ d.tiles = [x \in Tile |-> d.tiles[x]]
      /\ \A x \in Tile : d.tiles[x] = IF x = t THEN tile ELSE c.tiles[x]
  BY <1>3 DEF Page
<1>5. \A x \in Tile : Drawn(d.tiles[x], pic[x])
  BY <1>2, <1>4 DEF Page
<1>6. Page(d, a, pic)
  BY <1>3, <1>4, <1>5, TilesPage
<1> QED  BY <1>1, <1>6

(* Nor does a loop of _removeTile(). *)
LEMMA RemoveTilesPage ==
    ASSUME NEW a, NEW pic, NEW c, Page(c, a, pic), NEW ts, IsFiniteSet(ts)
    PROVE  Page(FoldLeft(RemoveTile, c, Sorted(ts)), a, pic)
<1> DEFINE rs == Sorted(ts)
<1>1. IsSeq(rs) /\ Len(rs) \in Nat
  BY SortedSeq, SeqParts
<1> HIDE DEF rs
<1>2. PICK S : rs \in Seq(S)
  BY <1>1 DEF IsSeq
<1>3. PICK r : Removing!IsRun(r, c, rs) /\ Removing!Fold(c, rs) = r[Len(rs)]
  BY <1>2, Removing!FoldRuns
<1>4. FoldLeft(RemoveTile, c, rs) = Removing!Fold(c, rs)
  BY DEF FoldLeft, MapThenFoldSet, Max, Removing!Max, Removing!Fold
<1> DEFINE T == {i \in Nat : Page(r[i], a, pic)}
<1>5. 0 \in T
  BY <1>3 DEF Removing!IsRun
<1>6. ASSUME NEW i \in Nat, i + 1 <= Len(rs), i \in T PROVE i + 1 \in T
  <2>1. r[i + 1] = RemoveTile(r[i], rs[i + 1])
    <3>1. i + 1 \in 1..Len(rs) /\ (i + 1) - 1 = i
      BY <1>1, <1>6
    <3> QED  BY <1>3, <3>1 DEF Removing!IsRun
  <2> QED  BY <1>6, <2>1, RemoveTilePage
<1>7. Len(rs) \in T
  <2> HIDE DEF T
  <2> QED  BY <1>1, <1>5, <1>6, StepsTo
<1>8. Page(FoldLeft(RemoveTile, c, rs), a, pic)
  BY <1>3, <1>4, <1>7
<1> QED  BY <1>8 DEF rs

(* Nor does a loop of createTile(). *)
LEMMA CreateTilesPage ==
    ASSUME NEW a, NEW pic, NEW c, Page(c, a, pic), NEW ts, IsFiniteSet(ts)
    PROVE  Page(FoldLeft(CreateTile, c, Sorted(ts)), a, pic)
<1> DEFINE rs == Sorted(ts)
<1>1. IsSeq(rs) /\ Len(rs) \in Nat
  BY SortedSeq, SeqParts
<1> HIDE DEF rs
<1>2. PICK S : rs \in Seq(S)
  BY <1>1 DEF IsSeq
<1>3. PICK r : Creating!IsRun(r, c, rs) /\ Creating!Fold(c, rs) = r[Len(rs)]
  BY <1>2, Creating!FoldRuns
<1>4. FoldLeft(CreateTile, c, rs) = Creating!Fold(c, rs)
  BY DEF FoldLeft, MapThenFoldSet, Max, Creating!Max, Creating!Fold
<1> DEFINE T == {i \in Nat : Page(r[i], a, pic)}
<1>5. 0 \in T
  BY <1>3 DEF Creating!IsRun
<1>6. ASSUME NEW i \in Nat, i + 1 <= Len(rs), i \in T PROVE i + 1 \in T
  <2>1. r[i + 1] = CreateTile(r[i], rs[i + 1])
    <3>1. i + 1 \in 1..Len(rs) /\ (i + 1) - 1 = i
      BY <1>1, <1>6
    <3> QED  BY <1>3, <3>1 DEF Creating!IsRun
  <2> QED  BY <1>6, <2>1, CreateTilePage
<1>7. Len(rs) \in T
  <2> HIDE DEF T
  <2> QED  BY <1>1, <1>5, <1>6, StepsTo
<1>8. Page(FoldLeft(CreateTile, c, rs), a, pic)
  BY <1>3, <1>4, <1>7
<1> QED  BY <1>8 DEF rs

(* Nor does _pruneTiles(). *)
LEMMA PruneTilesPage ==
    ASSUME NEW a, NEW pic, NEW c, Page(c, a, pic)
    PROVE Page(PruneTiles(c), a, pic)
<1> DEFINE ts == {t \in Tile : c.tiles[t].here /\ ~c.tiles[t].current}
<1>1. IsFiniteSet(ts)
  BY TileFinite, FS_Subset
<1> HIDE DEF ts
<1>2. Page(FoldLeft(RemoveTile, c, Sorted(ts)), a, pic)
  BY <1>1, RemoveTilesPage
<1> QED  BY <1>2 DEF PruneTiles, ts

(* What _onTileMsg() draws: the pictures of a message on what the layer has of its tile. *)
Repainted(pic, new, m) ==
    \A t \in Tile :
        \/ new[t] = pic[t]
        \/ t = m.t /\ \E img : Showing(img, pic[t]) /\ new[t] = ApplyDelta(img, m.fs)

(* _onTileMsg() does not scroll, and draws one tile. *)
LEMMA OnTileMsgPage ==
    ASSUME NEW a, NEW pic, NEW c, Page(c, a, pic), NEW m
    PROVE  \E new : Page(OnTileMsg(c, m), a, new) /\ Repainted(pic, new, m)
<1> DEFINE t == m.t
           tile == c.tiles[t]
           img == ApplyDelta(tile.img, m.fs)
           blank == ApplyDelta(Blank, m.fs)
           n == IF tile.inv > 0 THEN tile.inv - 1 ELSE 0
           drawn == [tile EXCEPT !.inv = n, !.loaded = TRUE, !.img = img]
           kept == IF c.tileCache[t] # Blank THEN img ELSE c.tileCache[t]
           d == [c EXCEPT !.tiles[t] = drawn, !.tileCache[t] = kept]
           e == [c EXCEPT !.tileCache[t] = blank]
           f == [d EXCEPT !.empty = IF @ > 0 THEN @ - 1 ELSE 0]
           new == [x \in Tile |-> IF x = t THEN img ELSE pic[x]]
           bare == [x \in Tile |-> IF x = t THEN blank ELSE pic[x]]
<1>1. OnTileMsg(c, m) = IF tile.here THEN TileReady(d, t)
                        ELSE IF Part(t) # c.part /\ c.tileCache[t] = Blank THEN e ELSE c
  <2> DEFINE g == [c EXCEPT !.tiles[t] = [tile EXCEPT !.inv = IF @ > 0 THEN @ - 1 ELSE 0,
                                                      !.loaded = TRUE, !.img = img],
                            !.tileCache[t] = IF @ # Blank THEN img ELSE @]
  <2>1. d = g
    <3> HIDE DEF img
    <3> QED  OBVIOUS
  <2>2. OnTileMsg(c, m) = IF tile.here THEN TileReady(g, t)
                          ELSE IF Part(t) # c.part /\ c.tileCache[t] = Blank THEN e ELSE c
    BY Zenon DEF OnTileMsg
  <2> HIDE DEF d, g
  <2> QED  BY <2>1, <2>2
<1>2. /\ DOMAIN d = PageFields /\ d.area = c.area
      /\ d.tiles = [c.tiles EXCEPT ![t] = drawn]
      /\ d.tileCache = [c.tileCache EXCEPT ![t] = kept]
      /\ DOMAIN e = PageFields /\ e.area = c.area /\ e.tiles = c.tiles
      /\ e.tileCache = [c.tileCache EXCEPT ![t] = blank]
  <2> HIDE DEF drawn, kept, blank
  <2> QED  BY DEF Page
<1>3. tile.here /\ t \in Tile => Drawn(drawn, img) /\ Showing(kept, img)
  <2>1. SUFFICES ASSUME tile.here, t \in Tile PROVE Drawn(drawn, img) /\ Showing(kept, img)
    OBVIOUS
  <2>2. DOMAIN tile = {"here", "current", "inv", "loaded", "img"} /\ tile.here = TRUE
    BY <2>1 DEF Page, Drawn, NoTile
  <2> HIDE DEF tile, img, n
  <2>3. DOMAIN drawn = DOMAIN tile /\ drawn.here = TRUE /\ drawn.img = img
    BY <2>2
  <2> HIDE DEF drawn
  <2> QED  BY <2>2, <2>3 DEF Drawn, Showing
<1> HIDE DEF d, e, drawn, kept
<1>4. ASSUME tile.here PROVE Page(d, a, new) /\ Repainted(pic, new, m)
  <2>1. /\ d.tiles = [x \in Tile |-> d.tiles[x]] /\ d.tileCache = [x \in Tile |-> d.tileCache[x]]
        /\ \A x \in Tile : /\ d.tiles[x] = IF x = t THEN drawn ELSE c.tiles[x]
                           /\ d.tileCache[x] = IF x = t THEN kept ELSE c.tileCache[x]
    BY <1>2 DEF Page
  <2> HIDE DEF img
  <2>2. ASSUME NEW x \in Tile PROVE Drawn(d.tiles[x], new[x]) /\ Showing(d.tileCache[x], new[x])
    BY <1>3, <1>4, <2>1 DEF Page
  <2>3. Page(d, a, new)
    BY <1>2, <2>1, <2>2 DEF Page
  <2>4. t \in Tile => Showing(tile.img, pic[t])
    BY <1>4 DEF Page, Drawn, NoTile
  <2>5. Repainted(pic, new, m)
    BY <2>4 DEF Repainted, img
  <2> QED  BY <2>3, <2>5
<1>5. ASSUME ~tile.here, c.tileCache[t] = Blank PROVE Page(e, a, bare) /\ Repainted(pic, bare, m)
  <2>1. /\ e.tiles = [x \in Tile |-> e.tiles[x]] /\ e.tileCache = [x \in Tile |-> e.tileCache[x]]
        /\ \A x \in Tile : e.tileCache[x] = IF x = t THEN blank ELSE c.tileCache[x]
    BY <1>2 DEF Page
  <2> HIDE DEF blank
  <2>2. t \in Tile => c.tiles[t] = NoTile
    BY <1>5 DEF Page, Drawn
  <2>3. ASSUME NEW x \in Tile PROVE Drawn(e.tiles[x], bare[x]) /\ Showing(e.tileCache[x], bare[x])
    BY <1>2, <2>1, <2>2 DEF Page, Drawn, Showing
  <2>4. Page(e, a, bare)
    BY <1>2, <2>1, <2>3 DEF Page
  <2>5. Repainted(pic, bare, m)
    BY DEF Repainted, blank, Showing
  <2> QED  BY <2>4, <2>5
<1> HIDE DEF new, bare, img, blank
<1>6. ASSUME tile.here PROVE Page(TileReady(d, t), a, new)
  <2>1. Page(d, a, new)
    BY <1>4, <1>6
  <2>2. DOMAIN f = PageFields /\ f.area = d.area /\ f.tileCache = d.tileCache /\ f.tiles = d.tiles
    BY <1>2
  <2>3. TileReady(d, t) = IF NoTilesToLoad(f) THEN PruneTiles(f) ELSE f
    BY Zenon DEF TileReady
  <2> HIDE DEF f
  <2>4. Page(f, a, new)
    BY <2>1, <2>2, SamePage
  <2> QED  BY <2>3, <2>4, PruneTilesPage
<1>7. Repainted(pic, pic, m)
  BY DEF Repainted
<1>8. CASE tile.here
  BY <1>1, <1>4, <1>6, <1>8
<1>9. CASE ~tile.here
  BY <1>1, <1>5, <1>7, <1>9
<1> QED  BY <1>8, <1>9

(* _onInvalidateTilesMsg() does not scroll, and draws nothing. *)
LEMMA OnInvalidatePage ==
    ASSUME NEW a, NEW pic, NEW c, Page(c, a, pic), NEW ts
    PROVE Page(OnInvalidateTilesMsg(c, ts), a, pic)
<1> DEFINE hit == {t \in Tile : t \in ts /\ c.tiles[t].here}
           out == {t \in hit : t[2] \notin c.area}
           c1 == [c EXCEPT !.tiles = At(@, hit, LAMBDA tile : [tile EXCEPT !.inv = @ + 1])]
           c2 == FoldLeft(RemoveTile, c1, Sorted(out))
           c3 == [c2 EXCEPT !.tileCache = At(@, ts, LAMBDA img : Blank)]
<1>1. IsFiniteSet(out)
  BY TileFinite, FS_Subset
<1>2. Page(c1, a, pic)
  <2>1. /\ DOMAIN c1 = PageFields /\ c1.area = c.area /\ c1.tileCache = c.tileCache
        /\ c1.tiles = At(c.tiles, hit, LAMBDA tile : [tile EXCEPT !.inv = @ + 1])
    <3> HIDE DEF hit
    <3> QED  BY DEF Page
  <2>2. /\ c1.tiles = [t \in Tile |-> c1.tiles[t]]
        /\ \A t \in Tile : c1.tiles[t] = IF t \in hit THEN [c.tiles[t] EXCEPT !.inv = @ + 1]
                                          ELSE c.tiles[t]
    <3> HIDE DEF hit
    <3> QED  BY <2>1 DEF Page, At
  <2>3. \A t \in hit : c.tiles[t].here
    OBVIOUS
  <2> HIDE DEF c1, hit
  <2>4. ASSUME NEW t \in Tile PROVE Drawn(c1.tiles[t], pic[t])
    <3>1. Drawn(c.tiles[t], pic[t])
      BY DEF Page
    <3>2. CASE t \in hit
      <4> DEFINE tile == c.tiles[t]
                 y == tile.inv + 1
      <4>1. c1.tiles[t] = [tile EXCEPT !.inv = y] /\ tile.here /\ Drawn(tile, pic[t])
        BY <2>2, <2>3, <3>1, <3>2
      <4> HIDE DEF tile, y
      <4>2. Drawn([tile EXCEPT !.inv = y], pic[t])
        BY <4>1, DrawnFlag
      <4> QED  BY <4>1, <4>2
    <3>3. CASE t \notin hit
      BY <2>2, <3>1, <3>3
    <3> QED  BY <3>2, <3>3
  <2> QED  BY <2>1, <2>2, <2>4, TilesPage
<1> HIDE DEF c1, out
<1>3. Page(c2, a, pic)
  BY <1>1, <1>2, RemoveTilesPage
<1>4. OnInvalidateTilesMsg(c, ts) = c3
  BY DEF OnInvalidateTilesMsg, c1, out
<1> HIDE DEF c2
<1>5. Page(c3, a, pic)
  <2>1. /\ DOMAIN c3 = PageFields /\ c3.area = c2.area /\ c3.tiles = c2.tiles
        /\ c3.tileCache = At(c2.tileCache, ts, LAMBDA img : Blank)
    BY <1>3 DEF Page
  <2>2. /\ c3.tileCache = [t \in Tile |-> c3.tileCache[t]]
        /\ \A t \in Tile : c3.tileCache[t] \in {Blank, c2.tileCache[t]}
    BY <1>3, <2>1 DEF Page, At
  <2> HIDE DEF c3
  <2> QED  BY <1>3, <2>1, <2>2 DEF Page, Showing
<1> QED  BY <1>4, <1>5

(* The layer shows the area a, and wsd and the Kit have been calm since s. *)
Pair(s, a, pic, cs) == DOMAIN cs = {"c", "s"} /\ Page(cs.c, a, pic) /\ Calm(s, cs.s)

(* A request to wsd. *)
LEMMA SendPair ==
    ASSUME NEW s, NEW a, NEW pic, NEW cs, Pair(s, a, pic, cs), NEW u, Calm(cs.s, u)
    PROVE  Pair(s, a, pic, Send(cs, u))
<1> DEFINE v == [cs EXCEPT !.s = u]
<1>1. DOMAIN v = {"c", "s"} /\ v.c = cs.c /\ v.s = u
  BY DEF Pair
<1>2. Calm(s, u)
  BY CalmTwice DEF Pair
<1> HIDE DEF v
<1>3. Pair(s, a, pic, v)
  BY <1>1, <1>2 DEF Pair
<1> QED  BY <1>3 DEF Send, v

(* The layer changes alone. *)
LEMMA LayerPair ==
    ASSUME NEW s, NEW a, NEW pic, NEW cs, Pair(s, a, pic, cs), NEW c, Page(c, a, pic)
    PROVE  Pair(s, a, pic, [cs EXCEPT !.c = c])
<1> DEFINE v == [cs EXCEPT !.c = c]
<1>1. DOMAIN v = {"c", "s"} /\ v.c = c /\ v.s = cs.s
  BY DEF Pair
<1> HIDE DEF v
<1>2. Pair(s, a, pic, v)
  BY <1>1 DEF Pair
<1> QED  BY <1>2 DEF v

(* _cancelTiles() with "canceltiles". *)
LEMMA CancelTilesPair ==
    ASSUME NEW s, NEW a, NEW pic, NEW cs, Pair(s, a, pic, cs)
    PROVE Pair(s, a, pic, CancelTiles(cs))
<1> DEFINE drop(t) == LET tile == cs.c.tiles[t] IN
                      tile.here /\ (\/ ~tile.loaded
                                    \/ tile.inv > 0 /\ (Part(t) # cs.c.part \/ t[2] \notin cs.c.area))
           gone == {t \in Tile : drop(t)}
           cs1 == Send(cs, CancelTileRequests(cs.s))
           cs2 == [cs1 EXCEPT !.c.tiles = At(@, gone, LAMBDA tile : NoTile), !.c.empty = 0]
<1>1. Calm(cs.s, CancelTileRequests(cs.s))
  BY CancelTileRequestsCalm DEF Pair, Calm, Same
<1>2. Pair(s, a, pic, cs1)
  BY <1>1, SendPair
<1>3. CancelTiles(cs) = cs2
  BY DEF CancelTiles
<1> HIDE DEF cs1, gone
<1> DEFINE d == [cs1.c EXCEPT !.tiles = At(@, gone, LAMBDA tile : NoTile), !.empty = 0]
<1>4. DOMAIN cs2 = {"c", "s"} /\ cs2.s = cs1.s /\ cs2.c = d
  BY <1>2 DEF Pair, Page
<1>5. Page(d, a, pic)
  <2> DEFINE c == cs1.c
  <2>1. Page(c, a, pic)
    BY <1>2 DEF Pair
  <2> HIDE DEF c
  <2>2. /\ DOMAIN d = PageFields /\ d.area = c.area /\ d.tileCache = c.tileCache
        /\ d.tiles = At(c.tiles, gone, LAMBDA tile : NoTile)
    BY <2>1 DEF Page, c
  <2> HIDE DEF d
  <2>3. /\ d.tiles = [t \in Tile |-> d.tiles[t]]
        /\ \A t \in Tile : d.tiles[t] \in {NoTile, c.tiles[t]}
    BY <2>1, <2>2 DEF Page, At
  <2>4. \A t \in Tile : Drawn(d.tiles[t], pic[t])
    BY <2>1, <2>3 DEF Page, Drawn
  <2> QED  BY <2>1, <2>2, <2>3, <2>4, TilesPage
<1> HIDE DEF cs2, d
<1> QED  BY <1>2, <1>3, <1>4, <1>5 DEF Pair

(* A tilecombine request. *)
LEMMA RequestMissingPair ==
    ASSUME NEW s, NEW a, NEW pic, NEW cs, Pair(s, a, pic, cs), NEW ts, IsFiniteSet(ts)
    PROVE  Pair(s, a, pic, RequestMissing(cs, ts))
<1> DEFINE missing == {t \in ts : cs.c.tileCache[t] = Blank}
           u == HandleTileCombinedRequest(cs.s, Sorted(missing), TRUE)
<1>1. IsFiniteSet(missing)
  BY FS_Subset
<1>2. RequestMissing(cs, ts) \in {cs, Send(cs, u)}
  BY DEF RequestMissing
<1> HIDE DEF missing
<1>3. Calm(cs.s, u)
  BY <1>1, SortedSeq, CombinedRequestCalm DEF Pair, Calm, Same
<1> HIDE DEF u
<1>4. Pair(s, a, pic, Send(cs, u))
  BY <1>3, SendPair
<1> QED  BY <1>2, <1>4

(* Arming the timer of the next part. *)
LEMMA ArmPartPrefetchPair ==
    ASSUME NEW s, NEW a, NEW pic, NEW cs, Pair(s, a, pic, cs)
    PROVE Pair(s, a, pic, ArmPartPrefetch(cs))
<1> DEFINE u == ArmPartPrefetch(cs)
<1>1. /\ DOMAIN u = {"c", "s"} /\ u.s = cs.s
      /\ DOMAIN u.c = PageFields /\ u.c.area = cs.c.area
      /\ u.c.tiles = cs.c.tiles /\ u.c.tileCache = cs.c.tileCache
  BY DEF ArmPartPrefetch, Pair, Page
<1> HIDE DEF u
<1>2. Page(u.c, a, pic)
  BY <1>1, SamePage DEF Pair
<1>3. Pair(s, a, pic, u)
  BY <1>1, <1>2 DEF Pair
<1> QED  BY <1>3 DEF u

(* _addTiles(). *)
LEMMA AddTilesPair ==
    ASSUME NEW s, NEW a, NEW pic, NEW cs, Pair(s, a, pic, cs), NEW ts, IsFiniteSet(ts)
    PROVE  Pair(s, a, pic, AddTiles(cs, ts))
<1> DEFINE c == FoldLeft(CreateTile, cs.c, Sorted(ts))
           cs1 == [cs EXCEPT !.c = c]
           cs2 == RequestMissing(cs1, ts)
<1>1. Page(c, a, pic)
  BY CreateTilesPage DEF Pair
<1>2. AddTiles(cs, ts) = ArmPartPrefetch(cs2)
  BY DEF AddTiles
<1> HIDE DEF c
<1>3. Pair(s, a, pic, cs1)
  BY <1>1, LayerPair
<1> HIDE DEF cs1
<1>4. Pair(s, a, pic, cs2)
  BY <1>3, RequestMissingPair
<1> HIDE DEF cs2
<1> QED  BY <1>2, <1>4, ArmPartPrefetchPair

(* _sendClientVisibleArea() with "clientvisiblearea". *)
LEMMA SendClientVisibleAreaPair ==
    ASSUME NEW s, NEW a, NEW pic, NEW cs, Pair(s, a, pic, cs)
    PROVE Pair(s, a, pic, SendClientVisibleArea(cs))
<1> DEFINE u == SetVisibleArea(cs.s, cs.c.area)
           v == [cs EXCEPT !.s = SetVisibleArea(@, cs.c.area), !.c.sentArea = cs.c.area]
<1>1. Calm(cs.s, u)
  BY SetVisibleAreaCalm DEF Pair, Calm, Same
<1>2. Calm(s, u)
  BY <1>1, CalmTwice DEF Pair
<1>3. /\ DOMAIN v = {"c", "s"} /\ v.s = u /\ DOMAIN v.c = PageFields /\ v.c.area = cs.c.area
      /\ v.c.tiles = cs.c.tiles /\ v.c.tileCache = cs.c.tileCache
  BY DEF Pair, Page
<1>4. SendClientVisibleArea(cs) \in {cs, v}
  BY DEF SendClientVisibleArea
<1> HIDE DEF u, v
<1>5. Pair(s, a, pic, v)
  <2>1. Page(v.c, a, pic)
    BY <1>3, SamePage DEF Pair
  <2> QED  BY <1>2, <1>3, <2>1 DEF Pair
<1> QED  BY <1>4, <1>5

(* What is in view is finite. *)
LEMMA InViewFinite ==
    ASSUME NEW c, IsFiniteSet(c.area)
    PROVE IsFiniteSet(InView(c))
<1>1. IsFiniteSet({c.part})
  BY FS_Singleton
<1> QED  BY <1>1, FS_Product DEF InView

(* Only the tiles of the selected part are current. *)
LEMMA OnlyPartCurrentPage ==
    ASSUME NEW a, NEW pic, NEW c, Page(c, a, pic)
    PROVE  Page(OnlyPartCurrent(c), a, pic)
<1> DEFINE off == {t \in Tile : c.tiles[t].here /\ Part(t) # c.part}
           no == FALSE
           d == OnlyPartCurrent(c)
<1>1. d = [c EXCEPT !.tiles = At(@, off, LAMBDA tile : [tile EXCEPT !.current = no])]
  BY DEF OnlyPartCurrent
<1>2. \A t \in off : c.tiles[t].here
  OBVIOUS
<1> HIDE DEF off, no, d
<1>3. /\ DOMAIN d = PageFields /\ d.area = c.area /\ d.tileCache = c.tileCache
      /\ d.tiles = At(c.tiles, off, LAMBDA tile : [tile EXCEPT !.current = no])
  BY <1>1 DEF Page
<1>4. /\ d.tiles = [t \in Tile |-> d.tiles[t]]
      /\ \A t \in Tile : d.tiles[t] = IF t \in off THEN [c.tiles[t] EXCEPT !.current = no]
                                       ELSE c.tiles[t]
  BY <1>3 DEF Page, At
<1>5. ASSUME NEW t \in Tile PROVE Drawn(d.tiles[t], pic[t])
  <2>1. Drawn(c.tiles[t], pic[t])
    BY DEF Page
  <2>2. CASE t \in off
    <3> DEFINE tile == c.tiles[t]
    <3>1. d.tiles[t] = [tile EXCEPT !.current = no] /\ tile.here /\ Drawn(tile, pic[t])
      BY <1>2, <1>4, <2>1, <2>2
    <3> HIDE DEF tile
    <3>2. Drawn([tile EXCEPT !.current = no], pic[t])
      BY <3>1, DrawnFlag
    <3> QED  BY <3>1, <3>2
  <2>3. CASE t \notin off
    BY <1>4, <2>1, <2>3
  <2> QED  BY <2>2, <2>3
<1>6. Page(d, a, pic)
  BY <1>3, <1>4, <1>5, TilesPage
<1> QED  BY <1>6 DEF d

(* _update(). *)
LEMMA UpdatePair ==
    ASSUME NEW s, NEW a, NEW pic, IsFiniteSet(a), NEW cs, Pair(s, a, pic, cs)
    PROVE Pair(s, a, pic, Update(cs))
<1> DEFINE c == OnlyPartCurrent(cs.c)
           good == {t \in InView(c) : c.tiles[t].here /\ c.tiles[t].loaded /\ c.tiles[t].inv = 0}
           c1 == [c EXCEPT !.tiles = At(@, {t \in InView(c) : @[t].here}, LAMBDA tile :
                     IF tile.inv > 0 THEN [tile EXCEPT !.inv = 1]
                     ELSE IF tile.loaded THEN [tile EXCEPT !.current = TRUE] ELSE tile)]
           queue == InView(c) \ good
           cs1 == SendClientVisibleArea([cs EXCEPT !.c = c1])
<1>1. Page(c, a, pic)
  BY OnlyPartCurrentPage DEF Pair
<1>2. Update(cs) \in {cs1, AddTiles(CancelTiles(cs1), queue), AddTiles(cs1, queue)}
  BY DEF Update
<1>3. IsFiniteSet(queue)
  <2>1. c.area = a
    BY <1>1 DEF Page
  <2>2. IsFiniteSet(InView(c))
    BY <2>1, InViewFinite
  <2> HIDE DEF good, c
  <2> QED  BY <2>2, FS_Subset
<1> HIDE DEF c, queue
<1>4. Page(c1, a, pic)
  <2> DEFINE held == {t \in InView(c) : c.tiles[t].here}
             yes == TRUE
             marked(tile) == IF tile.inv > 0 THEN [tile EXCEPT !.inv = 1]
                             ELSE IF tile.loaded THEN [tile EXCEPT !.current = yes] ELSE tile
  <2>1. c1 = [c EXCEPT !.tiles = At(c.tiles, held, LAMBDA tile : marked(tile))]
    OBVIOUS
  <2>2. \A t \in held : c.tiles[t].here
    OBVIOUS
  <2> HIDE DEF held, c1, yes
  <2>3. /\ DOMAIN c1 = PageFields /\ c1.area = c.area /\ c1.tileCache = c.tileCache
        /\ c1.tiles = At(c.tiles, held, LAMBDA tile : marked(tile))
    <3> HIDE DEF marked
    <3> QED  BY <1>1, <2>1 DEF Page
  <2>4. /\ c1.tiles = [t \in Tile |-> c1.tiles[t]]
        /\ \A t \in Tile : c1.tiles[t] = IF t \in held THEN marked(c.tiles[t]) ELSE c.tiles[t]
    <3> HIDE DEF marked
    <3> QED  BY <1>1, <2>3 DEF Page, At
  <2>5. ASSUME NEW t \in Tile PROVE Drawn(c1.tiles[t], pic[t])
    <3> DEFINE tile == c.tiles[t]
    <3>1. Drawn(tile, pic[t])
      BY <1>1 DEF Page
    <3>2. CASE t \in held
      <4>1. tile.here
        BY <2>2, <3>2
      <4> HIDE DEF tile
      <4>2. Drawn([tile EXCEPT !.inv = 1], pic[t]) /\ Drawn([tile EXCEPT !.current = yes], pic[t])
        BY <3>1, <4>1, DrawnFlag
      <4>3. Drawn(marked(tile), pic[t])
        BY <3>1, <4>2
      <4> QED  BY <2>4, <3>2, <4>3 DEF tile
    <3>3. CASE t \notin held
      BY <2>4, <3>1, <3>3
    <3> QED  BY <3>2, <3>3
  <2> QED  BY <1>1, <2>3, <2>4, <2>5, TilesPage
<1> HIDE DEF c1
<1>5. Pair(s, a, pic, [cs EXCEPT !.c = c1])
  BY <1>4, LayerPair
<1>6. Pair(s, a, pic, cs1)
  BY <1>5, SendClientVisibleAreaPair
<1> HIDE DEF cs1
<1>7. Pair(s, a, pic, CancelTiles(cs1))
  BY <1>6, CancelTilesPair
<1>8. Pair(s, a, pic, AddTiles(CancelTiles(cs1), queue)) /\ Pair(s, a, pic, AddTiles(cs1, queue))
  BY <1>3, <1>6, <1>7, AddTilesPair
<1> QED  BY <1>2, <1>6, <1>8

(* _updateOnChangePart(). *)
LEMMA UpdateOnChangePartPair ==
    ASSUME NEW s, NEW a, NEW pic, IsFiniteSet(a), NEW cs, Pair(s, a, pic, cs)
    PROVE Pair(s, a, pic, UpdateOnChangePart(cs))
<1> DEFINE c == OnlyPartCurrent(cs.c)
           there == {t \in InView(c) : c.tiles[t].here}
           c1 == [c EXCEPT !.tiles = At(@, there, LAMBDA tile : [tile EXCEPT !.current = TRUE])]
           queue == InView(c) \ there
           cs1 == [cs EXCEPT !.c = c1]
           cs0 == IF there = {} THEN CancelTiles(cs1) ELSE cs1
           cs3 == [cs0 EXCEPT !.c = FoldLeft(CreateTile, @, Sorted(queue))]
           cs4 == RequestMissing(cs3, queue)
<1>1. Page(c, a, pic)
  BY OnlyPartCurrentPage DEF Pair
<1>2. UpdateOnChangePart(cs) \in {ArmPartPrefetch(cs1), ArmPartPrefetch(cs4)}
  BY DEF UpdateOnChangePart
<1>3. IsFiniteSet(queue)
  <2>1. c.area = a
    BY <1>1 DEF Page
  <2>2. IsFiniteSet(InView(c))
    BY <2>1, InViewFinite
  <2> HIDE DEF there, c
  <2> QED  BY <2>2, FS_Subset
<1> HIDE DEF c, there
<1>4. Page(c1, a, pic)
  <2> DEFINE yes == TRUE
  <2>1. c1 = [c EXCEPT !.tiles = At(c.tiles, there, LAMBDA tile : [tile EXCEPT !.current = yes])]
    OBVIOUS
  <2>2. \A t \in there : c.tiles[t].here
    BY DEF there
  <2> HIDE DEF c1, yes
  <2>3. /\ DOMAIN c1 = PageFields /\ c1.area = c.area /\ c1.tileCache = c.tileCache
        /\ c1.tiles = At(c.tiles, there, LAMBDA tile : [tile EXCEPT !.current = yes])
    BY <1>1, <2>1 DEF Page
  <2>4. /\ c1.tiles = [t \in Tile |-> c1.tiles[t]]
        /\ \A t \in Tile : c1.tiles[t] = IF t \in there THEN [c.tiles[t] EXCEPT !.current = yes]
                                          ELSE c.tiles[t]
    BY <1>1, <2>3 DEF Page, At
  <2>5. ASSUME NEW t \in Tile PROVE Drawn(c1.tiles[t], pic[t])
    <3>1. Drawn(c.tiles[t], pic[t])
      BY <1>1 DEF Page
    <3>2. CASE t \in there
      <4> DEFINE tile == c.tiles[t]
      <4>1. c1.tiles[t] = [tile EXCEPT !.current = yes] /\ tile.here /\ Drawn(tile, pic[t])
        BY <2>2, <2>4, <3>1, <3>2
      <4> HIDE DEF tile
      <4>2. Drawn([tile EXCEPT !.current = yes], pic[t])
        BY <4>1, DrawnFlag
      <4> QED  BY <4>1, <4>2
    <3>3. CASE t \notin there
      BY <2>4, <3>1, <3>3
    <3> QED  BY <3>2, <3>3
  <2> QED  BY <1>1, <2>3, <2>4, <2>5, TilesPage
<1> HIDE DEF c1, queue
<1>5. Pair(s, a, pic, cs1)
  BY <1>4, LayerPair
<1> HIDE DEF cs1
<1>6. Pair(s, a, pic, cs0)
  BY <1>5, CancelTilesPair
<1> HIDE DEF cs0
<1>7. Pair(s, a, pic, cs3)
  <2> DEFINE e == FoldLeft(CreateTile, cs0.c, Sorted(queue))
  <2>1. Page(e, a, pic)
    BY <1>3, <1>6, CreateTilesPage DEF Pair
  <2>2. cs3 = [cs0 EXCEPT !.c = e]
    OBVIOUS
  <2> HIDE DEF e, cs3
  <2> QED  BY <1>6, <2>1, <2>2, LayerPair
<1> HIDE DEF cs3
<1>8. Pair(s, a, pic, cs4)
  BY <1>3, <1>7, RequestMissingPair
<1> HIDE DEF cs4
<1> QED  BY <1>2, <1>5, <1>8, ArmPartPrefetchPair

(* _requestNewTiles(). *)
LEMMA RequestNewTilesPair ==
    ASSUME NEW s, NEW a, NEW pic, IsFiniteSet(a), NEW cs, Pair(s, a, pic, cs)
    PROVE Pair(s, a, pic, RequestNewTiles(cs))
<1> DEFINE ts == IF IsText(cs.s) THEN Tile ELSE {cs.c.part} \X Pos
           c == OnInvalidateTilesMsg(cs.c, ts)
           cs1 == [cs EXCEPT !.c = c]
<1>1. RequestNewTiles(cs) = Update(cs1)
  BY DEF RequestNewTiles
<1> HIDE DEF ts
<1>2. Page(c, a, pic)
  BY OnInvalidatePage DEF Pair
<1> HIDE DEF c
<1>3. Pair(s, a, pic, cs1)
  BY <1>2, LayerPair
<1> HIDE DEF cs1
<1> QED  BY <1>1, <1>3, UpdatePair

-----------------------------------------------------------------------------
(* Renderings and invalidations on their way to wsd *)

(* Taking the first message moves the others one place forward. *)
LEMMA OfTail ==
    ASSUME NEW q, IsSeq(q), q # <<>>, NEW t
    PROVE  /\ \A i \in Of(Tail(q), t) : i + 1 \in Of(q, t) /\ Tail(q)[i] = q[i + 1] /\ i \in Nat \ {0}
           /\ \A i \in Of(q, t) : i = 1 \/ (i - 1 \in Of(Tail(q), t) /\ Tail(q)[i - 1] = q[i])
           /\ Of(q, t) \subseteq Nat \ {0}
           /\ Behind(q, 1, t) => Announced(Tail(q), t)
           /\ Announced(q, t) => (q[1].k = "inval" /\ t \in q[1].ts) \/ Announced(Tail(q), t)
<1> DEFINE r == Tail(q)
<1>1. /\ IsSeq(r) /\ Len(q) \in Nat \ {0} /\ DOMAIN q = 1..Len(q)
      /\ DOMAIN r = 1..Len(q)-1 /\ \A i \in DOMAIN r : r[i] = q[i + 1]
  BY Shortened
<1> HIDE DEF r
<1>2. \A i \in DOMAIN r : i \in Nat \ {0} /\ i + 1 \in DOMAIN q
  BY <1>1
<1>3. \A i \in DOMAIN q : i \in Nat \ {0} /\ (i = 1 \/ (i - 1 \in DOMAIN r /\ (i - 1) + 1 = i))
  BY <1>1
<1>4. \A i \in Of(r, t) : i + 1 \in Of(q, t) /\ r[i] = q[i + 1] /\ i \in Nat \ {0}
  BY <1>1, <1>2 DEF Of
<1>5. \A i \in Of(q, t) : i = 1 \/ (i - 1 \in Of(r, t) /\ r[i - 1] = q[i])
  BY <1>1, <1>3 DEF Of
<1>6. Of(q, t) \subseteq Nat \ {0}
  BY <1>3 DEF Of
<1>7. ASSUME NEW i \in Nat, Behind(q, i + 1, t)
      PROVE  \E j \in DOMAIN r : j > i /\ r[j].k = "inval" /\ t \in r[j].ts
  <2>1. PICK j \in DOMAIN q : j > i + 1 /\ q[j].k = "inval" /\ t \in q[j].ts
    BY <1>7 DEF Behind
  <2>2. j \in Nat /\ j # 1 /\ j - 1 > i
    BY <1>3, <2>1
  <2> QED  BY <1>1, <1>3, <2>1, <2>2
<1>8. Behind(q, 1, t) => Announced(r, t)
  <2>1. 0 + 1 = 1 /\ 0 \in Nat
    OBVIOUS
  <2> QED  BY <1>7, <2>1 DEF Announced
<1>9. Announced(q, t) => (q[1].k = "inval" /\ t \in q[1].ts) \/ Announced(r, t)
  BY <1>1, <1>3 DEF Announced
<1> QED  BY <1>4, <1>5, <1>6, <1>8, <1>9 DEF r

(* An invalidation behind another message stays behind it. *)
LEMMA BehindTail ==
    ASSUME NEW q, IsSeq(q), q # <<>>, NEW t, NEW i \in Nat, Behind(q, i + 1, t)
    PROVE  Behind(Tail(q), i, t)
<1> DEFINE r == Tail(q)
<1>1. /\ Len(q) \in Nat \ {0} /\ DOMAIN q = 1..Len(q)
      /\ DOMAIN r = 1..Len(q)-1 /\ \A k \in DOMAIN r : r[k] = q[k + 1]
  BY Shortened
<1> HIDE DEF r
<1>2. PICK j \in DOMAIN q : j > i + 1 /\ q[j].k = "inval" /\ t \in q[j].ts
  BY DEF Behind
<1>3. j - 1 \in DOMAIN r /\ (j - 1) + 1 = j /\ j - 1 > i
  BY <1>1, <1>2
<1>4. Behind(r, i, t)
  BY <1>1, <1>2, <1>3 DEF Behind
<1> QED  BY <1>4 DEF r

(* What was fresh stays fresh when wsd takes the first message and the entry becomes e2: *)
(* as it was, unless the message invalidates it, or the rendering in the message.        *)
LEMMA FreshTail ==
    ASSUME NEW t, NEW e, NEW queue, NEW up, NEW x, NEW e2,
           IsSeq(up), up # <<>>, FreshAt(t, e, queue, up, x),
           e2.here /\ e2.valid =>
               \/ /\ e.here /\ e.valid /\ e2.frames = e.frames
                  /\ ~(up[1].k = "inval" /\ t \in up[1].ts)
               \/ 1 \in Of(up, t) /\ Last(e2.frames).c = up[1].f.c
    PROVE  FreshAt(t, e2, queue, Tail(up), x)
<1>1. CASE Announced(queue, t)
  BY <1>1 DEF FreshAt
<1>2. CASE ~Announced(queue, t)
  <2>1. /\ e.here /\ e.valid => Last(e.frames).c = x \/ Announced(up, t)
        /\ \A i \in Of(up, t) : up[i].f.c = x \/ Behind(up, i, t)
    BY <1>2 DEF FreshAt
  <2> DEFINE r == Tail(up)
  <2>a. \A i \in Of(r, t) : i + 1 \in Of(up, t) /\ r[i] = up[i + 1] /\ i \in Nat \ {0}
    BY OfTail
  <2>b. ASSUME NEW i \in Of(r, t) PROVE Behind(up, i + 1, t) => Behind(r, i, t)
    BY <2>a, BehindTail
  <2>c. Behind(up, 1, t) => Announced(r, t)
    BY OfTail
  <2>d. Announced(up, t) => (up[1].k = "inval" /\ t \in up[1].ts) \/ Announced(r, t)
    BY OfTail
  <2> HIDE DEF r
  <2>2. e2.here /\ e2.valid => Last(e2.frames).c = x \/ Announced(r, t)
    BY <2>1, <2>c, <2>d
  <2>3. \A i \in Of(r, t) : r[i].f.c = x \/ Behind(r, i, t)
    BY <2>1, <2>a, <2>b
  <2>4. FreshAt(t, e2, queue, r, x)
    BY <2>2, <2>3 DEF FreshAt
  <2> QED  BY <2>4 DEF r
<1> QED  BY <1>1, <1>2

(* The chain when wsd takes a message that is no rendering of the tile. *)
LEMMA ChainTailOther ==
    ASSUME NEW t, NEW e, NEW up, NEW p, NEW e2,
           IsSeq(up), up # <<>>, ChainAt(t, e, up, p), 1 \notin Of(up, t),
           e2.here => e.here /\ e2.frames = e.frames
    PROVE  ChainAt(t, e2, Tail(up), p)
<1> DEFINE r == Tail(up)
<1>1. /\ \A i \in Of(r, t) : i + 1 \in Of(up, t) /\ r[i] = up[i + 1] /\ i \in Nat \ {0}
      /\ \A i \in Of(up, t) : i \in Nat \ {0} /\ i - 1 \in Of(r, t)
  BY OfTail
<1> HIDE DEF r
<1>2. ASSUME NEW i \in Of(r, t) PROVE (\A j \in Of(r, t) : i <= j) => \A j \in Of(up, t) : i + 1 <= j
  <2> SUFFICES ASSUME \A j \in Of(r, t) : i <= j, NEW j \in Of(up, t) PROVE i + 1 <= j
    OBVIOUS
  <2>1. i <= j - 1 /\ i \in Nat /\ j \in Nat
    BY <1>1
  <2> QED  BY <2>1
<1>3. ASSUME NEW i \in Of(r, t) PROVE (\A j \in Of(r, t) : j <= i) => \A j \in Of(up, t) : j <= i + 1
  <2> SUFFICES ASSUME \A j \in Of(r, t) : j <= i, NEW j \in Of(up, t) PROVE j <= i + 1
    OBVIOUS
  <2>1. j - 1 <= i /\ i \in Nat /\ j \in Nat
    BY <1>1
  <2> QED  BY <2>1
<1>4. e2.here => /\ e2.frames[1].key
                 /\ \A i \in 2..Len(e2.frames) : e2.frames[i].from = e2.frames[i - 1].c
  BY DEF ChainAt
<1>5. ASSUME NEW i \in Of(r, t), \A j \in Of(r, t) : i <= j, ~r[i].f.key, e2.here
      PROVE  r[i].f.from = Last(e2.frames).c
  <2>1. i + 1 \in Of(up, t) /\ r[i] = up[i + 1] /\ \A j \in Of(up, t) : i + 1 <= j
    BY <1>1, <1>2, <1>5
  <2>2. ~up[i + 1].f.key /\ e.here /\ e2.frames = e.frames
    BY <1>5, <2>1
  <2> QED  BY <2>1, <2>2 DEF ChainAt
<1>6. ASSUME NEW i \in Of(r, t), NEW j \in Of(r, t), i < j, ~r[j].f.key,
             \A k \in Of(r, t) : k <= i \/ j <= k
      PROVE  r[j].f.from = r[i].f.c
  <2>1. ASSUME NEW k \in Of(up, t) PROVE k <= i + 1 \/ j + 1 <= k
    <3>1. (k - 1 <= i \/ j <= k - 1) /\ i \in Nat /\ j \in Nat /\ k \in Nat
      BY <1>1, <1>6
    <3> QED  BY <3>1
  <2>2. i + 1 < j + 1 /\ i + 1 \in Of(up, t) /\ j + 1 \in Of(up, t)
    BY <1>1, <1>6
  <2>3. r[i] = up[i + 1] /\ r[j] = up[j + 1]
    BY <1>1
  <2> QED  BY <1>6, <2>1, <2>2, <2>3 DEF ChainAt
<1>7. \A i \in Of(r, t) : (\A j \in Of(r, t) : j <= i) => r[i].f.c = p \/ p = Blank
  BY <1>1, <1>3 DEF ChainAt
<1>8. Of(r, t) = {} /\ e2.here => Last(e2.frames).c = p \/ p = Blank
  BY <1>1 DEF ChainAt
<1>9. ChainAt(t, e2, r, p)
  BY <1>4, <1>5, <1>6, <1>7, <1>8 DEF ChainAt
<1> QED  BY <1>9 DEF r

(* The chain when wsd takes a rendering of the tile: it starts the entry, or continues it, *)
(* or there is no entry.                                                                   *)
LEMMA ChainTailTile ==
    ASSUME NEW t, NEW e, NEW up, NEW p, NEW e2,
           IsSeq(up), up # <<>>, ChainAt(t, e, up, p), 1 \in Of(up, t),
           e2.here => /\ IsSeq(e2.frames) /\ e2.frames # <<>> /\ Last(e2.frames) = up[1].f
                      /\ e2.frames[1].key
                      /\ \A i \in 2..Len(e2.frames) : e2.frames[i].from = e2.frames[i - 1].c
    PROVE  ChainAt(t, e2, Tail(up), p)
<1> DEFINE r == Tail(up)
<1>1. /\ \A i \in Of(r, t) : i + 1 \in Of(up, t) /\ r[i] = up[i + 1] /\ i \in Nat \ {0}
      /\ \A i \in Of(up, t) : i \in Nat \ {0} /\ (i = 1 \/ i - 1 \in Of(r, t))
  BY OfTail
<1> HIDE DEF r
<1>2. ASSUME NEW i \in Of(r, t), \A j \in Of(r, t) : i <= j, ~r[i].f.key, e2.here
      PROVE  r[i].f.from = Last(e2.frames).c
  <2>1. ASSUME NEW k \in Of(up, t) PROVE k <= 1 \/ i + 1 <= k
    <3>1. (k = 1 \/ i <= k - 1) /\ i \in Nat /\ k \in Nat
      BY <1>1, <1>2
    <3> QED  BY <3>1
  <2>2. 1 < i + 1 /\ i + 1 \in Of(up, t) /\ r[i] = up[i + 1]
    BY <1>1
  <2>3. up[i + 1].f.from = up[1].f.c
    BY <1>2, <2>1, <2>2 DEF ChainAt
  <2> QED  BY <1>2, <2>2, <2>3
<1>3. ASSUME NEW i \in Of(r, t), \A j \in Of(r, t) : j <= i PROVE r[i].f.c = p \/ p = Blank
  <2>1. ASSUME NEW k \in Of(up, t) PROVE k <= i + 1
    <3>1. (k = 1 \/ k - 1 <= i) /\ i \in Nat /\ k \in Nat
      BY <1>1, <1>3
    <3> QED  BY <3>1
  <2> QED  BY <1>1, <2>1 DEF ChainAt
<1>4. ASSUME NEW i \in Of(r, t), NEW j \in Of(r, t), i < j, ~r[j].f.key,
             \A k \in Of(r, t) : k <= i \/ j <= k
      PROVE  r[j].f.from = r[i].f.c
  <2>1. ASSUME NEW k \in Of(up, t) PROVE k <= i + 1 \/ j + 1 <= k
    <3>1. (k = 1 \/ k - 1 <= i \/ j <= k - 1) /\ i \in Nat /\ j \in Nat /\ k \in Nat
      BY <1>1, <1>4
    <3> QED  BY <3>1
  <2>2. i + 1 < j + 1 /\ i + 1 \in Of(up, t) /\ j + 1 \in Of(up, t)
    BY <1>1, <1>4
  <2>3. r[i] = up[i + 1] /\ r[j] = up[j + 1]
    BY <1>1
  <2> QED  BY <1>4, <2>1, <2>2, <2>3 DEF ChainAt
<1>5. Of(r, t) = {} /\ e2.here => Last(e2.frames).c = p \/ p = Blank
  <2> SUFFICES ASSUME Of(r, t) = {}, e2.here PROVE up[1].f.c = p \/ p = Blank
    OBVIOUS
  <2>1. \A k \in Of(up, t) : k <= 1
    BY <1>1
  <2> QED  BY <2>1 DEF ChainAt
<1>6. ChainAt(t, e2, r, p)
  BY <1>2, <1>3, <1>4, <1>5 DEF ChainAt
<1> QED  BY <1>6 DEF r

(* Appending a message that is no rendering of the tile. *)
LEMMA OfAppendOther ==
    ASSUME NEW q, IsSeq(q), NEW m, NEW t, ~(m.k = "tile" /\ m.t = t)
    PROVE  /\ Of(Append(q, m), t) = Of(q, t)
           /\ \A i \in Of(q, t) : Append(q, m)[i] = q[i]
<1> DEFINE r == Append(q, m)
<1>1. /\ Len(q) \in Nat /\ DOMAIN q = 1..Len(q) /\ DOMAIN r = 1..Len(q)+1
      /\ \A i \in DOMAIN q : r[i] = q[i]
      /\ r[Len(q) + 1] = m
  BY Appended
<1>2. /\ DOMAIN q \subseteq DOMAIN r
      /\ \A i \in DOMAIN r : i \in DOMAIN q \/ i = Len(q) + 1
  BY <1>1
<1> HIDE DEF r
<1>3. Of(r, t) = Of(q, t)
  BY <1>1, <1>2 DEF Of
<1>4. \A i \in Of(q, t) : r[i] = q[i]
  BY <1>1 DEF Of
<1> QED  BY <1>3, <1>4 DEF r

(* The chain does not change then. *)
LEMMA ChainAppendOther ==
    ASSUME NEW t, NEW e, NEW up, NEW p, IsSeq(up), NEW m, ~(m.k = "tile" /\ m.t = t),
           ChainAt(t, e, up, p)
    PROVE  ChainAt(t, e, Append(up, m), p)
<1> DEFINE r == Append(up, m)
<1>1. Of(r, t) = Of(up, t) /\ \A i \in Of(up, t) : r[i] = up[i]
  BY OfAppendOther
<1> HIDE DEF r
<1>2. ChainAt(t, e, r, p)
  BY <1>1 DEF ChainAt
<1> QED  BY <1>2 DEF r

(* Invalidations on their way stay there. *)
LEMMA NewsAppend ==
    ASSUME NEW q, IsSeq(q), NEW m, NEW t
    PROVE  /\ Announced(q, t) => Announced(Append(q, m), t)
           /\ \A i \in DOMAIN q : Behind(q, i, t) => Behind(Append(q, m), i, t)
           /\ m.k = "inval" /\ t \in m.ts =>
                 /\ Announced(Append(q, m), t)
                 /\ \A i \in DOMAIN q : Behind(Append(q, m), i, t)
<1> DEFINE r == Append(q, m)
<1>1. /\ Len(q) \in Nat /\ DOMAIN q = 1..Len(q) /\ DOMAIN r = 1..Len(q)+1
      /\ \A i \in DOMAIN q : r[i] = q[i]
      /\ r[Len(q) + 1] = m
  BY Appended
<1>2. /\ DOMAIN q \subseteq DOMAIN r /\ Len(q) + 1 \in DOMAIN r
      /\ \A i \in DOMAIN q : Len(q) + 1 > i
  BY <1>1
<1> HIDE DEF r
<1>3. Announced(q, t) => Announced(r, t)
  BY <1>1, <1>2 DEF Announced
<1>4. \A i \in DOMAIN q : Behind(q, i, t) => Behind(r, i, t)
  BY <1>1, <1>2 DEF Behind
<1>5. m.k = "inval" /\ t \in m.ts => Announced(r, t) /\ \A i \in DOMAIN q : Behind(r, i, t)
  BY <1>1, <1>2 DEF Announced, Behind
<1> QED  BY <1>3, <1>4, <1>5 DEF r

(* The Kit renders a tile: a keyframe, or what changed since the rendering before. *)
LEMMA ChainAppendTile ==
    ASSUME NEW t, NEW e, NEW up, NEW p, NEW m, IsSeq(up), m.k = "tile", m.t = t,
           ChainAt(t, e, up, p), ~m.f.key => m.f.from = p /\ p # Blank
    PROVE  ChainAt(t, e, Append(up, m), m.f.c)
<1> DEFINE r == Append(up, m)
           n == Len(up) + 1
<1>1. /\ Len(up) \in Nat /\ DOMAIN up = 1..Len(up) /\ DOMAIN r = 1..n
      /\ \A i \in DOMAIN up : r[i] = up[i]
      /\ r[n] = m
  BY Appended
<1>2. /\ DOMAIN up \subseteq DOMAIN r /\ n \in DOMAIN r /\ n \in Nat
      /\ \A i \in DOMAIN up : i \in Nat /\ i < n /\ i <= n /\ ~(n <= i) /\ ~(n < i)
      /\ \A i \in DOMAIN r : i \in DOMAIN up \/ i = n
  BY <1>1
<1> HIDE DEF r, n
<1>3. Of(r, t) = Of(up, t) \cup {n}
  BY <1>1, <1>2 DEF Of
<1>4. \A i \in Of(up, t) : r[i] = up[i] /\ i \in DOMAIN up
  BY <1>1 DEF Of
<1>5. e.here => e.frames[1].key /\ \A i \in 2..Len(e.frames) : e.frames[i].from = e.frames[i - 1].c
  BY DEF ChainAt
<1>6. ASSUME NEW i \in Of(r, t), \A j \in Of(r, t) : i <= j, ~r[i].f.key, e.here
      PROVE  r[i].f.from = Last(e.frames).c
  <2>1. CASE i \in Of(up, t)
    <3>1. \A j \in Of(up, t) : i <= j
      BY <1>3, <1>6
    <3>2. r[i] = up[i]
      BY <1>4, <2>1
    <3> QED  BY <1>6, <2>1, <3>1, <3>2 DEF ChainAt
  <2>2. CASE i = n
    <3>1. Of(up, t) = {}
      BY <1>2, <1>3, <1>4, <1>6, <2>2
    <3>2. m.f.from = p /\ p # Blank /\ r[i] = m
      BY <1>1, <1>6, <2>2
    <3> QED  BY <1>6, <3>1, <3>2 DEF ChainAt
  <2> QED  BY <1>3, <2>1, <2>2
<1>7. ASSUME NEW i \in Of(r, t), NEW j \in Of(r, t), i < j, ~r[j].f.key,
             \A k \in Of(r, t) : k <= i \/ j <= k
      PROVE  r[j].f.from = r[i].f.c
  <2>1. i \in Of(up, t) /\ r[i] = up[i]
    BY <1>2, <1>3, <1>4, <1>7
  <2>2. CASE j \in Of(up, t)
    <3>1. r[j] = up[j] /\ \A k \in Of(up, t) : k <= i \/ j <= k
      BY <1>3, <1>4, <1>7, <2>2
    <3> QED  BY <1>7, <2>1, <2>2, <3>1 DEF ChainAt
  <2>3. CASE j = n
    <3>1. \A k \in Of(up, t) : k <= i
      BY <1>2, <1>3, <1>4, <1>7, <2>3
    <3>2. m.f.from = p /\ p # Blank /\ r[j] = m
      BY <1>1, <1>7, <2>3
    <3>3. up[i].f.c = p
      BY <2>1, <3>1, <3>2 DEF ChainAt
    <3> QED  BY <2>1, <3>2, <3>3
  <2> QED  BY <1>3, <2>2, <2>3
<1>8. ASSUME NEW i \in Of(r, t), \A j \in Of(r, t) : j <= i PROVE r[i].f.c = m.f.c
  <2>1. i = n
    BY <1>2, <1>3, <1>4, <1>8
  <2> QED  BY <1>1, <2>1
<1>9. Of(r, t) # {}
  BY <1>3
<1>10. ChainAt(t, e, r, m.f.c)
  BY <1>5, <1>6, <1>7, <1>8, <1>9 DEF ChainAt
<1> QED  BY <1>10 DEF r

(* The Kit tells wsd something that is neither a picture nor an invalidation. *)
LEMMA NoteKeeps ==
    ASSUME NEW s, NEW d, Kept(s, d), NEW m, m.k # "tile", m.k # "inval", NEW u,
           DOMAIN u = Fields, u.queue = s.queue, u.requested = s.requested,
           u.up = Append(s.up, m), u.prev = s.prev, u.cache = s.cache, u.nextWid \in Nat
    PROVE  Kept(u, d)
<1>1. Formed(s) /\ IsSeq(s.up) /\ Telling(s.up) /\ Worded(s.up)
  BY DEF Kept, Formed
<1>2. /\ Len(s.up) \in Nat /\ DOMAIN s.up = 1..Len(s.up) /\ DOMAIN u.up = 1..Len(s.up)+1
      /\ \A i \in DOMAIN s.up : u.up[i] = s.up[i]
      /\ u.up[Len(s.up) + 1] = m
  BY <1>1, Appended
<1>3. Formed(u)
  <2>1. IsSeq(u.up) /\ Telling(u.up)
    BY <1>1, Lengthened
  <2>2. \A i \in DOMAIN u.up : i \in DOMAIN s.up \/ i = Len(s.up) + 1
    BY <1>2
  <2>3. Worded(u.up)
    BY <1>1, <1>2, <2>2 DEF Worded
  <2> QED  BY <1>1, <2>1, <2>3 DEF Formed
<1>4. ASSUME NEW t \in Tile
      PROVE  ChainAt(t, u.cache[t], u.up, u.prev[t]) /\ FreshAt(t, u.cache[t], u.queue, u.up, d[t])
  <2>1. ChainAt(t, s.cache[t], s.up, s.prev[t]) /\ FreshAt(t, s.cache[t], s.queue, s.up, d[t])
    BY DEF Kept
  <2>2. ~(m.k = "tile" /\ m.t = t)
    OBVIOUS
  <2>3. ChainAt(t, s.cache[t], Append(s.up, m), s.prev[t])
    BY <1>1, <2>1, <2>2, ChainAppendOther
  <2>4. Of(Append(s.up, m), t) = Of(s.up, t) /\ \A i \in Of(s.up, t) : Append(s.up, m)[i] = s.up[i]
    <3>1. IsSeq(s.up)
      BY <1>1
    <3> QED  BY ONLY <2>2, <3>1, OfAppendOther
  <2>5. /\ Announced(s.up, t) => Announced(Append(s.up, m), t)
        /\ \A i \in DOMAIN s.up : Behind(s.up, i, t) => Behind(Append(s.up, m), i, t)
    BY <1>1, NewsAppend, Zenon
  <2>6. Of(s.up, t) \subseteq DOMAIN s.up
    BY DEF Of
  <2>7. FreshAt(t, s.cache[t], s.queue, Append(s.up, m), d[t])
    BY <2>1, <2>4, <2>5, <2>6 DEF FreshAt
  <2> QED  BY <2>3, <2>7
<1> QED  BY <1>3, <1>4 DEF Kept

(* RenderTiles::doRender() for a tile that has not changed. *)
LEMMA RenderUnchanged ==
    ASSUME NEW s, Kept(s, doc), NEW r, r.old # 0, s.prev[r.t] # Blank, s.prev[r.t] = doc[r.t],
           NEW u, u = Render(s, r)
    PROVE  /\ \E m : m.k = "unchanged" /\ u.up = Append(s.up, m)
           /\ DOMAIN u = Fields /\ u.queue = s.queue /\ u.requested = s.requested
           /\ u.prev = s.prev /\ u.cache = s.cache /\ u.nextWid \in Nat
<1>1. PICK m : m = [k |-> "unchanged", t |-> r.t, ver |-> r.ver, of |-> r.k]
  OBVIOUS
<1>2. DOMAIN s = Fields /\ s.prev = [t \in Tile |-> s.prev[t]] /\ s.nextWid \in Nat
  BY DEF Kept, Formed
<1>3. PICK prev : prev = [s.prev EXCEPT ![r.t] = doc[r.t]]
  OBVIOUS
<1>4. prev = s.prev
  BY <1>2, <1>3
<1>5. m.k = "unchanged"
  BY <1>1
<1>6. u = [s EXCEPT !.nextWid = s.nextWid + 1, !.prev = prev, !.up = Append(s.up, m)]
  BY <1>1, <1>2, <1>3 DEF Render
<1>7. /\ u.up = Append(s.up, m) /\ DOMAIN u = Fields /\ u.queue = s.queue
      /\ u.requested = s.requested /\ u.prev = prev /\ u.cache = s.cache
      /\ u.nextWid = s.nextWid + 1
  BY <1>2, <1>6
<1> QED  BY <1>2, <1>4, <1>5, <1>7

(* RenderTiles::doRender() for one that has, or that has to be sent as a whole. *)
LEMMA RenderDrawn ==
    ASSUME NEW s, Kept(s, doc), NEW r, r.old = 0 \/ s.prev[r.t] = Blank \/ s.prev[r.t] # doc[r.t]
    PROVE  Kept(Render(s, r), doc)
<1> DEFINE x == r.t
           key == r.old = 0 \/ s.prev[x] = Blank
           f == [wid |-> s.nextWid + 1, key |-> key,
                 from |-> IF key THEN Blank ELSE s.prev[x], c |-> doc[x]]
           m == [k |-> "tile", t |-> x, ver |-> r.ver, f |-> f]
           u == Render(s, r)
<1>1. Formed(s) /\ DOMAIN s = Fields /\ IsSeq(s.up)
  BY DEF Kept, Formed
<1>2. /\ DOMAIN u = Fields /\ u.cache = s.cache /\ u.queue = s.queue /\ u.requested = s.requested
      /\ u.up = Append(s.up, m) /\ u.prev = [s.prev EXCEPT ![x] = doc[x]]
      /\ u.nextWid = s.nextWid + 1
  BY <1>1 DEF Render
<1>3. /\ m.k = "tile" /\ m.t = x /\ m.f.c = doc[x]
      /\ ~m.f.key => m.f.from = s.prev[x] /\ s.prev[x] # Blank
      /\ m.f.wid = s.nextWid + 1
  OBVIOUS
<1> HIDE DEF m, f, key, u
<1>4. Formed(u)
  <2>1. IsSeq(u.up) /\ Telling(u.up)
    BY <1>1, <1>2, <1>3, Lengthened DEF Formed
  <2>2. Worded(u.up)
    <3>1. /\ Len(s.up) \in Nat /\ DOMAIN s.up = 1..Len(s.up) /\ DOMAIN u.up = 1..Len(s.up)+1
          /\ \A i \in DOMAIN s.up : u.up[i] = s.up[i]
          /\ u.up[Len(s.up) + 1] = m
      BY <1>1, <1>2, Appended
    <3>2. \A i \in DOMAIN u.up : i \in DOMAIN s.up \/ i = Len(s.up) + 1
      BY <3>1
    <3>3. m.f.wid \in Nat /\ m.k # "inval" /\ Worded(s.up)
      BY <1>1, <1>3 DEF Formed
    <3> QED  BY <3>1, <3>2, <3>3 DEF Worded
  <2>3. u.prev = [t \in Tile |-> u.prev[t]]
    BY <1>1, <1>2 DEF Formed
  <2>4. u.nextWid \in Nat
    BY <1>1, <1>2 DEF Formed
  <2> QED  BY <1>1, <1>2, <2>1, <2>2, <2>3, <2>4 DEF Formed
<1>5. ASSUME NEW t \in Tile PROVE FreshAt(t, u.cache[t], u.queue, u.up, doc[t])
  <2>0. FreshAt(t, s.cache[t], s.queue, s.up, doc[t])
    BY DEF Kept
  <2>1. CASE Announced(s.queue, t)
    BY <1>2, <2>1 DEF FreshAt
  <2>2. CASE ~Announced(s.queue, t)
    <3>1. /\ s.cache[t].here /\ s.cache[t].valid =>
                Last(s.cache[t].frames).c = doc[t] \/ Announced(s.up, t)
          /\ \A i \in Of(s.up, t) : s.up[i].f.c = doc[t] \/ Behind(s.up, i, t)
      BY <2>0, <2>2 DEF FreshAt
    <3>2. Announced(s.up, t) => Announced(u.up, t)
      BY <1>1, <1>2, NewsAppend
    <3>3. \A i \in DOMAIN s.up : Behind(s.up, i, t) => Behind(Append(s.up, m), i, t)
      BY <1>1, NewsAppend, Zenon
    <3>4. ASSUME NEW i \in Of(u.up, t) PROVE u.up[i].f.c = doc[t] \/ Behind(u.up, i, t)
      <4>1. /\ Len(s.up) \in Nat /\ DOMAIN s.up = 1..Len(s.up) /\ DOMAIN u.up = 1..Len(s.up)+1
            /\ \A j \in DOMAIN s.up : u.up[j] = s.up[j]
            /\ u.up[Len(s.up) + 1] = m
        BY <1>1, <1>2, Appended
      <4>2. i \in DOMAIN s.up \/ i = Len(s.up) + 1
        BY <3>4, <4>1 DEF Of
      <4>3. CASE i \in DOMAIN s.up
        <5>1. i \in Of(s.up, t) /\ u.up[i] = s.up[i]
          BY <3>4, <4>1, <4>3 DEF Of
        <5> QED  BY <1>2, <3>1, <3>3, <4>3, <5>1
      <4>4. CASE i = Len(s.up) + 1
        <5>1. u.up[i] = m /\ m.t = t
          BY <3>4, <4>1, <4>4 DEF Of
        <5> QED  BY <1>3, <5>1
      <4> QED  BY <4>2, <4>3, <4>4
    <3> QED  BY <1>2, <3>1, <3>2, <3>4 DEF FreshAt
  <2> QED  BY <2>1, <2>2
<1>6. ASSUME NEW t \in Tile PROVE ChainAt(t, u.cache[t], u.up, u.prev[t])
  <2>0. ChainAt(t, s.cache[t], s.up, s.prev[t])
    BY DEF Kept
  <2>1. CASE t = x
    <3>1. u.prev[t] = m.f.c
      BY <1>1, <1>2, <1>3, <2>1 DEF Formed
    <3>2. ChainAt(t, s.cache[t], Append(s.up, m), m.f.c)
      BY <1>1, <1>3, <2>0, <2>1, ChainAppendTile
    <3> QED  BY <1>2, <3>1, <3>2
  <2>2. CASE t # x
    <3>1. u.prev[t] = s.prev[t]
      BY <1>1, <1>2, <2>2 DEF Formed
    <3>2. ChainAt(t, s.cache[t], Append(s.up, m), s.prev[t])
      BY <1>1, <1>3, <2>0, <2>2, ChainAppendOther
    <3> QED  BY <1>2, <3>1, <3>2
  <2> QED  BY <2>1, <2>2
<1>7. Kept(u, doc)
  BY <1>4, <1>5, <1>6 DEF Kept
<1> QED  BY <1>7 DEF u

(* Either way. *)
LEMMA RenderKeeps ==
    ASSUME NEW s, Kept(s, doc), NEW r PROVE Kept(Render(s, r), doc)
<1>1. CASE r.old = 0 \/ s.prev[r.t] = Blank \/ s.prev[r.t] # doc[r.t]
  BY <1>1, RenderDrawn
<1>2. CASE r.old # 0 /\ s.prev[r.t] # Blank /\ s.prev[r.t] = doc[r.t]
  <2>1. PICK u : u = Render(s, r)
    OBVIOUS
  <2>2. PICK m : m.k = "unchanged" /\ u.up = Append(s.up, m)
    BY <1>2, <2>1, RenderUnchanged
  <2>3. /\ DOMAIN u = Fields /\ u.queue = s.queue /\ u.requested = s.requested
        /\ u.prev = s.prev /\ u.cache = s.cache /\ u.nextWid \in Nat
    BY <1>2, <2>1, RenderUnchanged
  <2>4. Kept(u, doc)
    BY <2>2, <2>3, NoteKeeps
  <2> QED  BY <2>1, <2>4
<1> QED  BY <1>1, <1>2

(* The Kit forgets renderings: what it renders next of them is a keyframe. *)
LEMMA DropKeeps ==
    ASSUME NEW s, NEW d, Kept(s, d), NEW out PROVE Kept(DropDeltas(s, out), d)
<1> DEFINE u == DropDeltas(s, out)
<1>1. Formed(s) /\ DOMAIN s = Fields /\ s.prev = [t \in Tile |-> s.prev[t]]
  BY DEF Kept, Formed
<1>2. u = [s EXCEPT !.prev = [t \in Tile |-> IF t \in out THEN Blank ELSE s.prev[t]]]
  BY <1>1 DEF DropDeltas, At
<1>3. /\ DOMAIN u = Fields /\ u.queue = s.queue /\ u.requested = s.requested /\ u.up = s.up
      /\ u.cache = s.cache /\ u.nextWid = s.nextWid /\ u.prev = [t \in Tile |-> u.prev[t]]
      /\ \A t \in Tile : u.prev[t] = s.prev[t] \/ u.prev[t] = Blank
  BY <1>1, <1>2
<1> HIDE DEF u
<1>4. Formed(u)
  BY <1>1, <1>3 DEF Formed
<1>5. ASSUME NEW t \in Tile
      PROVE  ChainAt(t, u.cache[t], u.up, u.prev[t]) /\ FreshAt(t, u.cache[t], u.queue, u.up, d[t])
  <2>1. ChainAt(t, s.cache[t], s.up, s.prev[t]) /\ FreshAt(t, s.cache[t], s.queue, s.up, d[t])
    BY DEF Kept
  <2>2. u.prev[t] = s.prev[t] \/ u.prev[t] = Blank
    BY <1>3
  <2>3. ChainAt(t, s.cache[t], s.up, u.prev[t])
    BY <2>1, <2>2 DEF ChainAt
  <2> QED  BY <1>3, <2>1, <2>3
<1>6. Kept(u, d)
  BY <1>4, <1>5 DEF Kept
<1> QED  BY <1>6 DEF u

(* All tiles of a combined request. *)
LEMMA RenderAllKeeps ==
    ASSUME NEW s, Kept(s, doc), NEW rs, IsSeq(rs) PROVE Kept(FoldLeft(Render, s, rs), doc)
<1>1. PICK S : rs \in Seq(S)
  BY DEF IsSeq
<1>2. Len(rs) \in Nat
  BY SeqParts
<1>3. PICK r : Painting!IsRun(r, s, rs) /\ Painting!Fold(s, rs) = r[Len(rs)]
  BY <1>1, Painting!FoldRuns
<1>4. FoldLeft(Render, s, rs) = Painting!Fold(s, rs)
  BY DEF FoldLeft, MapThenFoldSet, Max, Painting!Max, Painting!Fold
<1> DEFINE T == {i \in Nat : Kept(r[i], doc)}
<1>5. 0 \in T
  BY <1>3 DEF Painting!IsRun
<1>6. ASSUME NEW i \in Nat, i + 1 <= Len(rs), i \in T PROVE i + 1 \in T
  <2>1. r[i + 1] = Render(r[i], rs[i + 1])
    <3>1. i + 1 \in 1..Len(rs) /\ (i + 1) - 1 = i
      BY <1>2, <1>6
    <3> QED  BY <1>3, <3>1 DEF Painting!IsRun
  <2> QED  BY <1>6, <2>1, RenderKeeps
<1>7. Len(rs) \in T
  <2> HIDE DEF T
  <2> QED  BY <1>2, <1>5, <1>6, StepsTo
<1> QED  BY <1>3, <1>4, <1>7

(* The requests that are combined are a sequence. *)
LEMMA CombinedSeq ==
    ASSUME NEW q, IsSeq(q), NEW first PROVE IsSeq(Combined(q, first))
<1> DEFINE at == OnRow(q, Part(q[first].t)) \ {first}
           rs == PickAt(q, at)
           base == <<q[first]>>
<1>1. at \subseteq DOMAIN q
  BY DEF OnRow
<1> HIDE DEF at
<1>2. IsSeq(rs) /\ Len(rs) \in Nat
  BY <1>1, Picked, SeqParts DEF Thins
<1> HIDE DEF rs
<1>3. IsSeq(base)
  <2>1. base \in Seq({q[first]})
    OBVIOUS
  <2> QED  BY <2>1 DEF IsSeq
<1> HIDE DEF base
<1>4. PICK S : rs \in Seq(S)
  BY <1>2 DEF IsSeq
<1>5. PICK r : Combining!IsRun(r, base, rs) /\ Combining!Fold(base, rs) = r[Len(rs)]
  BY <1>4, Combining!FoldRuns
<1> DEFINE name == IF OnRow(q, Part(q[first].t)) = {first} THEN "tile" ELSE "tilecombine"
           all == Combining!Fold(base, rs)
           c == [i \in DOMAIN all |-> [all[i] EXCEPT !.k = name]]
<1>6. Combined(q, first) = c
  BY DEF Combined, FoldLeft, MapThenFoldSet, Max, Combining!Max, Combining!Fold, base, rs, at
<1> DEFINE T == {i \in Nat : IsSeq(r[i])}
<1>7. 0 \in T
  BY <1>3, <1>5 DEF Combining!IsRun
<1>8. ASSUME NEW i \in Nat, i + 1 <= Len(rs), i \in T PROVE i + 1 \in T
  <2>1. r[i + 1] = Combine(r[i], rs[i + 1])
    <3>1. i + 1 \in 1..Len(rs) /\ (i + 1) - 1 = i
      BY <1>2, <1>8
    <3> QED  BY <1>5, <3>1 DEF Combining!IsRun
  <2>2. IsSeq(r[i]) /\ IsSeq(Append(r[i], rs[i + 1]))
    BY <1>8, Appended
  <2>3. IsSeq(Combine(r[i], rs[i + 1]))
    BY <2>2 DEF Combine
  <2> QED  BY <2>1, <2>3
<1>9. Len(rs) \in T
  <2> HIDE DEF T
  <2> QED  BY <1>2, <1>7, <1>8, StepsTo
<1>10. IsSeq(all)
  BY <1>5, <1>9
<1> HIDE DEF all, name
<1>11. Len(all) \in Nat /\ DOMAIN all = 1..Len(all)
  BY <1>10, SeqParts
<1>12. c = [i \in 1..Len(all) |-> c[i]]
  BY <1>11
<1> HIDE DEF c
<1> QED  BY <1>6, <1>11, <1>12, SeqByDomain

-----------------------------------------------------------------------------
(* wsd takes what the Kit sent *)

(* saveDataToCache() for the tile that was rendered: what becomes of its entry. *)
Saved(e, f) ==
    IF f.key THEN [here |-> TRUE, valid |-> TRUE, frames |-> <<f>>]
    ELSE IF e.here THEN [e EXCEPT !.valid = TRUE, !.frames = Append(@, f)] ELSE e

(* The entry then ends with the rendering, and is a chain. *)
LEMMA SavedEntry ==
    ASSUME NEW t, NEW e, Entry(e), NEW up, NEW p, IsSeq(up), ChainAt(t, e, up, p), 1 \in Of(up, t)
    PROVE  LET f == up[1].f
               e2 == Saved(e, f)
           IN  /\ Entry(e2)
               /\ e2.here => /\ IsSeq(e2.frames) /\ e2.frames # <<>> /\ Last(e2.frames) = f
                             /\ e2.frames[1].key
                             /\ \A i \in 2..Len(e2.frames) : e2.frames[i].from = e2.frames[i - 1].c
<1> DEFINE f == up[1].f
           e2 == Saved(e, f)
<1>1. CASE f.key
  <2> DEFINE fs == <<f>>
  <2>1. e2 = [here |-> TRUE, valid |-> TRUE, frames |-> fs]
    BY <1>1 DEF Saved
  <2>2. fs \in Seq({f}) /\ Len(fs) = 1 /\ fs[1] = f /\ fs # <<>>
    OBVIOUS
  <2> HIDE DEF fs
  <2>3. IsSeq(fs) /\ Last(fs) = f /\ 2..Len(fs) = {}
    BY <2>2 DEF IsSeq, Last
  <2>4. DOMAIN e2 = {"here", "valid", "frames"} /\ e2.here = TRUE /\ e2.frames = fs
    BY <2>1
  <2> HIDE DEF e2
  <2>5. Entry(e2)
    BY <2>2, <2>3, <2>4 DEF Entry
  <2>6. /\ IsSeq(e2.frames) /\ e2.frames # <<>> /\ Last(e2.frames) = f /\ e2.frames[1].key
        /\ \A i \in 2..Len(e2.frames) : e2.frames[i].from = e2.frames[i - 1].c
    BY <1>1, <2>2, <2>3, <2>4
  <2> QED  BY <2>5, <2>6 DEF e2
<1>2. CASE ~f.key /\ e.here
  <2>1. /\ DOMAIN e = {"here", "valid", "frames"} /\ e.here = TRUE
        /\ IsSeq(e.frames) /\ e.frames # <<>>
    BY <1>2 DEF Entry, NotCached
  <2> DEFINE fs == Append(e.frames, f)
             n == Len(e.frames)
  <2>2. DOMAIN e2 = {"here", "valid", "frames"} /\ e2.here = TRUE /\ e2.frames = fs
    BY <1>2, <2>1 DEF Saved
  <2>3. /\ IsSeq(fs) /\ n \in Nat /\ DOMAIN e.frames = 1..n /\ DOMAIN fs = 1..n+1
        /\ \A i \in DOMAIN e.frames : fs[i] = e.frames[i]
        /\ fs[n + 1] = f
    BY <2>1, Appended
  <2>4. Len(fs) = n + 1 /\ n # 0
    <3>1. Len(fs) = n + 1
      <4>1. PICK S : e.frames \in Seq(S)
        BY <2>1 DEF IsSeq
      <4>2. e.frames \in Seq(S \cup {f})
        BY <4>1, SeqMonotonic
      <4> QED  BY <4>2, AppendProperties
    <3>2. n # 0
      BY <2>1, Shortened
    <3> QED  BY <3>1, <3>2
  <2>5. f.from = Last(e.frames).c
    <3>1. \A j \in Of(up, t) : 1 <= j
      BY SeqParts DEF Of
    <3> QED  BY <1>2, <3>1 DEF ChainAt
  <2>6. fs # <<>> /\ Last(fs) = f
    <3>1. n + 1 \in DOMAIN fs /\ fs[Len(fs)] = f
      BY <2>3, <2>4
    <3>2. fs # <<>>
      <4> HIDE DEF fs
      <4> QED  BY <3>1
    <3> QED  BY <3>1, <3>2 DEF Last
  <2> HIDE DEF e2, fs, n
  <2>7. fs[1].key
    <3>1. 1 \in DOMAIN e.frames
      BY <2>3, <2>4
    <3>2. e.frames[1].key
      BY <1>2 DEF ChainAt
    <3> QED  BY <2>3, <3>1, <3>2
  <2>8. ASSUME NEW i \in 2..Len(fs) PROVE fs[i].from = fs[i - 1].c
    <3>1. CASE i <= n
      <4>1. i \in 2..Len(e.frames) /\ i \in DOMAIN e.frames /\ i - 1 \in DOMAIN e.frames
        BY <2>3, <2>4, <2>8, <3>1 DEF n
      <4>2. e.frames[i].from = e.frames[i - 1].c
        BY <1>2, <4>1 DEF ChainAt
      <4> QED  BY <2>3, <4>1, <4>2
    <3>2. CASE i = n + 1
      <4>1. n \in DOMAIN e.frames /\ i - 1 = n
        BY <2>3, <2>4, <3>2
      <4>2. fs[i - 1] = Last(e.frames)
        BY <2>3, <4>1 DEF Last, n
      <4> QED  BY <2>3, <2>5, <3>2, <4>2
    <3> QED  BY <2>3, <2>4, <2>8, <3>1, <3>2
  <2>9. Entry(e2)
    BY <2>2, <2>3, <2>6 DEF Entry
  <2> QED  BY <2>2, <2>3, <2>6, <2>7, <2>8, <2>9 DEF e2
<1>3. CASE ~f.key /\ ~e.here
  BY <1>3 DEF Saved
<1> QED  BY <1>1, <1>2, <1>3

(* After an eviction an entry is gone or as it was. *)
LEMMA Evicted ==
    ASSUME NEW t, NEW e, Entry(e), NEW up, NEW p, NEW queue, NEW x,
           ChainAt(t, e, up, p), FreshAt(t, e, queue, up, x)
    PROVE  ChainAt(t, NotCached, up, p) /\ FreshAt(t, NotCached, queue, up, x) /\ Entry(NotCached)
<1>1. ~NotCached.here
  BY DEF NotCached
<1>2. Entry(NotCached)
  BY DEF Entry
<1> QED  BY <1>1, <1>2 DEF ChainAt, FreshAt

(* wsd after entries have been evicted and a rendering has been saved. *)
Saves(s, out) ==
    SaveDataToCache([s EXCEPT !.up = Tail(@), !.cache = At(@, out, LAMBDA e : NotCached)],
                    Head(s.up))

(* What an entry of s is after the eviction, and after the rendering m has been saved. *)
Left(s, out, t) == IF t \in out THEN NotCached ELSE s.cache[t]
Entered(s, out, m, t) == IF t = m.t THEN Saved(Left(s, out, t), m.f) ELSE Left(s, out, t)

(* Only the entries change. *)
Saving(s, out, u) ==
    /\ DOMAIN u = Fields /\ u.queue = s.queue /\ u.requested = s.requested
    /\ u.up = Tail(s.up) /\ u.prev = s.prev /\ u.nextWid = s.nextWid
    /\ u.sendQ = s.sendQ /\ u.wire = s.wire /\ u.sent = s.sent
    /\ u.cache = [t \in Tile |-> Entered(s, out, Head(s.up), t)]

(* That is what saveDataToCache() does. *)
LEMMA SaveEffect ==
    ASSUME NEW s, Formed(s), NEW out PROVE Saving(s, out, Saves(s, out))
<1> DEFINE m == Head(s.up)
           f == m.f
           x == m.t
           before(t) == Left(s, out, t)
           after(t) == Entered(s, out, m, t)
           s0 == [s EXCEPT !.up = Tail(@), !.cache = At(@, out, LAMBDA e : NotCached)]
           u == SaveDataToCache(s0, m)
<1>1. DOMAIN s = Fields /\ s.cache = [t \in Tile |-> s.cache[t]]
  BY DEF Formed
<1>2. /\ DOMAIN s0 = Fields /\ s0.queue = s.queue /\ s0.requested = s.requested
      /\ s0.up = Tail(s.up) /\ s0.prev = s.prev /\ s0.nextWid = s.nextWid
      /\ s0.sendQ = s.sendQ /\ s0.wire = s.wire /\ s0.sent = s.sent
      /\ s0.cache = [t \in Tile |-> before(t)]
  BY <1>1 DEF At, Left
<1> HIDE DEF s0, m
<1>3. /\ DOMAIN u = Fields /\ u.queue = s0.queue /\ u.requested = s0.requested
      /\ u.up = s0.up /\ u.prev = s0.prev /\ u.nextWid = s0.nextWid
      /\ u.sendQ = s0.sendQ /\ u.wire = s0.wire /\ u.sent = s0.sent
      /\ u.cache = [t \in Tile |-> after(t)]
  <2>1. CASE f.key
    <3>1. u = [s0 EXCEPT !.cache[x] = [here |-> TRUE, valid |-> TRUE, frames |-> <<f>>]]
      BY <2>1 DEF SaveDataToCache
    <3> DEFINE g == [here |-> TRUE, valid |-> TRUE, frames |-> <<f>>]
    <3>2. \A t : after(t) = IF t = x THEN g ELSE before(t)
      BY <2>1 DEF Saved, Entered
    <3>3. u = [s0 EXCEPT !.cache[x] = g]
      BY <3>1
    <3> HIDE DEF u, before, after, f, x, g
    <3> QED  BY <1>2, <3>2, <3>3
  <2>2. CASE ~f.key /\ s0.cache[x].here
    <3> DEFINE g == [s0.cache[x] EXCEPT !.valid = TRUE, !.frames = Append(@, f)]
    <3>1. u = [s0 EXCEPT !.cache[x] = g]
      BY <2>2 DEF SaveDataToCache
    <3>2. \A t \in Tile : after(t) = IF t = x THEN g ELSE before(t)
      <4>1. x \in Tile => s0.cache[x] = before(x)
        BY <1>2
      <4> QED  BY <2>2, <4>1 DEF Saved, Entered
    <3> HIDE DEF u, before, after, f, x, g
    <3> QED  BY <1>2, <3>1, <3>2
  <2>3. CASE ~f.key /\ ~s0.cache[x].here
    <3>1. u = s0
      BY <2>3 DEF SaveDataToCache
    <3>2. \A t \in Tile : after(t) = before(t)
      BY <1>2, <2>3 DEF Saved, Entered
    <3> HIDE DEF u, before, after, f, x
    <3> QED  BY <1>2, <3>1, <3>2
  <2> QED  BY <2>1, <2>2, <2>3
<1>4. Saves(s, out) = u
  BY DEF Saves, s0, m
<1> HIDE DEF u, after, before
<1> QED  BY <1>2, <1>3, <1>4 DEF Saving, after, m

(* saveTileAndNotify() as far as the cache goes, with the eviction before it. *)
LEMMA TakeTile ==
    ASSUME NEW s, NEW d, Kept(s, d), s.up # <<>>, Head(s.up).k = "tile", NEW out
    PROVE  Kept(Saves(s, out), d)
<1> DEFINE m == Head(s.up)
           f == m.f
           x == m.t
           before(t) == Left(s, out, t)
           after(t) == Entered(s, out, m, t)
           u == Saves(s, out)
<1>1. /\ Formed(s) /\ DOMAIN s = Fields /\ IsSeq(s.up) /\ s.cache = [t \in Tile |-> s.cache[t]]
      /\ m = s.up[1]
  BY Shortened DEF Kept, Formed
<1>2. Saving(s, out, u)
  BY <1>1, SaveEffect
<1> HIDE DEF u
<1>3. /\ DOMAIN u = Fields /\ u.queue = s.queue /\ u.requested = s.requested
      /\ u.up = Tail(s.up) /\ u.prev = s.prev /\ u.nextWid = s.nextWid
      /\ u.cache = [t \in Tile |-> Entered(s, out, Head(s.up), t)]
  BY <1>2 DEF Saving
<1> HIDE DEF before, after, m
<1>4. ASSUME NEW t \in Tile
      PROVE  /\ Entry(u.cache[t])
             /\ FreshAt(t, u.cache[t], u.queue, u.up, d[t])
             /\ ChainAt(t, u.cache[t], u.up, u.prev[t])
  <2> DEFINE e == before(t)
             e2 == after(t)
             p == s.prev[t]
  <2>1. Entry(e) /\ ChainAt(t, e, s.up, p) /\ FreshAt(t, e, s.queue, s.up, d[t])
    <3>1. /\ Entry(s.cache[t]) /\ ChainAt(t, s.cache[t], s.up, p)
          /\ FreshAt(t, s.cache[t], s.queue, s.up, d[t])
      BY DEF Kept, Formed
    <3>2. e = NotCached \/ e = s.cache[t]
      BY DEF before, Left
    <3> HIDE DEF e, p
    <3> QED  BY <3>1, <3>2, Evicted
  <2>2. u.cache[t] = e2 /\ u.queue = s.queue /\ u.up = Tail(s.up) /\ u.prev[t] = p
    BY <1>3 DEF after, m
  <2>3. CASE t = x
    <3>1. 1 \in Of(s.up, t)
      <4>1. 1 \in DOMAIN s.up
        BY <1>1, Shortened
      <4> QED  BY <1>1, <2>3, <4>1 DEF Of, m
    <3>2. e2 = Saved(e, s.up[1].f)
      BY <1>1, <2>3 DEF after, before, Entered
    <3> HIDE DEF e, e2, p
    <3>3. /\ Entry(e2)
          /\ e2.here => /\ IsSeq(e2.frames) /\ e2.frames # <<>> /\ Last(e2.frames) = s.up[1].f
                        /\ e2.frames[1].key
                        /\ \A i \in 2..Len(e2.frames) : e2.frames[i].from = e2.frames[i - 1].c
      BY <1>1, <2>1, <3>1, <3>2, SavedEntry
    <3>4. ChainAt(t, e2, Tail(s.up), p)
      BY <1>1, <2>1, <3>1, <3>3, ChainTailTile
    <3>5. FreshAt(t, e2, s.queue, Tail(s.up), d[t])
      BY <1>1, <2>1, <3>1, <3>3, FreshTail
    <3> QED  BY <2>2, <3>3, <3>4, <3>5
  <2>4. CASE t # x
    <3>1. 1 \notin Of(s.up, t)
      BY <1>1, <2>4 DEF Of
    <3>2. e2 = e /\ s.up[1].k = "tile"
      BY <1>1, <2>4 DEF m, after, before, Entered
    <3> HIDE DEF e, e2, p
    <3>3. ChainAt(t, e2, Tail(s.up), p)
      BY <1>1, <2>1, <3>1, <3>2, ChainTailOther
    <3>4. FreshAt(t, e2, s.queue, Tail(s.up), d[t])
      BY <1>1, <2>1, <3>2, FreshTail
    <3> QED  BY <2>1, <2>2, <3>2, <3>3, <3>4
  <2> QED  BY <2>3, <2>4
<1>5. Formed(u)
  <2>1. IsSeq(u.up) /\ Telling(u.up) /\ Worded(u.up)
    <3>1. /\ IsSeq(u.up) /\ DOMAIN s.up = 1..Len(s.up) /\ Len(s.up) \in Nat
          /\ DOMAIN u.up = 1..Len(s.up)-1 /\ \A i \in DOMAIN u.up : u.up[i] = s.up[i + 1]
      BY <1>1, <1>3, Shortened
    <3>2. \A i \in DOMAIN u.up : i + 1 \in DOMAIN s.up
      BY <3>1
    <3>3. Telling(s.up) /\ Worded(s.up)
      BY <1>1 DEF Formed
    <3>4. Telling(u.up)
      BY <3>1, <3>2, <3>3 DEF Telling
    <3>5. Worded(u.up)
      BY <3>1, <3>2, <3>3 DEF Worded
    <3> QED  BY <3>1, <3>4, <3>5
  <2>2. u.cache = [t \in Tile |-> u.cache[t]]
    BY <1>3
  <2> QED  BY <1>1, <1>3, <1>4, <2>1, <2>2 DEF Formed
<1>6. Kept(u, d)
  BY <1>4, <1>5 DEF Kept
<1> QED  BY <1>6 DEF u

(* wsd takes a message that is no rendering: entries may lose their validity, and lose it *)
(* when the message invalidates them. It may be forwarded to the browser.                 *)
Takes(s, u) ==
    /\ DOMAIN u = Fields /\ u.queue = s.queue /\ u.requested = s.requested /\ u.up = Tail(s.up)
    /\ u.prev = s.prev /\ u.nextWid = s.nextWid /\ u.cache = [t \in Tile |-> u.cache[t]]
    /\ \A t \in Tile :
          /\ Entry(u.cache[t])
          /\ u.cache[t].here => s.cache[t].here /\ u.cache[t].frames = s.cache[t].frames
          /\ u.cache[t].here /\ u.cache[t].valid =>
                s.cache[t].valid /\ ~(Head(s.up).k = "inval" /\ t \in Head(s.up).ts)
    /\ u.wire = s.wire /\ u.sent = s.sent
    /\ \/ u.sendQ = s.sendQ
       \/ \E m : m.k \in {"inval", "status"} /\ u.sendQ = Append(s.sendQ, m)

(* Then the cache stays as good as it was. *)
LEMMA TakeOther ==
    ASSUME NEW s, NEW d, Kept(s, d), s.up # <<>>, Head(s.up).k # "tile", NEW u, Takes(s, u)
    PROVE  Kept(u, d)
<1>0. /\ DOMAIN u = Fields /\ u.queue = s.queue /\ u.requested = s.requested /\ u.up = Tail(s.up)
      /\ u.prev = s.prev /\ u.nextWid = s.nextWid /\ u.cache = [t \in Tile |-> u.cache[t]]
      /\ \A t \in Tile :
            /\ Entry(u.cache[t])
            /\ u.cache[t].here => s.cache[t].here /\ u.cache[t].frames = s.cache[t].frames
            /\ u.cache[t].here /\ u.cache[t].valid =>
                  s.cache[t].valid /\ ~(Head(s.up).k = "inval" /\ t \in Head(s.up).ts)
  BY DEF Takes
<1>1. /\ Formed(s) /\ IsSeq(s.up) /\ Head(s.up) = s.up[1]
      /\ IsSeq(u.up) /\ DOMAIN s.up = 1..Len(s.up) /\ Len(s.up) \in Nat
      /\ DOMAIN u.up = 1..Len(s.up)-1 /\ \A i \in DOMAIN u.up : u.up[i] = s.up[i + 1]
  BY <1>0, Shortened DEF Kept, Formed
<1>2. Formed(u)
  <2>1. \A i \in DOMAIN u.up : i + 1 \in DOMAIN s.up
    BY <1>1
  <2>2. Telling(u.up) /\ Worded(u.up)
    BY <1>1, <2>1 DEF Formed, Telling, Worded
  <2> QED  BY <1>0, <1>1, <2>2 DEF Formed
<1>3. ASSUME NEW t \in Tile
      PROVE  FreshAt(t, u.cache[t], u.queue, u.up, d[t]) /\ ChainAt(t, u.cache[t], u.up, u.prev[t])
  <2> DEFINE e == s.cache[t]
             e2 == u.cache[t]
             p == s.prev[t]
  <2>1. ChainAt(t, e, s.up, p) /\ FreshAt(t, e, s.queue, s.up, d[t])
    BY DEF Kept
  <2>2. 1 \notin Of(s.up, t)
    BY <1>1 DEF Of
  <2>3. /\ e2.here => e.here /\ e2.frames = e.frames
        /\ e2.here /\ e2.valid => /\ e.here /\ e.valid /\ e2.frames = e.frames
                                  /\ ~(s.up[1].k = "inval" /\ t \in s.up[1].ts)
    BY <1>0, <1>1
  <2> HIDE DEF e, e2, p
  <2>4. ChainAt(t, e2, Tail(s.up), p)
    BY <1>1, <2>1, <2>2, <2>3, ChainTailOther
  <2>5. FreshAt(t, e2, s.queue, Tail(s.up), d[t])
    BY <1>1, <2>1, <2>3, FreshTail
  <2> QED  BY <1>0, <2>4, <2>5 DEF e2, p
<1> QED  BY <1>2, <1>3 DEF Kept

(* handleTileInvalidation(): the message is taken, and then tiles are requested. *)
LEMMA TakeInval ==
    ASSUME NEW s, NEW d, Kept(s, d), s.up # <<>>, Head(s.up).k = "inval"
    PROVE  \E w : /\ Takes(s, w) /\ Kept(w, d)
                 /\ Calm(w, HandleTileInvalidation([s EXCEPT !.up = Tail(@)],
                                                   Head(s.up).ts, Head(s.up).mine))
<1> DEFINE ts == Head(s.up).ts
           mine == Head(s.up).mine
           s0 == [s EXCEPT !.up = Tail(@)]
           s1 == IF mine THEN [s0 EXCEPT !.sendQ = Append(@, [k |-> "inval", ts |-> ts])] ELSE s0
           hit == {t \in ts : s1.cache[t].here}
           s2 == [s1 EXCEPT !.cache = At(@, hit, LAMBDA e : [e EXCEPT !.valid = FALSE])]
           seen == {t \in ts : t[2] \in s0.area /\ (IsText(s0) \/ Part(t) = s0.part)}
           u == HandleTileInvalidation(s0, ts, mine)
<1>1. /\ DOMAIN s = Fields /\ IsSeq(s.up) /\ Head(s.up) = s.up[1] /\ 1 \in DOMAIN s.up
      /\ s.cache = [t \in Tile |-> s.cache[t]] /\ \A t \in Tile : Entry(s.cache[t])
  BY Shortened DEF Kept, Formed
<1>2. IsFiniteSet(ts)
  BY <1>1 DEF Kept, Formed, Telling
<1>3. u \in {HandleTileCombinedRequest(s2, Sorted(seen), FALSE), s2}
  BY DEF HandleTileInvalidation
<1>4. /\ DOMAIN s1 = Fields /\ s1.queue = s.queue /\ s1.requested = s.requested
      /\ s1.up = Tail(s.up) /\ s1.prev = s.prev /\ s1.cache = s.cache /\ s1.nextWid = s.nextWid
      /\ s1.wire = s.wire /\ s1.sent = s.sent
      /\ s1.sendQ = s.sendQ \/ \E m : m.k \in {"inval", "status"} /\ s1.sendQ = Append(s.sendQ, m)
  <2> DEFINE m == [k |-> "inval", ts |-> ts]
  <2>1. m.k \in {"inval", "status"}
    OBVIOUS
  <2> HIDE DEF ts, mine, m
  <2>2. s1.sendQ = s.sendQ \/ s1.sendQ = Append(s.sendQ, m)
    BY <1>1 DEF m
  <2> QED  BY <1>1, <2>1, <2>2
<1> HIDE DEF s1
<1>5. /\ DOMAIN s2 = Fields /\ s2.queue = s.queue /\ s2.requested = s.requested
      /\ s2.up = Tail(s.up) /\ s2.prev = s.prev /\ s2.nextWid = s.nextWid
      /\ s2.wire = s.wire /\ s2.sent = s.sent /\ s2.sendQ = s1.sendQ
      /\ s2.cache = At(s.cache, hit, LAMBDA e : [e EXCEPT !.valid = FALSE])
  <2> HIDE DEF hit
  <2> QED  BY <1>4
<1>6. /\ s2.cache = [t \in Tile |-> s2.cache[t]]
      /\ \A t \in Tile : s2.cache[t] = IF t \in hit THEN [s.cache[t] EXCEPT !.valid = FALSE] ELSE s.cache[t]
  BY <1>1, <1>5 DEF At
<1>7. ASSUME NEW t \in Tile
      PROVE  /\ Entry(s2.cache[t])
             /\ s2.cache[t].here => s.cache[t].here /\ s2.cache[t].frames = s.cache[t].frames
             /\ s2.cache[t].here /\ s2.cache[t].valid =>
                   s.cache[t].valid /\ ~(Head(s.up).k = "inval" /\ t \in Head(s.up).ts)
  <2>1. Entry(s.cache[t])
    BY <1>1
  <2>2. CASE t \in hit
    <3>1. s.cache[t].here /\ s2.cache[t] = [s.cache[t] EXCEPT !.valid = FALSE]
      BY <1>4, <1>6, <2>2
    <3>2. /\ DOMAIN s.cache[t] = {"here", "valid", "frames"} /\ s.cache[t].here = TRUE
          /\ IsSeq(s.cache[t].frames) /\ s.cache[t].frames # <<>>
      BY <2>1, <3>1 DEF Entry, NotCached
    <3>3. /\ DOMAIN s2.cache[t] = {"here", "valid", "frames"} /\ s2.cache[t].here = TRUE
          /\ s2.cache[t].valid = FALSE /\ s2.cache[t].frames = s.cache[t].frames
      <4> DEFINE e == s.cache[t]
      <4> HIDE DEF e
      <4>1. /\ DOMAIN e = {"here", "valid", "frames"} /\ e.here = TRUE
            /\ s2.cache[t] = [e EXCEPT !.valid = FALSE]
        BY <3>1, <3>2 DEF e
      <4> DEFINE g == s2.cache[t]
      <4> HIDE DEF g
      <4>2. g = [e EXCEPT !.valid = FALSE]
        BY <4>1 DEF g
      <4>3. DOMAIN g = {"here", "valid", "frames"} /\ g.here = TRUE /\ g.valid = FALSE
            /\ g.frames = e.frames
        BY <4>1, <4>2
      <4> QED  BY <4>3 DEF e, g
    <3> QED  BY <3>1, <3>2, <3>3 DEF Entry
  <2>3. CASE t \notin hit
    <3>1. s2.cache[t] = s.cache[t]
      BY <1>6, <2>3
    <3>2. s.cache[t].here => t \notin ts
      BY <1>4, <2>3
    <3> QED  BY <2>1, <3>1, <3>2
  <2> QED  BY <2>2, <2>3
<1> HIDE DEF s2
<1>8. Takes(s, s2) /\ Kept(s2, d)
  <2>1. Head(s.up).k # "tile"
    OBVIOUS
  <2>2. Takes(s, s2)
    BY <1>4, <1>5, <1>6, <1>7 DEF Takes
  <2> QED  BY <2>1, <2>2, TakeOther
<1>9. Calm(s2, HandleTileCombinedRequest(s2, Sorted(seen), FALSE))
  <2>1. seen \subseteq ts
    OBVIOUS
  <2>2. IsFiniteSet(seen)
    BY <1>2, <2>1, FS_Subset
  <2> HIDE DEF seen
  <2> QED  BY <1>8, <2>2, SortedSeq, CombinedRequestCalm DEF Kept
<1> HIDE DEF seen, u
<1>10. Calm(s2, u)
  BY <1>3, <1>8, <1>9, CalmSelf DEF Kept
<1> QED  BY <1>8, <1>10 DEF u

(* drainQueue(): an invalidation or a new view, and what the Kit tells wsd of it. *)
LEMMA DrainKeeps ==
    ASSUME NEW s, NEW d, Kept(s, d), s.queue # <<>>, NEW m, NEW u,
           DOMAIN u = Fields, u.queue = Tail(s.queue), u.up = Append(s.up, m),
           u.requested = s.requested, u.prev = s.prev, u.cache = s.cache, u.nextWid = s.nextWid,
           m.k # "tile",
           m.k = "inval" => DOMAIN m = {"k", "ts", "mine"},
           m.k = "inval" => Head(s.queue).k = "inval",
           Head(s.queue).k = "inval" => m.k = "inval" /\ m.ts = Head(s.queue).ts
    PROVE  Kept(u, d)
<1>1. /\ Formed(s) /\ IsSeq(s.up) /\ IsSeq(s.queue) /\ Telling(s.queue) /\ Telling(s.up)
      /\ Worded(s.up)
  BY DEF Kept, Formed
<1>2. /\ IsSeq(u.queue) /\ DOMAIN s.queue = 1..Len(s.queue) /\ Len(s.queue) \in Nat \ {0}
      /\ Head(s.queue) = s.queue[1]
      /\ DOMAIN u.queue = 1..Len(s.queue)-1 /\ \A i \in DOMAIN u.queue : u.queue[i] = s.queue[i + 1]
  BY <1>1, Shortened
<1>3. m.k = "inval" => IsFiniteSet(m.ts)
  <2>1. 1 \in DOMAIN s.queue
    BY <1>2
  <2> QED  BY <1>1, <1>2, <2>1 DEF Telling
<1>4. Formed(u)
  <2>1. Telling(u.queue)
    <3>1. \A i \in DOMAIN u.queue : i + 1 \in DOMAIN s.queue
      BY <1>2
    <3> QED  BY <1>1, <1>2, <3>1 DEF Telling
  <2>2. IsSeq(u.up) /\ Telling(u.up)
    BY <1>1, <1>3, Lengthened
  <2>3. Worded(u.up)
    <3>1. /\ Len(s.up) \in Nat /\ DOMAIN s.up = 1..Len(s.up) /\ DOMAIN u.up = 1..Len(s.up)+1
          /\ \A i \in DOMAIN s.up : u.up[i] = s.up[i]
          /\ u.up[Len(s.up) + 1] = m
      BY <1>1, Appended
    <3>2. \A i \in DOMAIN u.up : i \in DOMAIN s.up \/ i = Len(s.up) + 1
      BY <3>1
    <3> QED  BY <1>1, <3>1, <3>2 DEF Worded
  <2> QED  BY <1>1, <1>2, <2>1, <2>2, <2>3 DEF Formed
<1>5. ASSUME NEW t \in Tile PROVE ChainAt(t, u.cache[t], u.up, u.prev[t])
  <2>1. ChainAt(t, s.cache[t], s.up, s.prev[t])
    BY DEF Kept
  <2>2. ~(m.k = "tile" /\ m.t = t)
    OBVIOUS
  <2>3. ChainAt(t, s.cache[t], Append(s.up, m), s.prev[t])
    BY <1>1, <2>1, <2>2, ChainAppendOther
  <2> QED  BY <2>3
<1>6. ASSUME NEW t \in Tile PROVE FreshAt(t, u.cache[t], u.queue, u.up, d[t])
  <2>0. FreshAt(t, s.cache[t], s.queue, s.up, d[t])
    BY DEF Kept
  <2>1. /\ Of(Append(s.up, m), t) = Of(s.up, t)
        /\ \A i \in Of(s.up, t) : Append(s.up, m)[i] = s.up[i]
    <3>1. IsSeq(s.up) /\ ~(m.k = "tile" /\ m.t = t)
      BY <1>1
    <3>2. Of(Append(s.up, m), t) = Of(s.up, t)
      BY ONLY <3>1, OfAppendOther
    <3>3. \A i \in Of(s.up, t) : Append(s.up, m)[i] = s.up[i]
      BY <3>1, Appended DEF Of
    <3> QED  BY <3>2, <3>3
  <2>2. /\ Announced(s.up, t) => Announced(Append(s.up, m), t)
        /\ m.k = "inval" /\ t \in m.ts => Announced(Append(s.up, m), t)
    BY <1>1, NewsAppend, Zenon
  <2>3. \A i \in DOMAIN s.up : Behind(s.up, i, t) => Behind(Append(s.up, m), i, t)
    BY <1>1, NewsAppend, Zenon
  <2>4. m.k = "inval" /\ t \in m.ts => \A i \in DOMAIN s.up : Behind(Append(s.up, m), i, t)
    BY <1>1, NewsAppend, Zenon
  <2>5. Of(s.up, t) \subseteq DOMAIN s.up
    BY DEF Of
  <2>6. CASE Announced(s.queue, t)
    <3>1. (Head(s.queue).k = "inval" /\ t \in Head(s.queue).ts) \/ Announced(u.queue, t)
      <4>1. PICK i \in DOMAIN s.queue : s.queue[i].k = "inval" /\ t \in s.queue[i].ts
        BY <2>6 DEF Announced
      <4>2. CASE i = 1
        BY <1>2, <4>1, <4>2
      <4>3. CASE i # 1
        <5>1. i - 1 \in DOMAIN u.queue /\ (i - 1) + 1 = i
          BY <1>2, <4>3
        <5> QED  BY <1>2, <4>1, <5>1 DEF Announced
      <4> QED  BY <4>2, <4>3
    <3>2. CASE Announced(u.queue, t)
      BY <3>2 DEF FreshAt
    <3>3. CASE m.k = "inval" /\ t \in m.ts
      <4>1. \A i \in Of(u.up, t) : Behind(u.up, i, t)
        BY <2>1, <2>4, <2>5, <3>3
      <4> QED  BY <2>2, <3>3, <4>1 DEF FreshAt
    <3> QED  BY <3>1, <3>2, <3>3
  <2>7. CASE ~Announced(s.queue, t)
    <3>1. /\ s.cache[t].here /\ s.cache[t].valid =>
                Last(s.cache[t].frames).c = d[t] \/ Announced(s.up, t)
          /\ \A i \in Of(s.up, t) : s.up[i].f.c = d[t] \/ Behind(s.up, i, t)
      BY <2>0, <2>7 DEF FreshAt
    <3>2. \A i \in Of(u.up, t) : u.up[i].f.c = d[t] \/ Behind(u.up, i, t)
      BY <2>1, <2>3, <2>5, <3>1
    <3> QED  BY <2>2, <3>1, <3>2 DEF FreshAt
  <2> QED  BY <2>6, <2>7
<1> QED  BY <1>4, <1>5, <1>6 DEF Kept

-----------------------------------------------------------------------------
(* The steps *)

PageInv(c) == IsFiniteSet(c.area) /\ \E pic : Page(c, c.area, pic)
CacheInv == Kept(srv, doc) /\ PageInv(client)

(* saveTileAndNotify(): what it sends to the session and the subscription it ends leave the *)
(* cache alone.                                                                             *)
LEMMA NotifyCalm ==
    ASSUME NEW s, NEW m, m.f.wid \in Nat, Formed(SaveDataToCache(s, m))
    PROVE  Calm(SaveDataToCache(s, m), SaveTileAndNotify(s, m))
<1> DEFINE t == m.t
           s1 == SaveDataToCache(s, m)
           r == s.rendering[t]
           s2 == IF r.here /\ r.sub /\ s1.cache[t].here THEN SendTile(s1, t, m.f.wid) ELSE s1
           u == SaveTileAndNotify(s, m)
<1>1. u \in {[s2 EXCEPT !.rendering[t] = NotRendering], s2}
  BY DEF SaveTileAndNotify, ForgetTileBeingRendered
<1>2. Formed(s1)
  OBVIOUS
<1> HIDE DEF s1
<1>3. (s1.cache[t].here => Calm(s1, SendTile(s1, t, m.f.wid))) /\ Calm(s1, s1)
  BY <1>2, SendTileCalm, CalmSelf
<1>4. Calm(s1, s2)
  BY <1>3
<1> HIDE DEF s2
<1>5. Formed(s2)
  BY <1>4 DEF Calm, Same
<1>6. Quiet(s2, [s2 EXCEPT !.rendering[t] = NotRendering])
  BY <1>5 DEF Quiet, Idle, Silent, Formed
<1>7. Calm(s2, [s2 EXCEPT !.rendering[t] = NotRendering])
  BY <1>5, <1>6, QuietCalm
<1>8. Calm(s1, u)
  BY <1>1, <1>4, <1>7, CalmTwice
<1> QED  BY <1>8 DEF s1

(* A rendering that arrives after others have been evicted. *)
LEMMA WsdTileSaves ==
    ASSUME CacheInv, WsdTile
    PROVE  \E out : Kept(Saves(srv, out), doc) /\ Calm(Saves(srv, out), srv')
<1>1. PICK out : srv' = SaveTileAndNotify([srv EXCEPT !.up = Tail(@), !.cache = At(@, out, LAMBDA e : NotCached)],
                                           Head(srv.up))
  BY DEF WsdTile
<1> DEFINE s0 == [srv EXCEPT !.up = Tail(@), !.cache = At(@, out, LAMBDA e : NotCached)]
           m == Head(srv.up)
<1>2. Kept(SaveDataToCache(s0, m), doc)
  BY TakeTile DEF CacheInv, WsdTile, Saves
<1>3. Calm(SaveDataToCache(s0, m), SaveTileAndNotify(s0, m))
  <2>1. IsSeq(srv.up) /\ Worded(srv.up) /\ srv.up # <<>> /\ m.k = "tile"
    BY DEF CacheInv, Kept, Formed, WsdTile
  <2>2. 1 \in DOMAIN srv.up /\ m = srv.up[1]
    BY <2>1, Shortened
  <2>3. m.f.wid \in Nat
    BY <2>1, <2>2 DEF Worded
  <2> HIDE DEF s0, m
  <2> QED  BY <1>2, <2>3, NotifyCalm DEF Kept
<1>4. Saves(srv, out) = SaveDataToCache(s0, m) /\ srv' = SaveTileAndNotify(s0, m)
  BY <1>1 DEF Saves
<1> HIDE DEF s0, m
<1> QED  BY <1>2, <1>3, <1>4

(* wsd handles a rendering without bytes. *)
LEMMA WsdUnchangedTakes ==
    ASSUME CacheInv, WsdUnchanged PROVE Takes(srv, srv') /\ Kept(srv', doc)
<1> DEFINE s == [srv EXCEPT !.up = Tail(@)]
           m == Head(srv.up)
<1>1. Kept(srv, doc) /\ Formed(srv) /\ DOMAIN srv = Fields /\ srv.up # <<>> /\ m.k = "unchanged"
  BY DEF CacheInv, Kept, Formed, WsdUnchanged
<1>2. srv' = HandleUnchanged(s, m)
  BY DEF WsdUnchanged
<1>3. srv' \in {[s EXCEPT !.rendering[m.t] = NotRendering], s}
  BY <1>2 DEF HandleUnchanged, ForgetTileBeingRendered
<1>4. /\ DOMAIN srv' = Fields /\ srv'.queue = srv.queue /\ srv'.requested = srv.requested
      /\ srv'.up = Tail(srv.up) /\ srv'.prev = srv.prev /\ srv'.cache = srv.cache
      /\ srv'.nextWid = srv.nextWid /\ srv'.wire = srv.wire /\ srv'.sent = srv.sent
      /\ srv'.sendQ = srv.sendQ
  BY <1>1, <1>3
<1>5. srv'.cache = [t \in Tile |-> srv'.cache[t]] /\ \A t \in Tile : Entry(srv'.cache[t])
  BY <1>1, <1>4 DEF Formed
<1>6. Head(srv.up).k # "tile" /\ Head(srv.up).k # "inval"
  BY <1>1
<1>7. Takes(srv, srv')
  BY <1>4, <1>5, <1>6 DEF Takes
<1> QED  BY <1>1, <1>6, <1>7, TakeOther

(* wsd handles an invalidation. *)
LEMMA WsdInvalidateTakes ==
    ASSUME CacheInv, WsdInvalidate PROVE \E w : Takes(srv, w) /\ Kept(w, doc) /\ Calm(w, srv')
BY TakeInval DEF CacheInv, WsdInvalidate

(* wsd forwards the status of a new view. *)
LEMMA WsdStatusTakes ==
    ASSUME CacheInv, WsdStatus
    PROVE  \E w : Calm(srv, w) /\ Takes(w, srv') /\ Kept(srv', doc)
<1> DEFINE s1 == SetClientPart(srv, client.part)
<1>1. Kept(srv, doc) /\ Formed(srv)
  BY DEF CacheInv, Kept
<1>2. Calm(srv, s1)
  BY <1>1, SetClientPartCalm
<1>3. s1.requested = srv.requested /\ s1.queue = srv.queue
  BY <1>1 DEF SetClientPart, Formed
<1>4. Kept(s1, doc) /\ Formed(s1) /\ s1.up = srv.up
  BY <1>1, <1>2, CalmKeeps DEF Calm, Same
<1>5. srv' = [s1 EXCEPT !.up = Tail(@), !.sendQ = Append(@, Head(srv.up))]
  BY DEF WsdStatus
<1>6. s1.up # <<>> /\ Head(s1.up).k = "status"
  BY <1>4 DEF WsdStatus
<1> HIDE DEF s1
<1>7. /\ DOMAIN srv' = Fields /\ srv'.queue = s1.queue /\ srv'.requested = s1.requested
      /\ srv'.up = Tail(s1.up) /\ srv'.prev = s1.prev /\ srv'.cache = s1.cache
      /\ srv'.nextWid = s1.nextWid /\ srv'.wire = s1.wire /\ srv'.sent = s1.sent
      /\ srv'.sendQ = Append(s1.sendQ, Head(srv.up))
  BY <1>4, <1>5 DEF Formed
<1>8. srv'.cache = [t \in Tile |-> srv'.cache[t]] /\ \A t \in Tile : Entry(srv'.cache[t])
  BY <1>4, <1>7 DEF Formed
<1>9. Head(s1.up).k # "tile" /\ Head(s1.up).k # "inval" /\ Head(srv.up).k \in {"inval", "status"}
  BY <1>6 DEF WsdStatus
<1>10. Takes(s1, srv')
  BY <1>6, <1>7, <1>8, <1>9 DEF Takes
<1>11. Kept(srv', doc)
  BY <1>4, <1>6, <1>9, <1>10, TakeOther
<1> QED  BY <1>2, <1>10, <1>11

(* An edit outdates what is cached and on its way, and queues the invalidation that says so. *)
LEMMA EditKeeps == ASSUME CacheInv, NEW t \in Tile, Edit(t) PROVE Kept(srv', doc')
<1>1. Kept(srv, doc) /\ Formed(srv)
  BY DEF CacheInv, Kept
<1>2. IsFiniteSet({t})
  BY FS_Singleton
<1>3. srv' = PutInval(srv, {t}) /\ doc' = [doc EXCEPT ![t] = @ + 1]
  BY DEF Edit
<1>4. Calm(srv, srv') /\ Announced(srv'.queue, t)
  BY <1>1, <1>2, <1>3, PutInvalCalm
<1>5. Kept(srv', doc)
  BY <1>1, <1>4, CalmKeeps
<1>6. ASSUME NEW x \in Tile PROVE FreshAt(x, srv'.cache[x], srv'.queue, srv'.up, doc'[x])
  <2>1. CASE x = t
    BY <1>4, <2>1 DEF FreshAt
  <2>2. CASE x # t
    <3>1. doc'[x] = doc[x]
      BY <1>3, <2>2
    <3> QED  BY <1>5, <3>1 DEF Kept
  <2> QED  BY <2>1, <2>2
<1> QED  BY <1>5, <1>6 DEF Kept

(* An invalidation without an edit. *)
LEMMA InvalidateMoreCalm ==
    ASSUME CacheInv, NEW t \in Tile, InvalidateMore(t) PROVE Calm(srv, srv')
<1>1. Formed(srv) /\ IsFiniteSet({t}) /\ srv' = PutInval(srv, {t})
  BY FS_Singleton DEF CacheInv, Kept, InvalidateMore
<1> QED  BY <1>1, PutInvalCalm

(* The Kit takes an invalidation from its queue and sends it to wsd. *)
LEMMA KitInvalidateKeeps == ASSUME CacheInv, KitInvalidate PROVE Kept(srv', doc)
<1> DEFINE m == [k |-> "inval", ts |-> Head(srv.queue).ts, mine |-> srv.view = "active"]
<1>1. Kept(srv, doc) /\ DOMAIN srv = Fields /\ srv.queue # <<>> /\ Head(srv.queue).k = "inval"
  BY DEF CacheInv, Kept, Formed, KitInvalidate
<1>2. srv' = [srv EXCEPT !.queue = Tail(@), !.remembered = @ \/ srv.view = "inactive",
                         !.up = Append(@, m)]
  BY DEF KitInvalidate
<1>3. m.k = "inval" /\ DOMAIN m = {"k", "ts", "mine"} /\ m.ts = Head(srv.queue).ts
  OBVIOUS
<1> HIDE DEF m
<1>4. /\ DOMAIN srv' = Fields /\ srv'.queue = Tail(srv.queue) /\ srv'.up = Append(srv.up, m)
      /\ srv'.requested = srv.requested /\ srv'.prev = srv.prev /\ srv'.cache = srv.cache
      /\ srv'.nextWid = srv.nextWid
  BY <1>1, <1>2
<1> QED  BY <1>1, <1>3, <1>4, DrainKeeps

(* The Kit loads a view. *)
LEMMA KitLoadKeeps == ASSUME CacheInv, KitLoad PROVE Kept(srv', doc)
<1> DEFINE m == [k |-> "status"]
<1>1. Kept(srv, doc) /\ DOMAIN srv = Fields /\ srv.queue # <<>> /\ Head(srv.queue).k = "load"
  BY DEF CacheInv, Kept, Formed, KitLoad
<1> DEFINE s == [srv EXCEPT !.queue = Tail(@), !.view = "active", !.up = Append(@, m)]
<1>2. PICK out : srv' = DropDeltas(s, out)
  BY DEF KitLoad
<1>3. m.k = "status"
  OBVIOUS
<1> HIDE DEF m
<1>4. /\ DOMAIN s = Fields /\ s.queue = Tail(srv.queue) /\ s.up = Append(srv.up, m)
      /\ s.requested = srv.requested /\ s.prev = srv.prev /\ s.cache = srv.cache
      /\ s.nextWid = srv.nextWid
  BY <1>1
<1>5. m.k # "tile" /\ m.k # "inval" /\ Head(srv.queue).k # "inval"
  BY <1>1, <1>3
<1> HIDE DEF s
<1>6. Kept(s, doc)
  BY <1>1, <1>4, <1>5, DrainKeeps
<1> QED  BY <1>2, <1>6, DropKeeps

(* The Kit renders the tiles of a row; the invalidations stay in its queue. *)
LEMMA KitRenderKeeps == ASSUME CacheInv, KitRender PROVE Kept(srv', doc)
<1>0. PICK first \in Leading(srv.queue) : \E out :
        srv' = DropDeltas(
                 FoldLeft(Render,
                          [srv EXCEPT !.queue = PickAt(@, DOMAIN @ \ OnRow(@, Part(srv.queue[first].t)))],
                          Combined(srv.queue, first)), out)
  BY DEF KitRender
<1>1. PICK out : srv' = DropDeltas(
                 FoldLeft(Render,
                          [srv EXCEPT !.queue = PickAt(@, DOMAIN @ \ OnRow(@, Part(srv.queue[first].t)))],
                          Combined(srv.queue, first)), out)
  BY <1>0
<1> DEFINE q == srv.queue
           at == DOMAIN q \ OnRow(q, Part(q[first].t))
           r == PickAt(q, at)
           s == [srv EXCEPT !.queue = r]
           rs == Combined(q, first)
<1>2. Kept(srv, doc) /\ Formed(srv) /\ IsSeq(q) /\ Telling(q)
  BY DEF CacheInv, Kept, Formed
<1>3. IsSeq(rs)
  BY <1>2, CombinedSeq
<1>4. at \subseteq DOMAIN q /\ \A i \in DOMAIN q : q[i].k = "inval" => i \in at
  BY DEF OnRow
<1>5. srv' = DropDeltas(FoldLeft(Render, s, rs), out)
  BY <1>1
<1> HIDE DEF at, rs
<1>6. Thins(q, r, at)
  BY <1>2, <1>4, Picked
<1>7. IsSeq(r) /\ Telling(r) /\ \A t : Announced(q, t) => Announced(r, t)
  BY <1>2, <1>4, <1>6, Thinned
<1> HIDE DEF r
<1>8. Calm(srv, s)
  BY <1>2, <1>7, QueueCalm
<1> HIDE DEF s, q
<1>9. Kept(s, doc)
  BY <1>2, <1>8, CalmKeeps
<1>10. Kept(FoldLeft(Render, s, rs), doc)
  BY <1>3, <1>9, RenderAllKeeps
<1> QED  BY <1>5, <1>10, DropKeeps

(* The messages on the way are the same but for whom the invalidations are meant. *)
LEMMA ReconnectKeeps == ASSUME CacheInv, Reconnect PROVE Kept(srv', doc)
<1> DEFINE m == [k |-> "load"]
           up == srv.up
           up2 == [i \in DOMAIN up |-> IF up[i].k = "inval" THEN [up[i] EXCEPT !.mine = FALSE] ELSE up[i]]
<1>1. Kept(srv, doc) /\ Formed(srv) /\ IsSeq(srv.queue) /\ Telling(srv.queue)
      /\ IsSeq(up) /\ Telling(up) /\ Worded(up) /\ DOMAIN srv = Fields
  BY DEF CacheInv, Kept, Formed
<1>2. /\ DOMAIN srv' = Fields /\ srv'.queue = Append(srv.queue, m) /\ srv'.up = up2
      /\ srv'.requested = <<>> /\ srv'.prev = srv.prev /\ srv'.cache = srv.cache
      /\ srv'.nextWid = srv.nextWid
  BY <1>1 DEF Reconnect
<1>3. m.k # "inval"
  OBVIOUS
<1> HIDE DEF m
<1>4. /\ IsSeq(srv'.queue) /\ Telling(srv'.queue)
      /\ \A t : Announced(srv.queue, t) => Announced(srv'.queue, t)
  BY <1>1, <1>2, <1>3, Lengthened
<1>5. DOMAIN up = 1..Len(up) /\ Len(up) \in Nat
  BY <1>1, SeqParts
<1>6. IsSeq(up2)
  <2>1. up2 = [i \in 1..Len(up) |-> up2[i]]
    BY <1>5
  <2> HIDE DEF up2
  <2> QED  BY <1>5, <2>1, SeqByDomain
<1>7. DOMAIN up2 = DOMAIN up
  OBVIOUS
<1>8. ASSUME NEW i \in DOMAIN up
      PROVE  /\ up2[i].k = up[i].k
             /\ up[i].k = "inval" => up2[i].ts = up[i].ts /\ DOMAIN up2[i] = {"k", "ts", "mine"}
             /\ up[i].k # "inval" => up2[i] = up[i]
  <2>1. CASE up[i].k = "inval"
    <3>1. DOMAIN up[i] = {"k", "ts", "mine"} /\ up2[i] = [up[i] EXCEPT !.mine = FALSE]
      BY <1>1, <2>1 DEF Worded
    <3> QED  BY <2>1, <3>1
  <2>2. CASE up[i].k # "inval"
    BY <2>2
  <2> QED  BY <2>1, <2>2
<1> HIDE DEF up2
<1>9. Telling(up2) /\ Worded(up2)
  BY <1>1, <1>7, <1>8 DEF Telling, Worded
<1>10. ASSUME NEW t
       PROVE  /\ Of(up2, t) = Of(up, t) /\ \A i \in Of(up, t) : up2[i] = up[i]
              /\ Announced(up, t) => Announced(up2, t)
              /\ \A i : Behind(up, i, t) => Behind(up2, i, t)
  BY <1>7, <1>8 DEF Of, Announced, Behind
<1>11. Formed(srv')
  <2>1. IsSeq(<<>>)
    BY DEF IsSeq
  <2> QED  BY <1>1, <1>2, <1>4, <1>6, <1>9, <2>1 DEF Formed
<1>12. ASSUME NEW t \in Tile PROVE FreshAt(t, srv'.cache[t], srv'.queue, srv'.up, doc[t])
  <2>1. FreshAt(t, srv.cache[t], srv.queue, up, doc[t])
    BY <1>1 DEF Kept
  <2> HIDE DEF up
  <2> QED  BY <1>2, <1>4, <1>10, <2>1 DEF FreshAt
<1>13. ASSUME NEW t \in Tile PROVE ChainAt(t, srv'.cache[t], srv'.up, srv'.prev[t])
  <2>1. ChainAt(t, srv.cache[t], up, srv.prev[t])
    BY <1>1 DEF Kept
  <2> HIDE DEF up
  <2>2. Of(up2, t) = Of(up, t) /\ \A i \in Of(up, t) : up2[i] = up[i]
    BY <1>10
  <2>3. ChainAt(t, srv.cache[t], up2, srv.prev[t])
    BY <2>1, <2>2 DEF ChainAt
  <2> QED  BY <1>2, <2>3
<1> QED  BY <1>11, <1>12, <1>13 DEF Kept

(* In a step the layer gets the pictures pic, and wsd and the Kit stay calm from s on. *)
Handled(s, pic) ==
    Calm(s, srv') /\ Page(client', client'.area, pic) /\ IsFiniteSet(client'.area)

(* What the browser and the session do together is such a step. *)
LEMMA PairHandled ==
    ASSUME NEW s, NEW a, NEW pic, IsFiniteSet(a), NEW cs, Pair(s, a, pic, cs), Become(cs)
    PROVE  Handled(s, pic)
<1>1. client' = cs.c /\ srv' = cs.s /\ Page(cs.c, a, pic) /\ Calm(s, cs.s)
  BY DEF Become, Pair
<1>2. cs.c.area = a
  BY <1>1 DEF Page
<1> QED  BY <1>1, <1>2 DEF Handled

(* The browser takes a message from the wire. *)
Taken == [srv EXCEPT !.wire = Tail(@)]

(* That is no matter of the cache. *)
LEMMA TakenKept ==
    ASSUME CacheInv PROVE Kept(Taken, doc) /\ Formed(Taken)
<1>1. Kept(srv, doc) /\ Formed(srv) /\ DOMAIN srv = Fields
  BY DEF CacheInv, Kept, Formed
<1>2. Idle(srv, Taken)
  BY <1>1 DEF Idle, Taken
<1>3. Same(srv, Taken)
  BY <1>1, <1>2, IdleSame
<1> QED  BY <1>1, <1>3, SameKeeps DEF Same

(* The browser draws a tile and acknowledges it. *)
LEMMA ClientTileHandled ==
    ASSUME CacheInv, NEW pic, Page(client, client.area, pic), ClientTile
    PROVE  \E new : Repainted(pic, new, Head(srv.wire)) /\ Handled(Taken, new)
<1> DEFINE a == client.area
           m == Head(srv.wire)
           cs == [c |-> OnTileMsg(client, m), s |-> Taken]
<1>1. Page(client, a, pic) /\ IsFiniteSet(a) /\ Formed(Taken)
  BY TakenKept DEF CacheInv, PageInv
<1>2. Become(Send(cs, TileProcessed(Taken, m.t)))
  BY DEF ClientTile, Taken
<1> HIDE DEF m, a
<1>3. PICK new : Page(OnTileMsg(client, m), a, new) /\ Repainted(pic, new, m)
  BY <1>1, OnTileMsgPage
<1>4. Pair(Taken, a, new, cs) /\ cs.s = Taken
  BY <1>1, <1>3, CalmSelf DEF Pair
<1>5. Calm(Taken, TileProcessed(Taken, m.t))
  BY <1>1, TileProcessedCalm
<1> HIDE DEF cs
<1>6. Pair(Taken, a, new, Send(cs, TileProcessed(Taken, m.t)))
  BY <1>4, <1>5, SendPair
<1>7. Handled(Taken, new)
  BY <1>1, <1>2, <1>6, PairHandled
<1> QED  BY <1>3, <1>7 DEF m

(* The browser handles an invalidation. *)
LEMMA ClientInvalidateHandled ==
    ASSUME CacheInv, NEW pic, Page(client, client.area, pic), ClientInvalidate
    PROVE  Handled(Taken, pic)
<1>1. IsFiniteSet(client.area) /\ Formed(Taken)
  BY TakenKept DEF CacheInv, PageInv
<1>2. Page(client', client.area, pic)
  BY OnInvalidatePage DEF ClientInvalidate
<1>3. srv' = Taken
  BY DEF ClientInvalidate, Taken
<1>4. client'.area = client.area
  BY <1>2 DEF Page
<1>5. Calm(Taken, srv')
  BY <1>1, <1>3, CalmSelf
<1> QED  BY <1>1, <1>2, <1>4, <1>5 DEF Handled

(* The browser asks for everything again after a reconnection. *)
LEMMA ClientStatusHandled ==
    ASSUME CacheInv, NEW pic, Page(client, client.area, pic), ClientStatus
    PROVE  Handled(Taken, pic)
<1> DEFINE a == client.area
           c == [client EXCEPT !.sentArea = {}, !.active = TRUE, !.joining = FALSE]
           cs == [c |-> c, s |-> Taken]
<1>1. Page(client, a, pic) /\ IsFiniteSet(a) /\ Formed(Taken)
  BY TakenKept DEF CacheInv, PageInv
<1>2. Become(RequestNewTiles(cs))
  BY DEF ClientStatus, Taken
<1>3. /\ DOMAIN c = PageFields /\ c.area = client.area
      /\ c.tileCache = client.tileCache /\ c.tiles = client.tiles
  BY DEF Page
<1> HIDE DEF c, a
<1>4. Page(c, a, pic)
  BY <1>1, <1>3, SamePage
<1>5. Pair(Taken, a, pic, cs)
  BY <1>1, <1>4, CalmSelf DEF Pair
<1> HIDE DEF cs
<1> QED  BY <1>1, <1>2, <1>5, RequestNewTilesPair, PairHandled

(* The user scrolls. *)
LEMMA MoveHandled ==
    ASSUME CacheInv, NEW pic, Page(client, client.area, pic), NEW a \in Areas, Move(a)
    PROVE  Handled(srv, pic)
<1> DEFINE c == [client EXCEPT !.area = a]
           cs == [Now EXCEPT !.c.area = a]
<1>1. Formed(srv)
  BY DEF CacheInv, Kept
<1>2. IsFiniteSet(a)
  <2>1. a \subseteq Pos /\ IsFiniteSet(Pos)
    BY TilesAssumption
  <2> QED  BY <2>1, FS_Subset
<1>3. cs = [c |-> c, s |-> srv]
  BY DEF Now
<1>4. Become(Update(cs))
  BY DEF Move
<1>5. /\ DOMAIN c = PageFields /\ c.area = a
      /\ c.tileCache = client.tileCache /\ c.tiles = client.tiles
  BY DEF Page
<1> HIDE DEF cs, c
<1>6. Page(c, a, pic)
  BY <1>5 DEF Page
<1>7. Pair(srv, a, pic, cs)
  BY <1>1, <1>3, <1>6, CalmSelf DEF Pair
<1> QED  BY <1>2, <1>4, <1>7, UpdatePair, PairHandled

(* The user changes the part. *)
LEMMA SetPartHandled ==
    ASSUME CacheInv, NEW pic, Page(client, client.area, pic), NEW p, SetPart(p)
    PROVE  Handled(srv, pic)
<1> DEFINE a == client.area
           dir == IF p >= client.part THEN 1 ELSE -1
           c == [client EXCEPT !.part = p, !.dir = dir]
           s == SetClientPart(srv, p)
           cs == [c |-> c, s |-> s]
           cs1 == UpdateOnChangePart(cs)
           cs2 == [cs1 EXCEPT !.c = PruneTiles(@)]
<1>1. Formed(srv) /\ Page(client, a, pic) /\ IsFiniteSet(a)
  BY DEF CacheInv, Kept, PageInv
<1>2. Become(cs2)
  BY DEF SetPart
<1> HIDE DEF dir
<1>3. /\ DOMAIN c = PageFields /\ c.area = client.area
      /\ c.tileCache = client.tileCache /\ c.tiles = client.tiles
  BY DEF Page
<1>4. Calm(srv, s)
  BY <1>1, SetClientPartCalm
<1> HIDE DEF s, c, a
<1>5. Page(c, a, pic)
  BY <1>1, <1>3, SamePage
<1>6. Pair(srv, a, pic, cs)
  BY <1>4, <1>5 DEF Pair
<1> HIDE DEF cs
<1>7. Pair(srv, a, pic, cs1)
  BY <1>1, <1>6, UpdateOnChangePartPair
<1> HIDE DEF cs1
<1>8. Page(PruneTiles(cs1.c), a, pic) /\ cs2 = [cs1 EXCEPT !.c = PruneTiles(cs1.c)]
  BY <1>7, PruneTilesPage DEF Pair
<1>9. Pair(srv, a, pic, [cs1 EXCEPT !.c = PruneTiles(cs1.c)])
  BY <1>7, <1>8, LayerPair
<1> HIDE DEF cs2
<1> QED  BY <1>1, <1>2, <1>8, <1>9, PairHandled

(* The next part is fetched ahead. *)
LEMMA PreFetchPartTilesHandled ==
    ASSUME CacheInv, NEW pic, Page(client, client.area, pic), PreFetchPartTiles
    PROVE  Handled(srv, pic)
<1> DEFINE a == client.area
           p == client.part + client.dir
           no == FALSE
           c == [client EXCEPT !.partPrefetch = no]
           cs == [Now EXCEPT !.c.partPrefetch = no]
<1>1. Formed(srv) /\ Page(client, a, pic) /\ IsFiniteSet(a)
  BY DEF CacheInv, Kept, PageInv
<1>2. Become(IF p \in Parts THEN RequestMissing(cs, {p} \X a) ELSE cs)
  BY DEF PreFetchPartTiles
<1> HIDE DEF no
<1>3. cs = [c |-> c, s |-> srv]
  BY DEF Now
<1>4. /\ DOMAIN c = PageFields /\ c.area = client.area
      /\ c.tileCache = client.tileCache /\ c.tiles = client.tiles
  BY DEF Page
<1> HIDE DEF cs, p, c
<1>5. IsFiniteSet({p} \X a)
  <2>1. IsFiniteSet({p})
    BY FS_Singleton
  <2> QED  BY <1>1, <2>1, FS_Product
<1>6. Page(c, a, pic)
  BY <1>1, <1>4, SamePage
<1> HIDE DEF a
<1>7. Pair(srv, a, pic, cs)
  BY <1>1, <1>3, <1>6, CalmSelf DEF Pair
<1>8. Pair(srv, a, pic, RequestMissing(cs, {p} \X a))
  BY <1>5, <1>7, RequestMissingPair
<1>9. CASE p \in Parts
  BY <1>1, <1>2, <1>8, <1>9, PairHandled
<1>10. CASE p \notin Parts
  BY <1>1, <1>2, <1>7, <1>10, PairHandled
<1> QED  BY <1>9, <1>10

(* Tiles beside the visible area are fetched ahead. *)
LEMMA PreFetchTilesHandled ==
    ASSUME CacheInv, NEW pic, Page(client, client.area, pic), PreFetchTiles
    PROVE  Handled(srv, pic)
<1> DEFINE a == client.area
           all == {client.part} \X (Pos \ client.area)
           ts == {t \in all : ~client.tiles[t].here /\ client.tileCache[t] = Blank}
<1>1. Formed(srv) /\ Page(client, a, pic) /\ IsFiniteSet(a)
  BY DEF CacheInv, Kept, PageInv
<1>2. Become(AddTiles(Now, ts))
  BY DEF PreFetchTiles
<1>3. IsFiniteSet(ts)
  <2>1. IsFiniteSet(Pos \ client.area)
    BY TilesAssumption, FS_Subset
  <2>2. IsFiniteSet(all)
    BY <2>1, FS_Singleton, FS_Product
  <2>3. ts \subseteq all
    OBVIOUS
  <2> HIDE DEF ts, all
  <2> QED  BY <2>2, <2>3, FS_Subset
<1> HIDE DEF ts
<1>4. Pair(srv, a, pic, Now)
  BY <1>1, CalmSelf DEF Pair, Now
<1> HIDE DEF a
<1>5. Pair(srv, a, pic, AddTiles(Now, ts))
  BY <1>3, <1>4, AddTilesPair
<1> QED  BY <1>1, <1>2, <1>5, PairHandled

(* A message leaves the sender queue. *)
LEMMA WsdFlushKeeps == ASSUME CacheInv, WsdFlush PROVE Kept(srv', doc)
<1>1. Kept(srv, doc) /\ Formed(srv)
  BY DEF CacheInv, Kept
<1>2. Idle(srv, srv')
  BY <1>1 DEF WsdFlush, Idle, Formed
<1> QED  BY <1>1, <1>2, IdleSame, SameKeeps

(* Time passes. *)
LEMMA ElapseCalm == ASSUME CacheInv, Elapse PROVE Calm(srv, srv')
<1>1. Formed(srv)
  BY DEF CacheInv, Kept
<1>2. Quiet(srv, srv')
  BY <1>1 DEF Elapse, Quiet, Idle, Silent, Formed
<1> QED  BY <1>1, <1>2, QuietCalm

(* The view becomes inactive, and the Kit may forget what it rendered. *)
LEMMA DeactivateKeeps ==
    ASSUME CacheInv, NEW pic, Page(client, client.area, pic), Deactivate
    PROVE  Kept(srv', doc) /\ PageInv(client') /\ Page(client', client.area, pic)
<1> DEFINE s == [srv EXCEPT !.view = "inactive"]
<1>1. Kept(srv, doc) /\ Formed(srv) /\ IsFiniteSet(client.area)
  BY DEF CacheInv, Kept, PageInv
<1>2. Quiet(srv, s)
  BY <1>1 DEF Quiet, Idle, Silent, Formed
<1>3. PICK out : srv' = DropDeltas(s, out)
  BY DEF Deactivate
<1> HIDE DEF s
<1>4. Kept(s, doc)
  BY <1>1, <1>2, QuietCalm, CalmKeeps
<1>5. /\ DOMAIN client' = PageFields /\ client'.area = client.area
      /\ client'.tileCache = client.tileCache /\ client'.tiles = client.tiles
  BY DEF Deactivate, Page
<1>6. Page(client', client.area, pic)
  BY <1>5, SamePage
<1>7. Kept(srv', doc)
  BY <1>3, <1>4, DropKeeps
<1> QED  BY <1>1, <1>5, <1>6, <1>7 DEF PageInv

(* The view becomes active: the Kit queues what it held back. *)
LEMMA ActivateHandled ==
    ASSUME CacheInv, NEW pic, Page(client, client.area, pic), Activate PROVE Handled(srv, pic)
<1> DEFINE s == [srv EXCEPT !.view = "active", !.remembered = FALSE]
           ts == IF IsText(s) THEN Tile ELSE {srv.part} \X Pos
<1>1. Formed(srv) /\ IsFiniteSet(client.area)
  BY DEF CacheInv, Kept, PageInv
<1>2. Quiet(srv, s)
  BY <1>1 DEF Quiet, Idle, Silent, Formed
<1>3. srv' \in {PutInval(s, ts), s}
  BY DEF Activate
<1>4. IsFiniteSet(ts)
  <2>1. IsFiniteSet({srv.part}) /\ IsFiniteSet(Pos)
    BY FS_Singleton, TilesAssumption
  <2>2. IsFiniteSet({srv.part} \X Pos)
    BY <2>1, FS_Product
  <2> QED  BY <2>2, TileFinite
<1>5. /\ DOMAIN client' = PageFields /\ client'.area = client.area
      /\ client'.tileCache = client.tileCache /\ client'.tiles = client.tiles
  BY DEF Activate, Page
<1> HIDE DEF s, ts
<1>6. Calm(srv, s)
  BY <1>1, <1>2, QuietCalm
<1>7. Calm(s, PutInval(s, ts))
  BY <1>4, <1>6, PutInvalCalm DEF Calm, Same
<1>8. Calm(srv, srv')
  BY <1>3, <1>6, <1>7, CalmTwice
<1>9. Page(client', client.area, pic)
  BY <1>5, SamePage
<1> QED  BY <1>1, <1>5, <1>8, <1>9 DEF Handled

(* At the start nothing is cached and nothing is on its way. *)
LEMMA CacheInit == Init => CacheInv
<1> SUFFICES ASSUME Init PROVE CacheInv
  OBVIOUS
<1>1. /\ DOMAIN srv = Fields /\ srv.nextWid = 0 /\ srv.queue = <<>> /\ srv.requested = <<>> /\ srv.up = <<>>
      /\ srv.prev = [t \in Tile |-> Blank] /\ srv.cache = [t \in Tile |-> NotCached]
  BY DEF Init
<1>2. PageInv(client)
  <2> DEFINE pic == [t \in Tile |-> Blank]
  <2>1. /\ DOMAIN client = PageFields /\ client.area = {}
        /\ client.tiles = [t \in Tile |-> NoTile] /\ client.tileCache = [t \in Tile |-> Blank]
    BY DEF Init
  <2>2. Page(client, client.area, pic)
    BY <2>1 DEF Page, Drawn, Showing
  <2> QED  BY <2>1, <2>2, FS_EmptySet DEF PageInv
<1>3. IsSeq(<<>>) /\ DOMAIN <<>> = {}
  BY DEF IsSeq
<1>4. Formed(srv)
  BY <1>1, <1>3 DEF Formed, Telling, Worded, Entry
<1>5. ASSUME NEW t \in Tile
      PROVE  FreshAt(t, srv.cache[t], srv.queue, srv.up, doc[t]) /\ ChainAt(t, srv.cache[t], srv.up, srv.prev[t])
  <2>1. srv.cache[t].here = FALSE /\ Of(srv.up, t) = {}
    BY <1>1, <1>3 DEF NotCached, Of
  <2> QED  BY <2>1 DEF FreshAt, ChainAt
<1> QED  BY <1>2, <1>4, <1>5 DEF CacheInv, Kept

(* Every step keeps the invariant. *)
LEMMA CacheStep == CacheInv /\ [Next]_vars => CacheInv'
<1> SUFFICES ASSUME CacheInv, [Next]_vars PROVE CacheInv'
  OBVIOUS
<1>0. PageInv(client) /\ Kept(srv, doc)
  BY DEF CacheInv
<1> PICK pic : Page(client, client.area, pic)
  BY <1>0 DEF PageInv
<1>1. CacheInv' = (Kept(srv', doc') /\ PageInv(client'))
  BY DEF CacheInv
<1>a. ASSUME Handled(srv, pic), doc' = doc PROVE CacheInv'
  BY <1>0, <1>1, <1>a, CalmKeeps DEF Handled, PageInv
<1>b. ASSUME NEW new, Handled(Taken, new), doc' = doc PROVE CacheInv'
  BY <1>1, <1>b, TakenKept, CalmKeeps DEF Handled, PageInv
<1>2. CASE UNCHANGED vars
  <2>1. srv' = srv /\ doc' = doc /\ client' = client
    BY <1>2 DEF vars
  <2> QED  BY <2>1, <1>1 DEF CacheInv
<1>3. ASSUME NEW t \in Tile, Edit(t) PROVE CacheInv'
  <2>1. client' = client
    BY <1>3 DEF Edit
  <2> QED  BY <1>0, <1>1, <1>3, <2>1, EditKeeps
<1>4. ASSUME NEW a \in Areas, Move(a) PROVE CacheInv'
  <2>1. doc' = doc
    BY <1>4 DEF Move
  <2> QED  BY <1>a, <1>4, <2>1, MoveHandled
<1>5. ASSUME NEW p \in Parts, SetPart(p) PROVE CacheInv'
  <2>1. doc' = doc
    BY <1>5 DEF SetPart
  <2> QED  BY <1>a, <1>5, <2>1, SetPartHandled
<1>6. CASE PreFetchTiles
  <2>1. doc' = doc
    BY <1>6 DEF PreFetchTiles
  <2> QED  BY <1>a, <1>6, <2>1, PreFetchTilesHandled
<1>7. CASE PreFetchPartTiles
  <2>1. doc' = doc
    BY <1>7 DEF PreFetchPartTiles
  <2> QED  BY <1>a, <1>7, <2>1, PreFetchPartTilesHandled
<1>8. CASE ClientTile
  <2>1. doc' = doc
    BY <1>8 DEF ClientTile
  <2> QED  BY <1>b, <1>8, <2>1, ClientTileHandled
<1>9. CASE ClientInvalidate
  <2>1. doc' = doc
    BY <1>9 DEF ClientInvalidate
  <2> QED  BY <1>b, <1>9, <2>1, ClientInvalidateHandled
<1>10. CASE ClientStatus
  <2>1. doc' = doc
    BY <1>10 DEF ClientStatus
  <2> QED  BY <1>b, <1>10, <2>1, ClientStatusHandled
<1>11. CASE Elapse
  <2>1. doc' = doc /\ client' = client
    BY <1>11 DEF Elapse
  <2> QED  BY <1>0, <1>1, <1>11, <2>1, ElapseCalm, CalmKeeps
<1>12. CASE Deactivate
  <2>1. doc' = doc
    BY <1>12 DEF Deactivate
  <2> QED  BY <1>1, <1>12, <2>1, DeactivateKeeps
<1>13. CASE Activate
  <2>1. doc' = doc
    BY <1>13 DEF Activate
  <2> QED  BY <1>a, <1>13, <2>1, ActivateHandled
<1>14. CASE Reconnect
  <2>1. doc' = doc
    BY <1>14 DEF Reconnect
  <2>2. /\ DOMAIN client' = PageFields /\ client'.area = client.area
        /\ client'.tileCache = client.tileCache /\ client'.tiles = client.tiles
    BY <1>14 DEF Reconnect, Page
  <2>3. PageInv(client')
    BY <1>0, <2>2, SamePage DEF PageInv
  <2> QED  BY <1>1, <1>14, <2>1, <2>3, ReconnectKeeps
<1>15. CASE KitInvalidate
  <2>1. doc' = doc /\ client' = client
    BY <1>15 DEF KitInvalidate
  <2> QED  BY <1>0, <1>1, <1>15, <2>1, KitInvalidateKeeps
<1>16. CASE KitRender
  <2>1. doc' = doc /\ client' = client
    BY <1>16 DEF KitRender
  <2> QED  BY <1>0, <1>1, <1>16, <2>1, KitRenderKeeps
<1>17. CASE KitLoad
  <2>1. doc' = doc /\ client' = client
    BY <1>17 DEF KitLoad
  <2> QED  BY <1>0, <1>1, <1>17, <2>1, KitLoadKeeps
<1>18. CASE WsdTile
  <2>1. doc' = doc /\ client' = client
    BY <1>18 DEF WsdTile
  <2> QED  BY <1>0, <1>1, <1>18, <2>1, WsdTileSaves, CalmKeeps
<1>19. CASE WsdInvalidate
  <2>1. doc' = doc /\ client' = client
    BY <1>19 DEF WsdInvalidate
  <2> QED  BY <1>0, <1>1, <1>19, <2>1, WsdInvalidateTakes, CalmKeeps
<1>20. CASE WsdStatus
  <2>1. doc' = doc /\ client' = client
    BY <1>20 DEF WsdStatus
  <2> QED  BY <1>0, <1>1, <1>20, <2>1, WsdStatusTakes
<1>21. CASE WsdFlush
  <2>1. doc' = doc /\ client' = client
    BY <1>21 DEF WsdFlush
  <2> QED  BY <1>0, <1>1, <1>21, <2>1, WsdFlushKeeps
<1>24. CASE WsdUnchanged
  <2>1. doc' = doc /\ client' = client
    BY <1>24 DEF WsdUnchanged
  <2> QED  BY <1>0, <1>1, <1>24, <2>1, WsdUnchangedTakes
<1>25. ASSUME NEW t \in Tile, InvalidateMore(t) PROVE CacheInv'
  <2>1. doc' = doc /\ client' = client
    BY <1>25 DEF InvalidateMore
  <2> QED  BY <1>0, <1>1, <1>25, <2>1, InvalidateMoreCalm, CalmKeeps
<1>22. CASE Environment
  BY <1>25, <1>3, <1>4, <1>5, <1>6, <1>11, <1>12, <1>14, <1>22 DEF Environment
<1>23. CASE System
  BY <1>7, <1>8, <1>9, <1>10, <1>13, <1>15, <1>16, <1>17, <1>18, <1>19, <1>20, <1>21, <1>23, <1>24 DEF System
<1> QED  BY <1>2, <1>22, <1>23 DEF Next

(* The invariant holds always. *)
LEMMA CacheAlways == Spec => []CacheInv
BY CacheInit, CacheStep, PTL DEF Spec

-----------------------------------------------------------------------------
(* The theorems *)

(* What TileCache takes for valid shows the document as it is, unless an invalidation of it *)
(* is queued at the Kit or on its way to wsd (saveTileAndNotify()).                         *)
THEOREM CacheStaysCurrent == Spec => []CacheIsCurrent
<1>1. CacheInv => CacheIsCurrent
  <2> SUFFICES ASSUME CacheInv, NEW t \in Tile, IsValid(srv, t)
               PROVE  \/ Last(srv.cache[t].frames).c = doc[t]
                      \/ Invals(srv.queue, t) # {} \/ Invals(srv.up, t) # {}
    BY DEF CacheIsCurrent
  <2>1. FreshAt(t, srv.cache[t], srv.queue, srv.up, doc[t])
    BY DEF CacheInv, Kept
  <2>2. \A q : Announced(q, t) => Invals(q, t) # {}
    BY DEF Announced, Invals, Messages
  <2>3. Last(srv.cache[t].frames).c = doc[t] \/ Announced(srv.up, t) \/ Announced(srv.queue, t)
    BY <2>1 DEF FreshAt, IsValid
  <2> QED  BY <2>2, <2>3
<1> QED  BY <1>1, CacheAlways, PTL

(* What TileCache holds of a tile is a keyframe followed by deltas, each made from the     *)
(* picture before it (saveDataToCache(), TileData::appendBlob()).                          *)
THEOREM DeltasStayChained == Spec => []DeltasChain
<1>1. CacheInv => DeltasChain
  <2> SUFFICES ASSUME CacheInv, NEW t \in Tile, srv.cache[t].here
               PROVE  LET fs == srv.cache[t].frames
                      IN  fs[1].key /\ \A i \in 2..Len(fs) : fs[i].from = fs[i - 1].c
    BY DEF DeltasChain
  <2>1. ChainAt(t, srv.cache[t], srv.up, srv.prev[t])
    BY DEF CacheInv, Kept
  <2> QED  BY <2>1 DEF ChainAt
<1> QED  BY <1>1, CacheAlways, PTL
==============================================================================
