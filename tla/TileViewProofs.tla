--------------------------- MODULE TileViewProofs ---------------------------
(***************************************************************************)
(* The tile flow implements TileView: whatever is cached, dropped, sent    *)
(* again or lost on the way, a tile the browser shows is only replaced by  *)
(* a newer state of the document, or goes. From the cache that is kept     *)
(* (TilesProofs), every picture on the way is at least as new as those     *)
(* ahead of it, and at most as new as those behind it: what is drawn, what *)
(* is on the wire, what waits in the sender queue, what the cache has,     *)
(* what the Kit has rendered, and the document itself.                     *)
(***************************************************************************)
EXTENDS TilesProofs

Drawing == INSTANCE FoldProofs WITH Op <- ApplyFrame

-----------------------------------------------------------------------------
(* The invariant *)

(* A picture x of t is no newer than what is behind it: the entry e, the renderings in up, *)
(* and the document, whose state is n.                                                     *)
Before(x, t, e, up, n) ==
    /\ x \in Nat /\ x <= n
    /\ e.here => x <= Last(e.frames).c
    /\ \A i \in Of(up, t) : x <= up[i].f.c

(* The entry e, the renderings in up and the document are in this order, and the wire ids *)
(* rise, up to w.                                                                         *)
Older(e, t, up) ==
    \A i \in Of(up, t) :
        /\ Last(e.frames).c <= up[i].f.c
        /\ \A k \in DOMAIN e.frames : e.frames[k].wid < up[i].f.wid
Ordered(t, e, up, n, w) ==
    /\ e.here => /\ Last(e.frames).c <= n
                 /\ \A k \in DOMAIN e.frames : e.frames[k].wid <= w
                 /\ Older(e, t, up)
    /\ \A i \in Of(up, t) : up[i].f.c \in Nat /\ up[i].f.c <= n /\ up[i].f.wid \in Nat /\ up[i].f.wid <= w
    /\ \A i, j \in Of(up, t) : i < j => up[i].f.c <= up[j].f.c /\ up[i].f.wid < up[j].f.wid

(* No message of q has an older picture of t than x. *)
Floor(x, q, t) == \A i \in Carrying(q, t) : x <= Result(q[i])

(* What is on the wire, then what is in the sender queue q, are in order before the rest. *)
OnWire(t, wire, q, e, up, n) ==
    \A i \in Carrying(wire, t) :
        /\ Linked(wire[i].fs) /\ Before(Result(wire[i]), t, e, up, n)
        /\ \A j \in Carrying(wire, t) : i < j => Result(wire[i]) <= Result(wire[j])
        /\ Floor(Result(wire[i]), q, t)

Queued(t, q, e, up, n) == \A i \in Carrying(q, t) : Before(Result(q[i]), t, e, up, n)

(* What the layer has of a tile comes before that, if it is a picture. *)
Held(x, t, wire, q, e, up, n) ==
    \/ x \in {Blank, Garbage}
    \/ Before(x, t, e, up, n) /\ Floor(x, wire, t) /\ Floor(x, q, t)

Flowing(t, x, wire, q, e, up, n) ==
    Queued(t, q, e, up, n) /\ OnWire(t, wire, q, e, up, n) /\ Held(x, t, wire, q, e, up, n)

Flow(s, d, pic) ==
    /\ Outgoing(s) /\ IsSeq(s.wire)
    /\ \A t \in Tile : /\ Ordered(t, s.cache[t], s.up, d[t], s.nextWid)
                       /\ Flowing(t, pic[t], s.wire, s.sendQ, s.cache[t], s.up, d[t])

-----------------------------------------------------------------------------
(* Steps that send *)

(* What is sent of a tile ends with what its entry has last. *)
LEMMA SendFlowing ==
    ASSUME NEW t, NEW x, NEW wire, NEW q, NEW e, NEW up, NEW n, NEW w, NEW r,
           Flowing(t, x, wire, q, e, up, n), Ordered(t, e, up, n, w), Rises(e), Adds(q, r, t, e)
    PROVE  Flowing(t, x, wire, r, e, up, n)
<1>1. e.here => Before(Last(e.frames).c, t, e, up, n)
  BY DEF Ordered, Older, Rises, Before
<1>2. \A y : Before(y, t, e, up, n) /\ Floor(y, q, t) => Floor(y, r, t)
  BY DEF Floor, Adds, Before
<1>3. Queued(t, r, e, up, n)
  BY <1>1 DEF Flowing, Queued, Adds
<1>4. OnWire(t, wire, r, e, up, n)
  BY <1>2 DEF Flowing, OnWire
<1>5. Held(x, t, wire, r, e, up, n)
  BY <1>2 DEF Flowing, Held
<1> QED  BY <1>3, <1>4, <1>5 DEF Flowing

(* A calm step keeps the order. *)
LEMMA CalmFlow ==
    ASSUME NEW s, NEW u, NEW d, NEW pic, Flow(s, d, pic), Calm(s, u) PROVE Flow(u, d, pic)
<1>1. /\ Outgoing(s) /\ Outgoing(u) /\ Sends(s, u) /\ u.wire = s.wire
      /\ u.cache = s.cache /\ u.up = s.up /\ u.nextWid = s.nextWid
  BY DEF Flow, Calm, Passes, Same
<1>2. ASSUME NEW t \in Tile
      PROVE  /\ Ordered(t, u.cache[t], u.up, d[t], u.nextWid)
             /\ Flowing(t, pic[t], u.wire, u.sendQ, u.cache[t], u.up, d[t])
  <2>1. /\ Ordered(t, s.cache[t], s.up, d[t], s.nextWid) /\ Rises(s.cache[t])
        /\ Flowing(t, pic[t], s.wire, s.sendQ, s.cache[t], s.up, d[t])
        /\ Adds(s.sendQ, u.sendQ, t, s.cache[t])
    BY <1>1 DEF Flow, Outgoing, Sends
  <2>2. Flowing(t, pic[t], s.wire, u.sendQ, s.cache[t], s.up, d[t])
    BY <2>1, SendFlowing
  <2> QED  BY <1>1, <2>1, <2>2
<1> QED  BY <1>1, <1>2 DEF Flow

-----------------------------------------------------------------------------
(* Steps of the cache, of the renderings and of the document *)

(* What came before the old entry, renderings and state still does. *)
Later(t, e, up, n, e2, up2, n2) ==
    \A x : Before(x, t, e, up, n) => Before(x, t, e2, up2, n2)

(* The pictures of t are the same in q and in r. *)
Alike(q, r, t) == Carrying(r, t) = Carrying(q, t) /\ \A i \in Carrying(q, t) : r[i] = q[i]

(* Then the pictures on the way stay in order. *)
LEMMA LaterFlowing ==
    ASSUME NEW t, NEW x, NEW wire, NEW q, NEW r, NEW e, NEW up, NEW n, NEW e2, NEW up2, NEW n2,
           Flowing(t, x, wire, q, e, up, n), Alike(q, r, t), Later(t, e, up, n, e2, up2, n2)
    PROVE  Flowing(t, x, wire, r, e2, up2, n2)
<1>1. \A y : Floor(y, q, t) => Floor(y, r, t)
  BY DEF Floor, Alike
<1>2. Queued(t, r, e2, up2, n2)
  BY DEF Flowing, Queued, Alike, Later
<1>3. OnWire(t, wire, r, e2, up2, n2)
  BY <1>1 DEF Flowing, OnWire, Later
<1>4. Held(x, t, wire, r, e2, up2, n2)
  BY <1>1 DEF Flowing, Held, Later
<1> QED  BY <1>2, <1>3, <1>4 DEF Flowing

(* And so does what waits in the sender queue. *)
LEMMA LaterWaiting ==
    ASSUME NEW t, NEW q, NEW r, NEW e, NEW e2, NEW up, NEW n,
           Waiting(q, t, e), Alike(q, r, t), Queued(t, r, e2, up, n)
    PROVE  Waiting(r, t, e2)
<1>1. ASSUME NEW i \in Carrying(r, t)
      PROVE  /\ Linked(r[i].fs) /\ Result(r[i]) \in Nat
             /\ e2.here => Result(r[i]) <= Last(e2.frames).c
             /\ \A j \in Carrying(r, t) : i < j => Result(r[i]) <= Result(r[j])
  <2>1. e2.here => Result(r[i]) <= Last(e2.frames).c
    BY DEF Queued, Before
  <2> QED  BY <2>1 DEF Waiting, Alike
<1> QED  BY <1>1 DEF Waiting

(* From s with document d to u with document d2 entries and renderings may change, and what *)
(* came before them still does.                                                             *)
Advances(s, d, u, d2) ==
    /\ u.wire = s.wire /\ u.sent = s.sent /\ IsSeq(u.sendQ)
    /\ \A t \in Tile : /\ Alike(s.sendQ, u.sendQ, t)
                       /\ Rises(u.cache[t])
                       /\ Ordered(t, u.cache[t], u.up, d2[t], u.nextWid)
                       /\ Later(t, s.cache[t], s.up, d[t], u.cache[t], u.up, d2[t])

(* Such a step keeps the order. *)
LEMMA AdvanceFlow ==
    ASSUME NEW s, NEW u, NEW d, NEW d2, NEW pic, Flow(s, d, pic), Advances(s, d, u, d2)
    PROVE  Flow(u, d2, pic)
<1>1. ASSUME NEW t \in Tile
      PROVE  /\ Waiting(u.sendQ, t, u.cache[t])
             /\ Flowing(t, pic[t], u.wire, u.sendQ, u.cache[t], u.up, d2[t])
  <2>1. /\ Flowing(t, pic[t], s.wire, s.sendQ, s.cache[t], s.up, d[t])
        /\ Waiting(s.sendQ, t, s.cache[t]) /\ u.wire = s.wire
        /\ Alike(s.sendQ, u.sendQ, t)
        /\ Later(t, s.cache[t], s.up, d[t], u.cache[t], u.up, d2[t])
    BY DEF Flow, Outgoing, Advances
  <2>2. Flowing(t, pic[t], u.wire, u.sendQ, u.cache[t], u.up, d2[t])
    BY <2>1, LaterFlowing
  <2>3. Waiting(u.sendQ, t, u.cache[t])
    BY <2>1, <2>2, LaterWaiting DEF Flowing
  <2> QED  BY <2>2, <2>3
<1>2. Outgoing(u) /\ IsSeq(u.wire)
  BY <1>1 DEF Flow, Outgoing, Advances
<1> QED  BY <1>1, <1>2 DEF Flow, Advances

(* The document changes. *)
LEMMA DocFlow ==
    ASSUME NEW s, NEW d, NEW d2, NEW pic, Flow(s, d, pic),
           \A t \in Tile : d[t] \in Nat /\ d2[t] \in Nat /\ d[t] <= d2[t]
    PROVE  Flow(s, d2, pic)
<1>1. ASSUME NEW t \in Tile
      PROVE  /\ Alike(s.sendQ, s.sendQ, t) /\ Rises(s.cache[t])
             /\ Ordered(t, s.cache[t], s.up, d2[t], s.nextWid)
             /\ Later(t, s.cache[t], s.up, d[t], s.cache[t], s.up, d2[t])
  <2>1. Alike(s.sendQ, s.sendQ, t) /\ Rises(s.cache[t])
    BY DEF Alike, Flow, Outgoing
  <2>2. Ordered(t, s.cache[t], s.up, d2[t], s.nextWid)
    BY <2>1 DEF Flow, Ordered, Rises
  <2>3. Later(t, s.cache[t], s.up, d[t], s.cache[t], s.up, d2[t])
    BY DEF Later, Before
  <2> QED  BY <2>1, <2>2, <2>3
<1>2. Advances(s, d, s, d2)
  BY <1>1 DEF Advances, Flow, Outgoing
<1> QED  BY <1>2, AdvanceFlow

(* The renderings of t stay. *)
LEMMA OrderedSame ==
    ASSUME NEW t, NEW e, NEW up, NEW up2, NEW n, NEW w,
           Ordered(t, e, up, n, w), Of(up2, t) = Of(up, t), \A i \in Of(up, t) : up2[i] = up[i]
    PROVE  Ordered(t, e, up2, n, w) /\ Later(t, e, up, n, e, up2, n)
<1>1. Ordered(t, e, up2, n, w)
  BY DEF Ordered, Older
<1>2. Later(t, e, up, n, e, up2, n)
  BY DEF Later, Before
<1> QED  BY <1>1, <1>2

(* Wire ids may go on rising. *)
LEMMA OrderedUpTo ==
    ASSUME NEW t, NEW e, NEW up, NEW n, NEW w \in Nat, Ordered(t, e, up, n, w), Rises(e)
    PROVE  Ordered(t, e, up, n, w + 1)
<1>1. e.here => \A k \in DOMAIN e.frames : e.frames[k].wid <= w + 1
  BY DEF Ordered, Rises
<1>2. \A i \in Of(up, t) : up[i].f.wid <= w + 1
  BY DEF Ordered
<1> QED  BY <1>1, <1>2 DEF Ordered

(* An entry goes or stays, whether it is valid or not. *)
Remains(e, e2) == e2.here => e.here /\ e2.frames = e.frames

(* It stays in order. *)
LEMMA OrderedRemains ==
    ASSUME NEW t, NEW e, NEW e2, NEW up, NEW n, NEW w, Ordered(t, e, up, n, w), Rises(e), Remains(e, e2)
    PROVE  Ordered(t, e2, up, n, w) /\ Rises(e2) /\ Later(t, e, up, n, e2, up, n)
<1>1. Ordered(t, e2, up, n, w)
  BY DEF Ordered, Older, Remains
<1>2. Rises(e2)
  BY DEF Rises, Remains
<1>3. Later(t, e, up, n, e2, up, n)
  BY DEF Later, Before, Remains
<1> QED  BY <1>1, <1>2, <1>3

(* wsd takes the first of the renderings, and the entry stays. *)
LEMMA OrderedTail ==
    ASSUME NEW t, NEW e, NEW up, IsSeq(up), up # <<>>, NEW n, NEW w, Ordered(t, e, up, n, w)
    PROVE  Ordered(t, e, Tail(up), n, w) /\ Later(t, e, up, n, e, Tail(up), n)
<1> DEFINE r == Tail(up)
<1>0. \A i \in Of(r, t) : i + 1 \in Of(up, t) /\ r[i] = up[i + 1] /\ i \in Nat \ {0}
  BY OfTail
<1> HIDE DEF r
<1>1. \A i \in Of(r, t) : i + 1 \in Of(up, t) /\ r[i] = up[i + 1] /\ i \in Nat
  BY <1>0
<1>2. \A i, j \in Of(r, t) : i < j => i + 1 < j + 1
  BY <1>1
<1>3. e.here => Last(e.frames).c <= n /\ (\A k \in DOMAIN e.frames : e.frames[k].wid <= w) /\ Older(e, t, r)
  BY <1>1 DEF Ordered, Older
<1>4. \A i \in Of(r, t) : r[i].f.c \in Nat /\ r[i].f.c <= n /\ r[i].f.wid \in Nat /\ r[i].f.wid <= w
  BY <1>1 DEF Ordered
<1>5. \A i, j \in Of(r, t) : i < j => r[i].f.c <= r[j].f.c /\ r[i].f.wid < r[j].f.wid
  BY <1>1, <1>2 DEF Ordered
<1>6. Ordered(t, e, r, n, w)
  BY <1>3, <1>4, <1>5 DEF Ordered
<1>7. Later(t, e, up, n, e, r, n)
  BY <1>1 DEF Later, Before
<1> QED  BY <1>6, <1>7 DEF r

(* A rendering of the document as it is joins the others. *)
LEMMA OrderedRender ==
    ASSUME NEW t, NEW e, NEW up, IsSeq(up), NEW n \in Nat, NEW w \in Nat, Ordered(t, e, up, n, w), Rises(e),
           NEW m, m.k = "tile", m.t = t, m.f.c = n, m.f.wid = w + 1
    PROVE  Ordered(t, e, Append(up, m), n, w + 1) /\ Later(t, e, up, n, e, Append(up, m), n)
<1> DEFINE r == Append(up, m)
           l == Len(up) + 1
<1>1. /\ l \in Nat /\ DOMAIN up = 1..l-1 /\ DOMAIN r = 1..l
      /\ (\A i \in DOMAIN up : r[i] = up[i]) /\ r[l] = m
  <2>1. /\ Len(up) \in Nat /\ DOMAIN up = 1..Len(up) /\ DOMAIN r = 1..Len(up)+1
        /\ (\A i \in DOMAIN up : r[i] = up[i]) /\ r[Len(up) + 1] = m
    BY Appended
  <2> QED  BY <2>1
<1> HIDE DEF r, l
<1>2. \A i \in Of(r, t) : i = l \/ (i \in Of(up, t) /\ r[i] = up[i] /\ i < l)
  <2>1. \A i \in DOMAIN r : i = l \/ (i \in DOMAIN up /\ i < l)
    BY <1>1
  <2> QED  BY <1>1, <2>1 DEF Of
<1>3. ASSUME NEW i \in Of(up, t)
      PROVE  /\ up[i].f.c \in Nat /\ up[i].f.c <= n
             /\ up[i].f.wid \in Nat /\ up[i].f.wid < w + 1 /\ up[i].f.wid <= w + 1
  BY DEF Ordered
<1>4. ASSUME e.here
      PROVE  Last(e.frames).c <= n /\ (\A k \in DOMAIN e.frames : e.frames[k].wid <= w + 1) /\ Older(e, t, r)
  <2>1. \A k \in DOMAIN e.frames : e.frames[k].wid < w + 1
    BY <1>4 DEF Ordered, Rises
  <2>2. \A k \in DOMAIN e.frames : e.frames[k].wid <= w + 1
    BY <1>4 DEF Ordered, Rises
  <2>3. Last(e.frames).c <= n /\ Older(e, t, up)
    BY <1>4 DEF Ordered
  <2>4. Older(e, t, r)
    BY <1>1, <1>2, <2>1, <2>3 DEF Older
  <2> QED  BY <2>2, <2>3, <2>4
<1>5. ASSUME NEW i \in Of(r, t)
      PROVE  r[i].f.c \in Nat /\ r[i].f.c <= n /\ r[i].f.wid \in Nat /\ r[i].f.wid <= w + 1
  BY <1>1, <1>2, <1>3
<1>6. ASSUME NEW i \in Of(r, t), NEW j \in Of(r, t), i < j
      PROVE  r[i].f.c <= r[j].f.c /\ r[i].f.wid < r[j].f.wid
  <2>1. i \in Of(up, t) /\ r[i] = up[i]
    <3>1. i \in Nat /\ j \in Nat /\ (j = l \/ j < l)
      <4>1. i \in DOMAIN r /\ j \in DOMAIN r
        BY DEF Of
      <4> QED  BY <1>1, <1>2, <4>1
    <3>2. i # l
      BY <1>1, <1>6, <3>1
    <3> QED  BY <1>2, <3>2
  <2>2. CASE j = l
    BY <1>1, <1>3, <2>1, <2>2
  <2>3. CASE j \in Of(up, t) /\ r[j] = up[j]
    BY <1>6, <2>1, <2>3 DEF Ordered
  <2> QED  BY <1>2, <2>2, <2>3
<1>7. Ordered(t, e, r, n, w + 1)
  BY <1>4, <1>5, <1>6 DEF Ordered
<1>8. Later(t, e, up, n, e, r, n)
  BY <1>1, <1>2 DEF Later, Before
<1> QED  BY <1>7, <1>8 DEF r

(* The frames of an entry after the first rendering on the way has been saved. *)
LEMMA SavedRises ==
    ASSUME NEW t, NEW e, Entry(e), NEW up, NEW p, IsSeq(up), ChainAt(t, e, up, p), 1 \in Of(up, t),
           NEW n, NEW w, Ordered(t, e, up, n, w), Rises(e)
    PROVE  LET f == up[1].f
               e2 == Saved(e, f)
           IN  /\ Rises(e2)
               /\ e2.here => Last(e2.frames) = f /\ \A k \in DOMAIN e2.frames : e2.frames[k].wid <= f.wid
<1> DEFINE f == up[1].f
           e2 == Saved(e, f)
           fs == e2.frames
<1>1. /\ f.c \in Nat /\ f.wid \in Nat
      /\ e.here => \A k \in DOMAIN e.frames : e.frames[k].wid < f.wid /\ e.frames[k].wid \in Nat
  BY DEF Ordered, Older, Rises
<1>2. e2.here => /\ IsSeq(fs) /\ fs # <<>> /\ Last(fs) = f
                 /\ \A i \in 2..Len(fs) : fs[i].from = fs[i - 1].c
  BY SavedEntry
<1>3. e2.here => (\A k \in DOMAIN fs : fs[k].wid \in Nat /\ fs[k].wid <= f.wid)
                 /\ \A i, j \in DOMAIN fs : i < j => fs[i].wid < fs[j].wid
  <2>1. CASE f.key
    <3> DEFINE one == <<f>>
    <3>1. DOMAIN one = {1} /\ one[1] = f
      OBVIOUS
    <3>2. fs = one
      BY <2>1 DEF Saved
    <3> HIDE DEF fs, f, one
    <3>3. \A k \in DOMAIN fs : k = 1 /\ fs[k] = f
      BY <3>1, <3>2
    <3> QED  BY <1>1, <3>3
  <2>2. CASE ~f.key /\ e.here
    <3>1. DOMAIN e = {"here", "valid", "frames"} /\ IsSeq(e.frames)
      BY <2>2 DEF Entry, NotCached
    <3>2. fs = Append(e.frames, f)
      BY <2>2, <3>1 DEF Saved
    <3> DEFINE l == Len(e.frames)
    <3> HIDE DEF f, fs
    <3>3. /\ l \in Nat /\ DOMAIN e.frames = 1..l /\ DOMAIN fs = 1..l+1
          /\ (\A i \in DOMAIN e.frames : fs[i] = e.frames[i]) /\ fs[l + 1] = f
      BY <3>1, <3>2, Appended
    <3> HIDE DEF l
    <3>4. \A i \in DOMAIN fs : (i \in DOMAIN e.frames /\ i < l + 1) \/ i = l + 1
      BY <3>3
    <3>5. \A k \in DOMAIN fs : fs[k].wid \in Nat /\ fs[k].wid <= f.wid
      BY <1>1, <2>2, <3>3, <3>4
    <3>6. ASSUME NEW i \in DOMAIN fs, NEW j \in DOMAIN fs, i < j PROVE fs[i].wid < fs[j].wid
      <4>1. i \in DOMAIN e.frames
        BY <3>3, <3>4, <3>6
      <4>2. CASE j = l + 1
        BY <1>1, <2>2, <3>3, <4>1, <4>2
      <4>3. CASE j \in DOMAIN e.frames
        BY <2>2, <3>3, <3>6, <4>1, <4>3 DEF Rises
      <4> QED  BY <3>4, <4>2, <4>3
    <3> QED  BY <3>5, <3>6
  <2>3. CASE ~f.key /\ ~e.here
    BY <2>3 DEF Saved
  <2> QED  BY <2>1, <2>2, <2>3
<1> HIDE DEF f, e2
<1>4. Rises(e2)
  BY <1>1, <1>2, <1>3 DEF Rises, Linked
<1> QED  BY <1>2, <1>3, <1>4 DEF f, e2

(* Then the entry ends with that rendering. *)
LEMMA OrderedSaved ==
    ASSUME NEW t, NEW e, NEW up, IsSeq(up), up # <<>>, 1 \in Of(up, t), NEW n, NEW w \in Nat,
           Ordered(t, e, up, n, w), NEW e2, Rises(e2),
           e2.here => Last(e2.frames) = up[1].f /\ \A k \in DOMAIN e2.frames : e2.frames[k].wid <= up[1].f.wid
    PROVE  Ordered(t, e2, Tail(up), n, w) /\ Later(t, e, up, n, e2, Tail(up), n)
<1> DEFINE r == Tail(up)
           f == up[1].f
<1>1. \A i \in Of(r, t) : i + 1 \in Of(up, t) /\ r[i] = up[i + 1] /\ i \in Nat /\ 1 < i + 1
  <2>1. \A i \in Of(r, t) : i + 1 \in Of(up, t) /\ r[i] = up[i + 1] /\ i \in Nat \ {0}
    BY OfTail
  <2>2. \A i \in Nat \ {0} : i \in Nat /\ 1 < i + 1
    OBVIOUS
  <2> HIDE DEF r
  <2> QED  BY <2>1, <2>2
<1>2. Ordered(t, e, r, n, w)
  BY OrderedTail
<1>3. f.c \in Nat /\ f.c <= n /\ f.wid \in Nat /\ f.wid <= w
  BY DEF Ordered
<1>4. \A i \in Of(r, t) : f.c <= r[i].f.c /\ f.wid < r[i].f.wid /\ r[i].f.wid \in Nat
  BY <1>1, <1>2 DEF Ordered
<1>5. e2.here => /\ Last(e2.frames).c = f.c
                 /\ \A k \in DOMAIN e2.frames : e2.frames[k].wid \in Nat /\ e2.frames[k].wid <= f.wid
  BY DEF Rises
<1> HIDE DEF r, f
<1>6. e2.here => \A k \in DOMAIN e2.frames : e2.frames[k].wid <= w
  BY <1>3, <1>5
<1>7. e2.here => Older(e2, t, r)
  BY <1>3, <1>4, <1>5 DEF Older
<1>8. Ordered(t, e2, r, n, w)
  BY <1>2, <1>3, <1>5, <1>6, <1>7 DEF Ordered
<1>9. Later(t, e, up, n, e2, r, n)
  <2> SUFFICES ASSUME NEW x, Before(x, t, e, up, n) PROVE Before(x, t, e2, r, n)
    BY DEF Later
  <2>1. x <= f.c
    BY DEF Before, f
  <2> QED  BY <1>1, <1>5, <2>1 DEF Before
<1> QED  BY <1>8, <1>9 DEF r

(* A message without a picture joins the sender queue. *)
LEMMA AlikeAppend ==
    ASSUME NEW q, IsSeq(q), NEW m, m.k \notin {"tile", "delta"}, NEW t
    PROVE  Alike(q, Append(q, m), t) /\ IsSeq(Append(q, m))
<1> DEFINE r == Append(q, m)
           n == Len(q)
<1>1. /\ IsSeq(r) /\ n \in Nat /\ DOMAIN q = 1..n /\ DOMAIN r = 1..n+1
      /\ (\A i \in DOMAIN q : r[i] = q[i]) /\ r[n + 1] = m
  BY Appended
<1> HIDE DEF r, n
<1>2. DOMAIN q \subseteq DOMAIN r /\ \A i \in DOMAIN r : i \in DOMAIN q \/ i = n + 1
  BY <1>1
<1>3. Alike(q, r, t)
  BY <1>1, <1>2 DEF Alike, Carrying
<1> QED  BY <1>1, <1>3 DEF r

(* RenderTiles::doRender(): the picture of the document as it is follows all others, or *)
(* nothing does.                                                                        *)
LEMMA RenderFlow ==
    ASSUME NEW s, Formed(s), NEW pic, Flow(s, doc, pic), doc \in [Tile -> Nat], NEW r
    PROVE  Flow(Render(s, r), doc, pic)
<1> DEFINE x == r.t
           key == r.old = 0 \/ s.prev[x] = Blank
           f == [wid |-> s.nextWid + 1, key |-> key,
                 from |-> IF key THEN Blank ELSE s.prev[x], c |-> doc[x]]
           m == IF ~key /\ s.prev[x] = doc[x]
                THEN [k |-> "unchanged", t |-> x, ver |-> r.ver, of |-> r.k]
                ELSE [k |-> "tile", t |-> x, ver |-> r.ver, f |-> f]
           u == Render(s, r)
<1>1. DOMAIN s = Fields /\ IsSeq(s.up) /\ s.nextWid \in Nat
  BY DEF Formed
<1>2. /\ u.cache = s.cache /\ u.up = Append(s.up, m) /\ u.nextWid = s.nextWid + 1
      /\ u.wire = s.wire /\ u.sent = s.sent /\ u.sendQ = s.sendQ
  BY <1>1 DEF Render
<1>3. m.t = x /\ (m.k = "tile" => m.f.c = doc[x] /\ m.f.wid = s.nextWid + 1)
  OBVIOUS
<1> HIDE DEF m, f, key, u, x
<1>4. ASSUME NEW t \in Tile
      PROVE  /\ Alike(s.sendQ, u.sendQ, t) /\ Rises(u.cache[t])
             /\ Ordered(t, u.cache[t], u.up, doc[t], u.nextWid)
             /\ Later(t, s.cache[t], s.up, doc[t], u.cache[t], u.up, doc[t])
  <2>1. /\ Rises(s.cache[t]) /\ Ordered(t, s.cache[t], s.up, doc[t], s.nextWid)
        /\ u.cache[t] = s.cache[t] /\ Alike(s.sendQ, u.sendQ, t) /\ doc[t] \in Nat
    BY <1>2 DEF Flow, Outgoing, Alike
  <2>2. CASE t = x /\ m.k = "tile"
    <3>1. m.k = "tile" /\ m.t = t /\ m.f.c = doc[t] /\ m.f.wid = s.nextWid + 1
      BY <1>3, <2>2
    <3>2. /\ Ordered(t, s.cache[t], Append(s.up, m), doc[t], s.nextWid + 1)
          /\ Later(t, s.cache[t], s.up, doc[t], s.cache[t], Append(s.up, m), doc[t])
      BY <1>1, <2>1, <3>1, OrderedRender
    <3> QED  BY <1>2, <2>1, <3>2
  <2>3. CASE ~(t = x /\ m.k = "tile")
    <3>1. ~(m.k = "tile" /\ m.t = t)
      BY <1>3, <2>3
    <3>2. Of(Append(s.up, m), t) = Of(s.up, t) /\ \A i \in Of(s.up, t) : Append(s.up, m)[i] = s.up[i]
      BY <1>1, <3>1, OfAppendOther
    <3>3. Ordered(t, s.cache[t], s.up, doc[t], s.nextWid + 1)
      BY <1>1, <2>1, OrderedUpTo
    <3>4. /\ Ordered(t, s.cache[t], Append(s.up, m), doc[t], s.nextWid + 1)
          /\ Later(t, s.cache[t], s.up, doc[t], s.cache[t], Append(s.up, m), doc[t])
      BY <3>2, <3>3, OrderedSame
    <3> QED  BY <1>2, <2>1, <3>4
  <2> QED  BY <2>2, <2>3
<1>5. Advances(s, doc, u, doc)
  BY <1>2, <1>4 DEF Advances, Flow, Outgoing
<1>6. Flow(u, doc, pic)
  BY <1>5, AdvanceFlow
<1> QED  BY <1>6 DEF u

(* All tiles of a combined request. *)
LEMMA RenderAllFlow ==
    ASSUME NEW s, Kept(s, doc), NEW pic, Flow(s, doc, pic), doc \in [Tile -> Nat], NEW rs, IsSeq(rs)
    PROVE  Flow(FoldLeft(Render, s, rs), doc, pic)
<1>1. PICK S : rs \in Seq(S)
  BY DEF IsSeq
<1>2. Len(rs) \in Nat
  BY SeqParts
<1>3. PICK r : Painting!IsRun(r, s, rs) /\ Painting!Fold(s, rs) = r[Len(rs)]
  BY <1>1, Painting!FoldRuns
<1>4. FoldLeft(Render, s, rs) = Painting!Fold(s, rs)
  BY DEF FoldLeft, MapThenFoldSet, Max, Painting!Max, Painting!Fold
<1> DEFINE T == {i \in Nat : Kept(r[i], doc) /\ Flow(r[i], doc, pic)}
<1>5. 0 \in T
  BY <1>3 DEF Painting!IsRun
<1>6. ASSUME NEW i \in Nat, i + 1 <= Len(rs), i \in T PROVE i + 1 \in T
  <2>1. r[i + 1] = Render(r[i], rs[i + 1])
    <3>1. i + 1 \in 1..Len(rs) /\ (i + 1) - 1 = i
      BY <1>2, <1>6
    <3> QED  BY <1>3, <3>1 DEF Painting!IsRun
  <2>2. Kept(r[i], doc) /\ Formed(r[i]) /\ Flow(r[i], doc, pic)
    BY <1>6 DEF Kept
  <2> QED  BY <2>1, <2>2, RenderKeeps, RenderFlow
<1>7. Len(rs) \in T
  <2> HIDE DEF T
  <2> QED  BY <1>2, <1>5, <1>6, StepsTo
<1> QED  BY <1>3, <1>4, <1>7

(* The Kit forgets renderings, which are not on their way. *)
LEMMA DropFlow ==
    ASSUME NEW s, Formed(s), NEW pic, Flow(s, doc, pic), NEW out PROVE Flow(DropDeltas(s, out), doc, pic)
<1> DEFINE u == DropDeltas(s, out)
<1>1. DOMAIN s = Fields
  BY DEF Formed
<1>2. /\ u.cache = s.cache /\ u.up = s.up /\ u.nextWid = s.nextWid
      /\ u.wire = s.wire /\ u.sent = s.sent /\ u.sendQ = s.sendQ
  BY <1>1 DEF DropDeltas
<1> HIDE DEF u
<1>3. ASSUME NEW t \in Tile
      PROVE  /\ Ordered(t, u.cache[t], u.up, doc[t], u.nextWid)
             /\ Flowing(t, pic[t], u.wire, u.sendQ, u.cache[t], u.up, doc[t])
  BY <1>2 DEF Flow
<1>4. Outgoing(u) /\ IsSeq(u.wire)
  BY <1>2 DEF Flow, Outgoing
<1>5. Flow(u, doc, pic)
  BY <1>3, <1>4 DEF Flow
<1> QED  BY <1>5 DEF u

(* saveTileAndNotify() after an eviction: the rendering moves from the way into the entry. *)
LEMMA SavesFlow ==
    ASSUME NEW s, NEW d, Kept(s, d), NEW pic, Flow(s, d, pic), s.up # <<>>, Head(s.up).k = "tile", NEW out
    PROVE  Flow(Saves(s, out), d, pic)
<1> DEFINE m == Head(s.up)
           u == Saves(s, out)
<1>1. Formed(s) /\ IsSeq(s.up) /\ m = s.up[1] /\ 1 \in DOMAIN s.up /\ s.nextWid \in Nat
  BY Shortened DEF Kept, Formed
<1>2. Saving(s, out, u)
  BY <1>1, SaveEffect
<1> HIDE DEF u
<1>3. /\ u.up = Tail(s.up) /\ u.nextWid = s.nextWid /\ u.sendQ = s.sendQ /\ u.wire = s.wire
      /\ u.sent = s.sent /\ \A t \in Tile : u.cache[t] = Entered(s, out, m, t)
  BY <1>2 DEF Saving
<1> HIDE DEF m
<1>4. ASSUME NEW t \in Tile
      PROVE  /\ Alike(s.sendQ, u.sendQ, t) /\ Rises(u.cache[t])
             /\ Ordered(t, u.cache[t], u.up, d[t], u.nextWid)
             /\ Later(t, s.cache[t], s.up, d[t], u.cache[t], u.up, d[t])
  <2> DEFINE e == s.cache[t]
             g == Left(s, out, t)
             e2 == u.cache[t]
             up == s.up
             n == d[t]
             w == s.nextWid
  <2>1. /\ Rises(e) /\ Ordered(t, e, up, n, w) /\ Alike(s.sendQ, u.sendQ, t) /\ Entry(e)
        /\ ChainAt(t, e, up, s.prev[t])
    BY <1>3 DEF Flow, Outgoing, Alike, Kept, Formed
  <2>2. g = NotCached \/ g = e
    BY DEF Left
  <2>3. ~NotCached.here
    BY DEF NotCached
  <2>4. Entry(g) /\ ChainAt(t, g, up, s.prev[t])
    <3>1. Entry(NotCached) /\ ChainAt(t, NotCached, up, s.prev[t])
      BY <2>1, <2>3 DEF Entry, ChainAt
    <3> QED  BY <2>1, <2>2, <3>1
  <2>5. Remains(e, g)
    BY <2>2, <2>3 DEF Remains
  <2>6. e2 = Entered(s, out, m, t) /\ u.up = Tail(up) /\ u.nextWid = w
    BY <1>3
  <2>7. e2 = IF t = m.t THEN Saved(g, m.f) ELSE g
    BY <2>6 DEF Entered
  <2>8. IsSeq(up) /\ up # <<>> /\ w \in Nat
    BY <1>1
  <2> HIDE DEF e, g, e2, n, w
  <2>9. Ordered(t, g, up, n, w) /\ Rises(g) /\ Later(t, e, up, n, g, up, n)
    BY <2>1, <2>5, OrderedRemains
  <2>10. Rises(e2) /\ Ordered(t, e2, Tail(up), n, w) /\ Later(t, g, up, n, e2, Tail(up), n)
    <3>1. CASE t # m.t
      BY <2>7, <2>8, <2>9, <3>1, OrderedTail
    <3>2. CASE t = m.t
      <4>1. 1 \in Of(up, t) /\ e2 = Saved(g, up[1].f)
        BY <1>1, <2>7, <3>2 DEF Of, m
      <4> HIDE DEF up
      <4>2. /\ Rises(e2)
            /\ e2.here => Last(e2.frames) = up[1].f /\ \A k \in DOMAIN e2.frames : e2.frames[k].wid <= up[1].f.wid
        BY <2>4, <2>8, <2>9, <4>1, SavedRises
      <4>3. Ordered(t, e2, Tail(up), n, w) /\ Later(t, g, up, n, e2, Tail(up), n)
        BY <2>8, <2>9, <4>1, <4>2, OrderedSaved
      <4> QED  BY <4>2, <4>3
    <3> QED  BY <3>1, <3>2
  <2>11. Later(t, e, up, n, e2, Tail(up), n)
    BY <2>9, <2>10 DEF Later
  <2> QED  BY <2>1, <2>6, <2>10, <2>11 DEF e, e2, n, w
<1>5. Advances(s, d, u, d)
  BY <1>3, <1>4 DEF Advances, Flow, Outgoing
<1>6. Flow(u, d, pic)
  BY <1>5, AdvanceFlow
<1> QED  BY <1>6 DEF u

(* wsd takes a message that is no rendering. *)
LEMMA TakesFlow ==
    ASSUME NEW s, Formed(s), NEW d, NEW pic, Flow(s, d, pic), s.up # <<>>, NEW u, Takes(s, u)
    PROVE  Flow(u, d, pic)
<1>1. IsSeq(s.up) /\ IsSeq(s.sendQ)
  BY DEF Formed, Flow, Outgoing
<1>2. /\ u.up = Tail(s.up) /\ u.nextWid = s.nextWid /\ u.wire = s.wire /\ u.sent = s.sent
      /\ \A t \in Tile : Remains(s.cache[t], u.cache[t])
  BY DEF Takes, Remains
<1>3. IsSeq(u.sendQ) /\ \A t : Alike(s.sendQ, u.sendQ, t)
  <2>1. CASE u.sendQ = s.sendQ
    BY <1>1, <2>1 DEF Alike
  <2>2. CASE \E m : m.k \in {"inval", "status"} /\ u.sendQ = Append(s.sendQ, m)
    BY <1>1, <2>2, AlikeAppend
  <2> QED  BY <2>1, <2>2 DEF Takes
<1>4. ASSUME NEW t \in Tile
      PROVE  /\ Rises(u.cache[t]) /\ Ordered(t, u.cache[t], u.up, d[t], u.nextWid)
             /\ Later(t, s.cache[t], s.up, d[t], u.cache[t], u.up, d[t])
  <2> DEFINE e == s.cache[t]
             e2 == u.cache[t]
             n == d[t]
             w == s.nextWid
  <2>1. Rises(e) /\ Ordered(t, e, s.up, n, w) /\ Remains(e, e2)
    BY <1>2 DEF Flow, Outgoing
  <2> HIDE DEF e, e2, n, w
  <2>2. Ordered(t, e2, s.up, n, w) /\ Rises(e2) /\ Later(t, e, s.up, n, e2, s.up, n)
    BY <2>1, OrderedRemains
  <2>3. Ordered(t, e2, Tail(s.up), n, w) /\ Later(t, e2, s.up, n, e2, Tail(s.up), n)
    BY <1>1, <2>2, OrderedTail
  <2>4. Later(t, e, s.up, n, e2, Tail(s.up), n)
    BY <2>2, <2>3 DEF Later
  <2> QED  BY <1>2, <2>2, <2>3, <2>4 DEF e, e2, n, w
<1>5. Advances(s, d, u, d)
  BY <1>2, <1>3, <1>4 DEF Advances
<1> QED  BY <1>5, AdvanceFlow

(* The renderings on the way stay, and so do the entries. *)
Keeping(s, u) ==
    /\ u.cache = s.cache /\ u.nextWid = s.nextWid
    /\ \A t : Of(u.up, t) = Of(s.up, t) /\ \A i \in Of(s.up, t) : u.up[i] = s.up[i]

(* The Kit tells wsd something else. *)
LEMMA KeepingFlow ==
    ASSUME NEW s, NEW d, NEW pic, Flow(s, d, pic), NEW u, Keeping(s, u),
           u.sendQ = s.sendQ, u.wire = s.wire, u.sent = s.sent
    PROVE  Flow(u, d, pic)
<1>1. ASSUME NEW t \in Tile
      PROVE  /\ Alike(s.sendQ, u.sendQ, t) /\ Rises(u.cache[t])
             /\ Ordered(t, u.cache[t], u.up, d[t], u.nextWid)
             /\ Later(t, s.cache[t], s.up, d[t], u.cache[t], u.up, d[t])
  <2>1. /\ Rises(s.cache[t]) /\ Ordered(t, s.cache[t], s.up, d[t], s.nextWid)
        /\ u.cache[t] = s.cache[t] /\ Alike(s.sendQ, u.sendQ, t) /\ u.nextWid = s.nextWid
        /\ Of(u.up, t) = Of(s.up, t) /\ \A i \in Of(s.up, t) : u.up[i] = s.up[i]
    BY DEF Flow, Outgoing, Alike, Keeping
  <2>2. /\ Ordered(t, s.cache[t], u.up, d[t], s.nextWid)
        /\ Later(t, s.cache[t], s.up, d[t], s.cache[t], u.up, d[t])
    BY <2>1, OrderedSame
  <2> QED  BY <2>1, <2>2
<1>2. Advances(s, d, u, d)
  BY <1>1 DEF Advances, Flow, Outgoing
<1> QED  BY <1>2, AdvanceFlow

(* The connection is lost with all that was sent on it. *)
LEMMA LostFlow ==
    ASSUME NEW s, NEW d, NEW pic, Flow(s, d, pic), NEW u, Keeping(s, u),
           u.sendQ = <<>>, u.wire = <<>>, u.sent \in [Tile -> Nat]
    PROVE  Flow(u, d, pic)
<1>1. IsSeq(<<>>) /\ \A t : Carrying(<<>>, t) = {}
  BY DEF IsSeq, Carrying
<1>2. ASSUME NEW t \in Tile
      PROVE  /\ Rises(u.cache[t]) /\ Waiting(u.sendQ, t, u.cache[t])
             /\ Ordered(t, u.cache[t], u.up, d[t], u.nextWid)
             /\ Flowing(t, pic[t], u.wire, u.sendQ, u.cache[t], u.up, d[t])
  <2> DEFINE e == s.cache[t]
             n == d[t]
             w == s.nextWid
             x == pic[t]
  <2>1. /\ Rises(e) /\ Ordered(t, e, s.up, n, w) /\ Flowing(t, x, s.wire, s.sendQ, e, s.up, n)
        /\ u.cache[t] = e /\ u.nextWid = w
        /\ Of(u.up, t) = Of(s.up, t) /\ \A i \in Of(s.up, t) : u.up[i] = s.up[i]
    BY DEF Flow, Outgoing, Keeping
  <2> HIDE DEF e, n, w, x
  <2>2. Ordered(t, e, u.up, n, w) /\ Later(t, e, s.up, n, e, u.up, n)
    BY <2>1, OrderedSame
  <2>3. Flowing(t, x, s.wire, s.sendQ, e, u.up, n)
    <3>1. Alike(s.sendQ, s.sendQ, t)
      BY DEF Alike
    <3> QED  BY <2>1, <2>2, <3>1, LaterFlowing
  <2>4. Flowing(t, x, <<>>, <<>>, e, u.up, n)
    <3>1. Queued(t, <<>>, e, u.up, n) /\ OnWire(t, <<>>, <<>>, e, u.up, n)
      BY <1>1 DEF Queued, OnWire
    <3>2. Held(x, t, <<>>, <<>>, e, u.up, n)
      BY <1>1, <2>3 DEF Flowing, Held, Floor
    <3> QED  BY <3>1, <3>2 DEF Flowing
  <2>5. Waiting(<<>>, t, e)
    BY <1>1 DEF Waiting
  <2> QED  BY <2>1, <2>2, <2>4, <2>5 DEF e, n, w, x
<1> QED  BY <1>1, <1>2 DEF Flow, Outgoing

-----------------------------------------------------------------------------
(* Steps of the messages *)

(* Taking the first message moves the others one place forward. *)
LEMMA CarryingTail ==
    ASSUME NEW q, IsSeq(q), q # <<>>, NEW t
    PROVE  /\ \A i \in Carrying(Tail(q), t) :
                 i + 1 \in Carrying(q, t) /\ Tail(q)[i] = q[i + 1] /\ i \in Nat /\ 1 < i + 1
           /\ Head(q) = q[1] /\ 1 \in DOMAIN q /\ IsSeq(Tail(q))
<1> DEFINE r == Tail(q)
           n == Len(q)
<1>1. /\ IsSeq(r) /\ n \in Nat \ {0} /\ DOMAIN q = 1..n /\ Head(q) = q[1]
      /\ DOMAIN r = 1..n-1 /\ \A i \in DOMAIN r : r[i] = q[i + 1]
  BY Shortened
<1> HIDE DEF r, n
<1>2. \A i \in DOMAIN r : i \in Nat /\ 1 < i + 1 /\ i + 1 \in DOMAIN q
  BY <1>1
<1>3. \A i \in Carrying(r, t) : i + 1 \in Carrying(q, t) /\ r[i] = q[i + 1] /\ i \in Nat /\ 1 < i + 1
  BY <1>1, <1>2 DEF Carrying
<1>4. 1 \in DOMAIN q
  BY <1>1
<1> QED  BY <1>1, <1>3, <1>4 DEF r

(* A message of r for t is one of q, or it is m, at the place l behind them. *)
Joined(q, m, l, r, t) ==
    \A i \in Carrying(r, t) :
        \/ i \in Carrying(q, t) /\ r[i] = q[i] /\ i \in Nat /\ i < l
        \/ i = l /\ r[i] = m /\ m.k \in {"tile", "delta"} /\ m.t = t

(* A message joins the others. *)
LEMMA CarryingAppend ==
    ASSUME NEW q, IsSeq(q), NEW m, NEW t
    PROVE  Joined(q, m, Len(q) + 1, Append(q, m), t) /\ Len(q) \in Nat
<1> DEFINE r == Append(q, m)
           n == Len(q)
<1>1. /\ IsSeq(r) /\ n \in Nat /\ DOMAIN q = 1..n /\ DOMAIN r = 1..n+1
      /\ (\A i \in DOMAIN q : r[i] = q[i]) /\ r[n + 1] = m
  BY Appended
<1> HIDE DEF r, n
<1>2. \A i \in DOMAIN r : (i \in DOMAIN q /\ i \in Nat /\ i < n + 1) \/ i = n + 1
  BY <1>1
<1>3. Joined(q, m, n + 1, r, t)
  BY <1>1, <1>2 DEF Carrying, Joined
<1> QED  BY <1>1, <1>3 DEF r, n

(* The first message of the sender queue goes to the end of the wire. *)
LEMMA FlushFlowing ==
    ASSUME NEW t, NEW x, NEW wire, IsSeq(wire), NEW q, IsSeq(q), q # <<>>, NEW e, NEW up, NEW n,
           Flowing(t, x, wire, q, e, up, n), Waiting(q, t, e)
    PROVE  Flowing(t, x, Append(wire, Head(q)), Tail(q), e, up, n) /\ Waiting(Tail(q), t, e)
<1> DEFINE r == Tail(q)
           m == Head(q)
           v == Append(wire, m)
           l == Len(wire) + 1
<1>1. /\ \A i \in Carrying(r, t) : i + 1 \in Carrying(q, t) /\ r[i] = q[i + 1] /\ i \in Nat /\ 1 < i + 1
      /\ m = q[1] /\ 1 \in DOMAIN q
  BY CarryingTail
<1>2. Joined(wire, m, l, v, t) /\ l \in Nat
  <2>1. Len(wire) \in Nat /\ Joined(wire, m, Len(wire) + 1, Append(wire, m), t)
    <3> HIDE DEF m
    <3> QED  BY CarryingAppend
  <2> QED  BY <2>1
<1> HIDE DEF r, m, v, l
<1>3. m.k \in {"tile", "delta"} /\ m.t = t => 1 \in Carrying(q, t)
  BY <1>1 DEF Carrying
<1>4. \A y : Floor(y, q, t) => Floor(y, r, t)
  BY <1>1 DEF Floor
<1>5. \A y : Floor(y, wire, t) /\ Floor(y, q, t) => Floor(y, v, t)
  BY <1>1, <1>2, <1>3 DEF Floor, Joined
<1>6. Queued(t, r, e, up, n)
  BY <1>1 DEF Flowing, Queued
<1>7. ASSUME NEW i \in Carrying(v, t)
      PROVE  /\ Linked(v[i].fs) /\ Before(Result(v[i]), t, e, up, n)
             /\ \A j \in Carrying(v, t) : i < j => Result(v[i]) <= Result(v[j])
             /\ Floor(Result(v[i]), r, t)
  <2>1. CASE i \in Carrying(wire, t) /\ v[i] = wire[i] /\ i \in Nat /\ i < l
    <3>1. /\ Linked(v[i].fs) /\ Before(Result(v[i]), t, e, up, n) /\ Floor(Result(v[i]), q, t)
          /\ \A j \in Carrying(wire, t) : i < j => Result(v[i]) <= Result(wire[j])
      BY <2>1 DEF Flowing, OnWire
    <3>2. ASSUME NEW j \in Carrying(v, t), i < j PROVE Result(v[i]) <= Result(v[j])
      <4>1. CASE j \in Carrying(wire, t) /\ v[j] = wire[j]
        BY <3>1, <3>2, <4>1
      <4>2. CASE v[j] = m /\ m.k \in {"tile", "delta"} /\ m.t = t
        BY <1>1, <1>3, <3>1, <4>2 DEF Floor
      <4> QED  BY <1>2, <4>1, <4>2 DEF Joined
    <3> QED  BY <1>4, <3>1, <3>2
  <2>2. CASE i = l /\ v[i] = m /\ m.k \in {"tile", "delta"} /\ m.t = t
    <3>1. Linked(m.fs) /\ Before(Result(m), t, e, up, n)
      BY <1>1, <1>3, <2>2 DEF Waiting, Flowing, Queued
    <3>2. \A j \in Carrying(v, t) : ~(i < j)
      <4>1. \A j \in Carrying(v, t) : j \in Nat /\ (j < l \/ j = l)
        BY <1>2 DEF Joined
      <4>2. \A j \in Nat : j < l \/ j = l => ~(l < j)
        BY <1>2
      <4> QED  BY <2>2, <4>1, <4>2
    <3>3. Floor(Result(m), r, t)
      <4>1. \A j \in Carrying(q, t) : 1 < j => Result(m) <= Result(q[j])
        BY <1>1, <1>3, <2>2 DEF Waiting
      <4> QED  BY <1>1, <4>1 DEF Floor
    <3> QED  BY <2>2, <3>1, <3>2, <3>3
  <2> QED  BY <1>2, <2>1, <2>2 DEF Joined
<1>8. OnWire(t, v, r, e, up, n)
  BY <1>7 DEF OnWire
<1>9. Held(x, t, v, r, e, up, n)
  BY <1>4, <1>5 DEF Flowing, Held
<1>10. Waiting(r, t, e)
  <2> SUFFICES ASSUME NEW i \in Carrying(r, t)
               PROVE  /\ Linked(r[i].fs) /\ Result(r[i]) \in Nat
                      /\ e.here => Result(r[i]) <= Last(e.frames).c
                      /\ \A j \in Carrying(r, t) : i < j => Result(r[i]) <= Result(r[j])
    BY DEF Waiting
  <2>1. \A j \in Carrying(r, t) : i < j => i + 1 < j + 1
    BY <1>1
  <2> QED  BY <1>1, <2>1 DEF Waiting
<1>11. Flowing(t, x, v, r, e, up, n)
  BY <1>6, <1>8, <1>9 DEF Flowing
<1> QED  BY <1>10, <1>11 DEF r, m, v

(* What wsd has sent comes after what was sent before. *)
LEMMA FlushFlow ==
    ASSUME NEW s, NEW d, NEW pic, Flow(s, d, pic), s.sendQ # <<>>, NEW u,
           u.cache = s.cache, u.up = s.up, u.nextWid = s.nextWid, u.sent = s.sent,
           u.sendQ = Tail(s.sendQ), u.wire = Append(s.wire, Head(s.sendQ))
    PROVE  Flow(u, d, pic)
<1>1. IsSeq(s.sendQ) /\ IsSeq(s.wire)
  BY DEF Flow, Outgoing
<1>2. IsSeq(u.sendQ) /\ IsSeq(u.wire)
  BY <1>1, Shortened, Appended
<1>3. ASSUME NEW t \in Tile
      PROVE  /\ Rises(u.cache[t]) /\ Ordered(t, u.cache[t], u.up, d[t], u.nextWid)
             /\ Flowing(t, pic[t], u.wire, u.sendQ, u.cache[t], u.up, d[t])
             /\ Waiting(u.sendQ, t, u.cache[t])
  <2>1. /\ Rises(s.cache[t]) /\ Ordered(t, s.cache[t], s.up, d[t], s.nextWid)
        /\ Flowing(t, pic[t], s.wire, s.sendQ, s.cache[t], s.up, d[t])
        /\ Waiting(s.sendQ, t, s.cache[t])
    BY DEF Flow, Outgoing
  <2>2. /\ Flowing(t, pic[t], Append(s.wire, Head(s.sendQ)), Tail(s.sendQ), s.cache[t], s.up, d[t])
        /\ Waiting(Tail(s.sendQ), t, s.cache[t])
    BY <1>1, <2>1, FlushFlowing
  <2> QED  BY <2>1, <2>2
<1>4. Outgoing(u)
  BY <1>2, <1>3 DEF Outgoing, Flow
<1> QED  BY <1>2, <1>3, <1>4 DEF Flow

(* _applyDelta(): frames that follow one another leave a picture as it is, spoil it, or end *)
(* with their last.                                                                         *)
LEMMA ApplyLinked ==
    ASSUME NEW fs, Linked(fs), NEW img
    PROVE  ApplyDelta(img, fs) \in {img, Garbage, Last(fs).c}
<1>1. PICK S : fs \in Seq(S)
  BY DEF Linked, IsSeq
<1>2. Len(fs) \in Nat /\ fs # <<>> /\ \A i \in 2..Len(fs) : fs[i].from = fs[i - 1].c
  BY SeqParts DEF Linked
<1>3. PICK r : Drawing!IsRun(r, img, fs) /\ Drawing!Fold(img, fs) = r[Len(fs)]
  BY <1>1, Drawing!FoldRuns
<1>4. ApplyDelta(img, fs) = Drawing!Fold(img, fs)
  BY DEF ApplyDelta, FoldLeft, MapThenFoldSet, Max, Drawing!Max, Drawing!Fold
<1> DEFINE Good(i) == r[i] \in {img, Garbage} \/ (i >= 1 /\ r[i] = fs[i].c)
           T == {i \in Nat : Good(i)}
<1>5. 0 \in T
  BY <1>3 DEF Drawing!IsRun
<1>6. ASSUME NEW i \in Nat, i + 1 <= Len(fs), i \in T PROVE i + 1 \in T
  <2> DEFINE f == fs[i + 1]
  <2>1. r[i + 1] = ApplyFrame(r[i], f)
    <3>1. i + 1 \in 1..Len(fs) /\ (i + 1) - 1 = i
      BY <1>2, <1>6
    <3> QED  BY <1>3, <3>1 DEF Drawing!IsRun
  <2>2. i >= 1 => f.from = fs[i].c
    <3>1. i >= 1 => i + 1 \in 2..Len(fs) /\ (i + 1) - 1 = i
      BY <1>2, <1>6
    <3> QED  BY <1>2, <3>1
  <2>3. Good(i) /\ i + 1 >= 1 /\ i + 1 \in Nat
    BY <1>6
  <2>4. r[i + 1] \in {Garbage, f.c} \/ (r[i + 1] = r[i] /\ (f.from = f.c \/ r[i] = Garbage))
    BY <2>1 DEF ApplyFrame
  <2>5. r[i + 1] \in {img, Garbage, f.c}
    BY <2>2, <2>3, <2>4
  <2> QED  BY <2>3, <2>5
<1>7. Len(fs) \in T
  <2> HIDE DEF T
  <2> QED  BY <1>2, <1>5, <1>6, StepsTo
<1> QED  BY <1>2, <1>3, <1>4, <1>7 DEF Last

(* No tile goes back: what is drawn of it is nothing, or no older than what was. *)
Grows(pic, new) ==
    \A t \in Tile : new[t] \in {Blank, Garbage} \/ pic[t] \in {Blank, Garbage} \/ pic[t] <= new[t]

(* The browser takes the first message from the wire, and draws it or not. *)
LEMMA TakenFlowing ==
    ASSUME NEW t, NEW x, NEW wire, IsSeq(wire), wire # <<>>, NEW q, NEW e, NEW up, NEW n,
           Flowing(t, x, wire, q, e, up, n), NEW y,
           y = x \/ y \in {Blank, Garbage} \/ (1 \in Carrying(wire, t) /\ y = Result(wire[1]))
    PROVE  /\ Flowing(t, y, Tail(wire), q, e, up, n)
           /\ y \in {Blank, Garbage} \/ x \in {Blank, Garbage} \/ x <= y
<1> DEFINE r == Tail(wire)
<1>1. \A i \in Carrying(r, t) : i + 1 \in Carrying(wire, t) /\ r[i] = wire[i + 1] /\ i \in Nat /\ 1 < i + 1
  BY CarryingTail
<1> HIDE DEF r
<1>2. \A i, j \in Carrying(r, t) : i < j => i + 1 < j + 1
  BY <1>1
<1>3. OnWire(t, r, q, e, up, n)
  BY <1>1, <1>2 DEF Flowing, OnWire
<1>4. \A z : Floor(z, wire, t) => Floor(z, r, t)
  BY <1>1 DEF Floor
<1>5. Held(x, t, r, q, e, up, n)
  BY <1>4 DEF Flowing, Held
<1>6. ASSUME 1 \in Carrying(wire, t), y = Result(wire[1]) PROVE Held(y, t, r, q, e, up, n)
  <2>1. /\ Before(y, t, e, up, n) /\ Floor(y, q, t)
        /\ \A j \in Carrying(wire, t) : 1 < j => y <= Result(wire[j])
    BY <1>6 DEF Flowing, OnWire
  <2> QED  BY <1>1, <2>1 DEF Held, Floor
<1>7. Held(y, t, r, q, e, up, n)
  <2>1. CASE y = x
    BY <1>5, <2>1
  <2>2. CASE y \in {Blank, Garbage}
    BY <2>2 DEF Held
  <2> QED  BY <1>6, <2>1, <2>2
<1>8. y \in {Blank, Garbage} \/ x \in {Blank, Garbage} \/ x <= y
  <2>1. x \in {Blank, Garbage} \/ (x \in Nat /\ Floor(x, wire, t))
    BY DEF Flowing, Held, Before
  <2> QED  BY <2>1 DEF Floor
<1> QED  BY <1>3, <1>7, <1>8 DEF Flowing, r

(* So no tile goes back. *)
LEMMA TakenFlow ==
    ASSUME NEW s, NEW d, NEW pic, Flow(s, d, pic), s.wire # <<>>, NEW u,
           u.cache = s.cache, u.up = s.up, u.nextWid = s.nextWid, u.sent = s.sent,
           u.sendQ = s.sendQ, u.wire = Tail(s.wire),
           NEW new, new = pic \/ (Head(s.wire).k \in {"tile", "delta"} /\ Repainted(pic, new, Head(s.wire)))
    PROVE  Flow(u, d, new) /\ Grows(pic, new)
<1> DEFINE m == Head(s.wire)
<1>1. IsSeq(s.wire) /\ m = s.wire[1] /\ 1 \in DOMAIN s.wire /\ IsSeq(u.wire)
  BY CarryingTail DEF Flow
<1>2. ASSUME NEW t \in Tile
      PROVE  /\ Ordered(t, u.cache[t], u.up, d[t], u.nextWid)
             /\ Flowing(t, new[t], u.wire, u.sendQ, u.cache[t], u.up, d[t])
             /\ new[t] \in {Blank, Garbage} \/ pic[t] \in {Blank, Garbage} \/ pic[t] <= new[t]
  <2> DEFINE x == pic[t]
             y == new[t]
  <2>1. /\ Ordered(t, s.cache[t], s.up, d[t], s.nextWid)
        /\ Flowing(t, x, s.wire, s.sendQ, s.cache[t], s.up, d[t])
    BY DEF Flow
  <2>2. y = x \/ y \in {Blank, Garbage} \/ (1 \in Carrying(s.wire, t) /\ y = Result(s.wire[1]))
    <3>1. CASE y = x
      BY <3>1
    <3>2. CASE y # x
      <4>1. m.k \in {"tile", "delta"} /\ Repainted(pic, new, m)
        BY <3>2
      <4>2. PICK img : t = m.t /\ Showing(img, x) /\ y = ApplyDelta(img, m.fs)
        BY <3>2, <4>1 DEF Repainted
      <4>3. 1 \in Carrying(s.wire, t)
        BY <1>1, <4>1, <4>2 DEF Carrying
      <4>4. Linked(m.fs)
        BY <1>1, <2>1, <4>3 DEF Flowing, OnWire
      <4>5. y \in {img, Garbage, Last(m.fs).c}
        BY <4>2, <4>4, ApplyLinked
      <4> QED  BY <1>1, <4>2, <4>3, <4>5 DEF Showing, Result
    <3> QED  BY <3>1, <3>2
  <2> HIDE DEF x, y
  <2>3. /\ Flowing(t, y, Tail(s.wire), s.sendQ, s.cache[t], s.up, d[t])
        /\ y \in {Blank, Garbage} \/ x \in {Blank, Garbage} \/ x <= y
    BY <1>1, <2>1, <2>2, TakenFlowing
  <2> QED  BY <2>1, <2>3 DEF x, y
<1>3. Outgoing(u)
  BY DEF Flow, Outgoing
<1> QED  BY <1>1, <1>2, <1>3 DEF Flow, Grows

-----------------------------------------------------------------------------
(* The steps *)

FlowInv ==
    /\ CacheInv /\ doc \in [Tile -> Nat]
    /\ \E pic : Page(client, client.area, pic) /\ Flow(srv, doc, pic)

(* What the browser shows of a tile is a picture of it, or nothing. *)
Seen(shown, pic) == \A t \in Tile : shown[t] = Blank \/ (shown[t] = pic[t] /\ pic[t] \notin {Blank, Garbage})

(* The layer holds no other. *)
LEMMA ShownSeen == ASSUME NEW pic, Page(client, client.area, pic) PROVE Seen(Shown, pic)
<1> SUFFICES ASSUME NEW t \in Tile
             PROVE  Shown[t] = Blank \/ (Shown[t] = pic[t] /\ pic[t] \notin {Blank, Garbage})
  BY DEF Seen
<1>1. Shown[t] = IF client.tiles[t].here /\ client.tiles[t].img # Garbage THEN client.tiles[t].img ELSE Blank
  BY DEF Shown
<1>2. Drawn(client.tiles[t], pic[t])
  BY DEF Page
<1>3. client.tiles[t].here => Showing(client.tiles[t].img, pic[t])
  BY <1>2 DEF Drawn, NoTile
<1> QED  BY <1>1, <1>3 DEF Showing

(* The same after a step. *)
LEMMA ShownSeenNext == ASSUME NEW pic, Page(client', client'.area, pic) PROVE Seen(Shown', pic)
<1> SUFFICES ASSUME NEW t \in Tile
             PROVE  Shown'[t] = Blank \/ (Shown'[t] = pic[t] /\ pic[t] \notin {Blank, Garbage})
  BY DEF Seen
<1>1. Shown'[t] = IF client'.tiles[t].here /\ client'.tiles[t].img # Garbage THEN client'.tiles[t].img ELSE Blank
  BY DEF Shown
<1>2. Drawn(client'.tiles[t], pic[t])
  BY DEF Page
<1>3. client'.tiles[t].here => Showing(client'.tiles[t].img, pic[t])
  BY <1>2 DEF Drawn, NoTile
<1> QED  BY <1>1, <1>3 DEF Showing

(* A picture that is held is one of the document's states. *)
LEMMA HeldState ==
    ASSUME NEW s, NEW d, NEW pic, Flow(s, d, pic), NEW t \in Tile, pic[t] \notin {Blank, Garbage}
    PROVE  pic[t] \in Nat /\ pic[t] <= d[t]
BY DEF Flow, Flowing, Held, Before

(* When no tile goes back, the step is one of TileView's. *)
LEMMA RefreshStep ==
    ASSUME NEW pic, NEW new, doc' = doc, doc \in [Tile -> Nat], NEW s,
           Seen(Shown, pic), Seen(Shown', new), Flow(s, doc, new), Grows(pic, new)
    PROVE  View!Refresh
<1>1. ASSUME NEW t \in Tile
      PROVE  \/ Shown'[t] = Blank
             \/ Shown'[t] \in 0..doc[t] /\ (Shown[t] # Blank => Shown'[t] >= Shown[t])
  <2>1. CASE Shown'[t] # Blank
    <3>1. Shown'[t] = new[t] /\ new[t] \notin {Blank, Garbage}
      BY <2>1 DEF Seen
    <3>2. new[t] \in Nat /\ new[t] <= doc[t] /\ doc[t] \in Nat
      BY <3>1, HeldState
    <3>3. Shown[t] # Blank => Shown[t] = pic[t] /\ pic[t] <= new[t]
      BY <3>1 DEF Seen, Grows
    <3> QED  BY <3>1, <3>2, <3>3
  <2> QED  BY <2>1
<1> QED  BY <1>1 DEF View!Refresh

(* After a step the layer holds the pictures new, which are in order and no older than pic. *)
Leads(pic, new) ==
    Page(client', client'.area, new) /\ Flow(srv', doc', new) /\ Grows(pic, new)

(* What is not drawn anew does not go back. *)
LEMMA GrowsSelf == ASSUME NEW s, NEW d, NEW pic, Flow(s, d, pic) PROVE Grows(pic, pic)
<1>1. \A t \in Tile : pic[t] \in {Blank, Garbage} \/ pic[t] \in Nat
  BY HeldState
<1> QED  BY <1>1 DEF Grows

(* The browser and wsd act together, and nothing is drawn. *)
LEMMA HandledLeads ==
    ASSUME NEW pic, Flow(srv, doc, pic), doc' = doc, Handled(srv, pic) PROVE Leads(pic, pic)
BY CalmFlow, GrowsSelf DEF Handled, Leads

(* The browser takes a message from the wire and draws it or not. *)
LEMMA TakenLeads ==
    ASSUME CacheInv, NEW pic, Flow(srv, doc, pic), doc' = doc, srv.wire # <<>>, NEW new, Handled(Taken, new),
           new = pic \/ (Head(srv.wire).k \in {"tile", "delta"} /\ Repainted(pic, new, Head(srv.wire)))
    PROVE  Leads(pic, new)
<1>1. DOMAIN srv = Fields
  BY DEF CacheInv, Kept, Formed
<1>2. /\ Taken.cache = srv.cache /\ Taken.up = srv.up /\ Taken.nextWid = srv.nextWid
      /\ Taken.sent = srv.sent /\ Taken.sendQ = srv.sendQ /\ Taken.wire = Tail(srv.wire)
  BY <1>1 DEF Taken
<1>3. Flow(Taken, doc, new) /\ Grows(pic, new)
  BY <1>2, TakenFlow
<1>4. Flow(srv', doc, new)
  BY <1>3, CalmFlow DEF Handled
<1> QED  BY <1>3, <1>4 DEF Leads, Handled

(* Only wsd or the Kit act. *)
LEMMA ServerLeads ==
    ASSUME NEW pic, Page(client, client.area, pic), client' = client, doc' = doc, Flow(srv', doc, pic)
    PROVE  Leads(pic, pic)
BY GrowsSelf DEF Leads

(* The Kit sends an invalidation or the status of a view. *)
LEMMA KitLeads ==
    ASSUME CacheInv, NEW pic, Page(client, client.area, pic), Flow(srv, doc, pic), KitInvalidate \/ KitLoad
    PROVE  Leads(pic, pic)
<1>1. DOMAIN srv = Fields /\ IsSeq(srv.up)
  BY DEF CacheInv, Kept, Formed
<1>2. client' = client /\ doc' = doc
  BY DEF KitInvalidate, KitLoad
<1>3. /\ srv'.cache = srv.cache /\ srv'.nextWid = srv.nextWid
      /\ srv'.sendQ = srv.sendQ /\ srv'.wire = srv.wire /\ srv'.sent = srv.sent
      /\ \E m : m.k # "tile" /\ srv'.up = Append(srv.up, m)
  <2>1. CASE KitInvalidate
    <3> DEFINE m == [k |-> "inval", ts |-> Head(srv.queue).ts, mine |-> srv.view = "active"]
    <3>1. srv' = [srv EXCEPT !.queue = Tail(@), !.remembered = @ \/ srv.view = "inactive",
                             !.up = Append(@, m)]
      BY <2>1 DEF KitInvalidate
    <3>2. m.k # "tile"
      OBVIOUS
    <3> HIDE DEF m
    <3> QED  BY <1>1, <3>1, <3>2
  <2>2. CASE KitLoad
    <3> DEFINE m == [k |-> "status"]
    <3>1. PICK out : srv' = DropDeltas([srv EXCEPT !.queue = Tail(@), !.view = "active",
                                                   !.up = Append(@, m)], out)
      BY <2>2 DEF KitLoad
    <3>2. m.k # "tile"
      OBVIOUS
    <3> HIDE DEF m
    <3> QED  BY <1>1, <3>1, <3>2 DEF DropDeltas
  <2> QED  BY <2>1, <2>2
<1>4. PICK m : m.k # "tile" /\ srv'.up = Append(srv.up, m)
  BY <1>3
<1>5. ASSUME NEW t
      PROVE  Of(srv'.up, t) = Of(srv.up, t) /\ \A i \in Of(srv.up, t) : srv'.up[i] = srv.up[i]
  <2>1. ~(m.k = "tile" /\ m.t = t)
    BY <1>4
  <2>2. Of(Append(srv.up, m), t) = Of(srv.up, t) /\ \A i \in Of(srv.up, t) : Append(srv.up, m)[i] = srv.up[i]
    BY <1>1, <2>1, OfAppendOther
  <2> QED  BY <1>4, <2>2
<1>6. Keeping(srv, srv')
  BY <1>3, <1>5 DEF Keeping
<1>7. Flow(srv', doc, pic)
  BY <1>3, <1>6, KeepingFlow
<1> QED  BY <1>2, <1>7, ServerLeads

(* The Kit renders the tiles of a row. *)
LEMMA KitRenderLeads ==
    ASSUME CacheInv, NEW pic, Page(client, client.area, pic), Flow(srv, doc, pic), doc \in [Tile -> Nat],
           KitRender
    PROVE  Leads(pic, pic)
<1>0. PICK first \in Leading(srv.queue) : \E out :
        srv' = DropDeltas(
                 FoldLeft(Render,
                          [srv EXCEPT !.queue = PickAt(@, DOMAIN @ \ OnRow(@, Part(srv.queue[first].t)))],
                          Combined(srv.queue, first)), out)
  BY DEF KitRender
<1>1. PICK out : srv' = DropDeltas(
                 FoldLeft(Render,
                          [srv EXCEPT !.queue = PickAt(@, DOMAIN @ \ OnRow(@, Part(srv.queue[first].t)))],
                          Combined(srv.queue, first)), out)
  BY <1>0
<1> DEFINE q == srv.queue
           at == DOMAIN q \ OnRow(q, Part(q[first].t))
           r == PickAt(q, at)
           s == [srv EXCEPT !.queue = r]
           rs == Combined(q, first)
<1>2. Kept(srv, doc) /\ Formed(srv) /\ IsSeq(q) /\ Telling(q)
  BY DEF CacheInv, Kept, Formed
<1>3. IsSeq(rs)
  BY <1>2, CombinedSeq
<1>4. at \subseteq DOMAIN q /\ \A i \in DOMAIN q : q[i].k = "inval" => i \in at
  BY DEF OnRow
<1>5. srv' = DropDeltas(FoldLeft(Render, s, rs), out)
  BY <1>1
<1> HIDE DEF at, rs
<1>6. Thins(q, r, at)
  BY <1>2, <1>4, Picked
<1>7. IsSeq(r) /\ Telling(r) /\ \A t : Announced(q, t) => Announced(r, t)
  BY <1>2, <1>4, <1>6, Thinned
<1> HIDE DEF r
<1>8. Calm(srv, s)
  BY <1>2, <1>7, QueueCalm
<1> HIDE DEF s, q
<1>9. Kept(s, doc) /\ Flow(s, doc, pic)
  BY <1>2, <1>8, CalmKeeps, CalmFlow
<1>10. Flow(srv', doc, pic)
  <2>1. Flow(FoldLeft(Render, s, rs), doc, pic)
    BY <1>3, <1>9, RenderAllFlow
  <2>2. Formed(FoldLeft(Render, s, rs))
    BY <1>3, <1>9, RenderAllKeeps DEF Kept
  <2> QED  BY <1>5, <2>1, <2>2, DropFlow
<1>11. client' = client /\ doc' = doc
  BY DEF KitRender
<1> QED  BY <1>10, <1>11, ServerLeads

(* wsd takes a message of the Kit, or sends one to the browser. *)
LEMMA WsdLeads ==
    ASSUME CacheInv, NEW pic, Page(client, client.area, pic), Flow(srv, doc, pic),
           WsdTile \/ WsdUnchanged \/ WsdInvalidate \/ WsdStatus \/ WsdFlush
    PROVE  Leads(pic, pic)
<1>1. client' = client /\ doc' = doc
  BY DEF WsdTile, WsdUnchanged, WsdInvalidate, WsdStatus, WsdFlush
<1>2. Kept(srv, doc) /\ Formed(srv)
  BY DEF CacheInv, Kept
<1>3. Flow(srv', doc, pic)
  <2>1. CASE WsdTile
    <3>1. PICK out : Kept(Saves(srv, out), doc) /\ Calm(Saves(srv, out), srv')
      BY <2>1, WsdTileSaves
    <3>2. srv.up # <<>> /\ Head(srv.up).k = "tile"
      BY <2>1 DEF WsdTile
    <3>3. Flow(Saves(srv, out), doc, pic)
      BY <1>2, <3>2, SavesFlow
    <3> QED  BY <3>1, <3>3, CalmFlow
  <2>2. CASE WsdInvalidate
    <3>1. PICK w : Takes(srv, w) /\ Kept(w, doc) /\ Calm(w, srv')
      BY <2>2, WsdInvalidateTakes
    <3>2. srv.up # <<>>
      BY <2>2 DEF WsdInvalidate
    <3>3. Flow(w, doc, pic)
      BY <1>2, <3>1, <3>2, TakesFlow
    <3> QED  BY <3>1, <3>3, CalmFlow
  <2>3. CASE WsdStatus
    <3>1. PICK w : Calm(srv, w) /\ Takes(w, srv') /\ Kept(srv', doc)
      BY <2>3, WsdStatusTakes
    <3>2. w.up # <<>> /\ Formed(w)
      BY <2>3, <3>1 DEF WsdStatus, Calm, Same
    <3>3. Flow(w, doc, pic)
      BY <3>1, CalmFlow
    <3> QED  BY <3>1, <3>2, <3>3, TakesFlow
  <2>4. CASE WsdFlush
    <3>1. /\ srv'.cache = srv.cache /\ srv'.up = srv.up /\ srv'.nextWid = srv.nextWid
          /\ srv'.sent = srv.sent /\ srv'.sendQ = Tail(srv.sendQ)
          /\ srv'.wire = Append(srv.wire, Head(srv.sendQ)) /\ srv.sendQ # <<>>
      BY <1>2, <2>4 DEF WsdFlush, Formed
    <3> QED  BY <3>1, FlushFlow
  <2>5. CASE WsdUnchanged
    <3>1. Takes(srv, srv') /\ srv.up # <<>>
      BY <2>5, WsdUnchangedTakes DEF WsdUnchanged
    <3> QED  BY <1>2, <3>1, TakesFlow
  <2> QED  BY <2>1, <2>2, <2>3, <2>4, <2>5
<1> QED  BY <1>1, <1>3, ServerLeads

(* The connection is lost and made anew. *)
LEMMA ReconnectLeads ==
    ASSUME CacheInv, NEW pic, Page(client, client.area, pic), Flow(srv, doc, pic), Reconnect
    PROVE  Leads(pic, pic)
<1> DEFINE up == srv.up
           up2 == [i \in DOMAIN up |-> IF up[i].k = "inval" THEN [up[i] EXCEPT !.mine = FALSE] ELSE up[i]]
           zero == [t \in Tile |-> 0]
<1>1. DOMAIN srv = Fields /\ Worded(up)
  BY DEF CacheInv, Kept, Formed
<1>2. /\ srv'.up = up2 /\ srv'.cache = srv.cache /\ srv'.nextWid = srv.nextWid
      /\ srv'.sendQ = <<>> /\ srv'.wire = <<>> /\ srv'.sent = zero
  BY <1>1 DEF Reconnect
<1>3. srv'.sent \in [Tile -> Nat]
  BY <1>2
<1>4. ASSUME NEW i \in DOMAIN up
      PROVE  up2[i].k = up[i].k /\ (up[i].k # "inval" => up2[i] = up[i])
  <2>1. CASE up[i].k = "inval"
    <3>1. DOMAIN up[i] = {"k", "ts", "mine"} /\ up2[i] = [up[i] EXCEPT !.mine = FALSE]
      BY <1>1, <2>1 DEF Worded
    <3> QED  BY <2>1, <3>1
  <2>2. CASE up[i].k # "inval"
    BY <2>2
  <2> QED  BY <2>1, <2>2
<1>5. DOMAIN up2 = DOMAIN up
  OBVIOUS
<1> HIDE DEF up2
<1>6. \A t : Of(up2, t) = Of(up, t) /\ \A i \in Of(up, t) : up2[i] = up[i]
  BY <1>4, <1>5 DEF Of
<1>7. Keeping(srv, srv')
  BY <1>2, <1>6 DEF Keeping
<1>8. Flow(srv', doc, pic)
  BY <1>2, <1>3, <1>7, LostFlow
<1>9. /\ DOMAIN client' = PageFields /\ client'.area = client.area
      /\ client'.tileCache = client.tileCache /\ client'.tiles = client.tiles
  BY DEF Reconnect, Page
<1>10. Page(client', client'.area, pic)
  BY <1>9, SamePage
<1>11. doc' = doc
  BY DEF Reconnect
<1> QED  BY <1>8, <1>10, <1>11, GrowsSelf DEF Leads

(* The view becomes inactive. *)
LEMMA DeactivateLeads ==
    ASSUME CacheInv, NEW pic, Page(client, client.area, pic), Flow(srv, doc, pic), Deactivate
    PROVE  Leads(pic, pic)
<1> DEFINE s == [srv EXCEPT !.view = "inactive"]
<1>1. Formed(srv)
  BY DEF CacheInv, Kept
<1>2. Quiet(srv, s)
  BY <1>1 DEF Quiet, Idle, Silent, Formed
<1>3. PICK out : srv' = DropDeltas(s, out)
  BY DEF Deactivate
<1> HIDE DEF s
<1>4. Formed(s) /\ Flow(s, doc, pic)
  BY <1>1, <1>2, QuietCalm, CalmFlow DEF Calm, Same
<1>5. Flow(srv', doc, pic)
  BY <1>3, <1>4, DropFlow
<1>6. Page(client', client.area, pic) /\ client'.area = client.area
  BY DeactivateKeeps DEF Page, Deactivate
<1>7. doc' = doc
  BY DEF Deactivate
<1> QED  BY <1>5, <1>6, <1>7, GrowsSelf DEF Leads

(* Somebody edits: the document gets ahead of all its pictures. *)
LEMMA EditLeads ==
    ASSUME CacheInv, NEW pic, Page(client, client.area, pic), Flow(srv, doc, pic), doc \in [Tile -> Nat],
           NEW t \in Tile, Edit(t)
    PROVE  Leads(pic, pic) /\ doc' \in [Tile -> Nat] /\ View!Next
<1>1. Formed(srv)
  BY DEF CacheInv, Kept
<1>2. srv' = PutInval(srv, {t}) /\ doc' = [doc EXCEPT ![t] = @ + 1] /\ client' = client
  BY DEF Edit
<1>3. Calm(srv, srv')
  BY <1>1, <1>2, FS_Singleton, PutInvalCalm
<1>4. doc' \in [Tile -> Nat] /\ \A x \in Tile : doc[x] \in Nat /\ doc'[x] \in Nat /\ doc[x] <= doc'[x]
  BY <1>2
<1>5. Flow(srv', doc, pic)
  BY <1>3, CalmFlow
<1>6. Flow(srv', doc', pic)
  BY <1>4, <1>5, DocFlow
<1>7. Leads(pic, pic)
  BY <1>2, <1>6, GrowsSelf DEF Leads
<1>8. Shown' = Shown
  BY <1>2 DEF Shown
<1>9. View!Next
  BY <1>2, <1>8 DEF View!Next, View!Edit
<1> QED  BY <1>4, <1>7, <1>9

(* At the start nothing is drawn and nothing is on its way. *)
LEMMA FlowInit == Init => FlowInv /\ View!Init
<1> SUFFICES ASSUME Init PROVE FlowInv /\ View!Init
  OBVIOUS
<1> DEFINE pic == [t \in Tile |-> Blank]
<1>1. /\ doc = [t \in Tile |-> 0] /\ client.tiles = [t \in Tile |-> NoTile]
      /\ DOMAIN client = PageFields /\ client.tileCache = [t \in Tile |-> Blank]
  BY DEF Init, PageFields
<1>2. /\ srv.cache = [t \in Tile |-> NotCached] /\ srv.up = <<>> /\ srv.sendQ = <<>> /\ srv.wire = <<>>
      /\ srv.sent = [t \in Tile |-> 0]
  BY DEF Init
<1>3. IsSeq(<<>>) /\ \A t : Carrying(<<>>, t) = {} /\ Of(<<>>, t) = {}
  BY DEF IsSeq, Carrying, Of
<1>4. Page(client, client.area, pic)
  BY <1>1 DEF Page, Drawn, Showing
<1>5. ASSUME NEW t \in Tile
      PROVE  /\ Rises(srv.cache[t]) /\ Waiting(srv.sendQ, t, srv.cache[t])
             /\ Ordered(t, srv.cache[t], srv.up, doc[t], srv.nextWid)
             /\ Flowing(t, pic[t], srv.wire, srv.sendQ, srv.cache[t], srv.up, doc[t])
  <2>1. ~srv.cache[t].here /\ pic[t] = Blank
    BY <1>2 DEF NotCached
  <2>2. Rises(srv.cache[t]) /\ Waiting(srv.sendQ, t, srv.cache[t])
    BY <1>2, <1>3, <2>1 DEF Rises, Waiting
  <2>3. Ordered(t, srv.cache[t], srv.up, doc[t], srv.nextWid)
    BY <1>2, <1>3, <2>1 DEF Ordered
  <2>4. Flowing(t, pic[t], srv.wire, srv.sendQ, srv.cache[t], srv.up, doc[t])
    BY <1>2, <1>3, <2>1 DEF Flowing, Queued, OnWire, Held
  <2> QED  BY <2>2, <2>3, <2>4
<1>6. Outgoing(srv) /\ IsSeq(srv.wire)
  <2>1. srv.sent \in [Tile -> Nat]
    BY <1>2
  <2> QED  BY <1>2, <1>3, <1>5, <2>1 DEF Outgoing
<1>7. Flow(srv, doc, pic)
  BY <1>5, <1>6 DEF Flow
<1>8. doc \in [Tile -> Nat]
  BY <1>1
<1>9. Shown = [t \in Tile |-> Blank]
  BY <1>1 DEF Shown, NoTile
<1>10. View!Init
  BY <1>1, <1>9 DEF View!Init
<1> HIDE DEF pic
<1> QED  BY <1>4, <1>7, <1>8, <1>10, CacheInit DEF FlowInv

(* Every step keeps the order, and is a step of TileView. *)
LEMMA FlowStep == FlowInv /\ [Next]_vars => FlowInv' /\ View!Next
<1> SUFFICES ASSUME FlowInv, [Next]_vars PROVE FlowInv' /\ View!Next
  OBVIOUS
<1>0. CacheInv /\ doc \in [Tile -> Nat] /\ CacheInv'
  BY CacheStep DEF FlowInv
<1> PICK pic : Page(client, client.area, pic) /\ Flow(srv, doc, pic)
  BY DEF FlowInv
<1>a. ASSUME doc' \in [Tile -> Nat], NEW new, Leads(pic, new) PROVE FlowInv'
  <2>1. Page(client', client'.area, new) /\ Flow(srv', doc', new)
    BY <1>a DEF Leads
  <2> QED  BY <1>0, <1>a, <2>1 DEF FlowInv
<1>b. ASSUME doc' = doc, NEW new, Leads(pic, new) PROVE FlowInv' /\ View!Next
  <2>1. Page(client', client'.area, new) /\ Flow(srv', doc, new) /\ Grows(pic, new)
    BY <1>b DEF Leads
  <2>2. Seen(Shown, pic) /\ Seen(Shown', new)
    BY <2>1, ShownSeen, ShownSeenNext
  <2>3. View!Refresh
    BY <1>0, <1>b, <2>1, <2>2, RefreshStep
  <2> QED  BY <1>0, <1>a, <1>b, <2>3 DEF View!Next
<1>1. CASE UNCHANGED vars
  <2>1. srv' = srv /\ doc' = doc /\ client' = client
    BY <1>1 DEF vars
  <2> QED  BY <1>b, <2>1, ServerLeads
<1>2. ASSUME NEW t \in Tile, Edit(t) PROVE FlowInv' /\ View!Next
  BY <1>0, <1>a, <1>2, EditLeads
<1>3. ASSUME NEW a \in Areas, Move(a) PROVE FlowInv' /\ View!Next
  <2>1. doc' = doc
    BY <1>3 DEF Move
  <2> QED  BY <1>0, <1>b, <1>3, <2>1, MoveHandled, HandledLeads
<1>4. ASSUME NEW p \in Parts, SetPart(p) PROVE FlowInv' /\ View!Next
  <2>1. doc' = doc
    BY <1>4 DEF SetPart
  <2> QED  BY <1>0, <1>b, <1>4, <2>1, SetPartHandled, HandledLeads
<1>5. CASE PreFetchTiles
  <2>1. doc' = doc
    BY <1>5 DEF PreFetchTiles
  <2> QED  BY <1>0, <1>b, <1>5, <2>1, PreFetchTilesHandled, HandledLeads
<1>6. CASE PreFetchPartTiles
  <2>1. doc' = doc
    BY <1>6 DEF PreFetchPartTiles
  <2> QED  BY <1>0, <1>b, <1>6, <2>1, PreFetchPartTilesHandled, HandledLeads
<1>7. CASE Elapse
  <2>1. doc' = doc /\ client' = client
    BY <1>7 DEF Elapse
  <2>2. Flow(srv', doc, pic)
    BY <1>0, <1>7, ElapseCalm, CalmFlow
  <2> QED  BY <1>b, <2>1, <2>2, ServerLeads
<1>8. CASE Deactivate
  <2>1. doc' = doc
    BY <1>8 DEF Deactivate
  <2> QED  BY <1>0, <1>b, <1>8, <2>1, DeactivateLeads
<1>9. CASE Activate
  <2>1. doc' = doc
    BY <1>9 DEF Activate
  <2> QED  BY <1>0, <1>b, <1>9, <2>1, ActivateHandled, HandledLeads
<1>10. CASE Reconnect
  <2>1. doc' = doc
    BY <1>10 DEF Reconnect
  <2> QED  BY <1>0, <1>b, <1>10, <2>1, ReconnectLeads
<1>11. CASE ClientTile
  <2>1. doc' = doc /\ srv.wire # <<>> /\ Head(srv.wire).k \in {"tile", "delta"}
    BY <1>11 DEF ClientTile
  <2>2. PICK new : Repainted(pic, new, Head(srv.wire)) /\ Handled(Taken, new)
    BY <1>0, <1>11, ClientTileHandled
  <2>3. Leads(pic, new)
    BY <1>0, <2>1, <2>2, TakenLeads
  <2> QED  BY <1>b, <2>1, <2>3
<1>12. CASE ClientInvalidate
  <2>1. doc' = doc /\ srv.wire # <<>>
    BY <1>12 DEF ClientInvalidate
  <2>2. Handled(Taken, pic)
    BY <1>0, <1>12, ClientInvalidateHandled
  <2> QED  BY <1>0, <1>b, <2>1, <2>2, TakenLeads
<1>13. CASE ClientStatus
  <2>1. doc' = doc /\ srv.wire # <<>>
    BY <1>13 DEF ClientStatus
  <2>2. Handled(Taken, pic)
    BY <1>0, <1>13, ClientStatusHandled
  <2> QED  BY <1>0, <1>b, <2>1, <2>2, TakenLeads
<1>14. CASE KitInvalidate \/ KitLoad
  <2>1. doc' = doc
    BY <1>14 DEF KitInvalidate, KitLoad
  <2> QED  BY <1>0, <1>b, <1>14, <2>1, KitLeads
<1>15. CASE KitRender
  <2>1. doc' = doc
    BY <1>15 DEF KitRender
  <2> QED  BY <1>0, <1>b, <1>15, <2>1, KitRenderLeads
<1>16. CASE WsdTile \/ WsdUnchanged \/ WsdInvalidate \/ WsdStatus \/ WsdFlush
  <2>1. doc' = doc
    BY <1>16 DEF WsdTile, WsdUnchanged, WsdInvalidate, WsdStatus, WsdFlush
  <2> QED  BY <1>0, <1>b, <1>16, <2>1, WsdLeads
<1>19. ASSUME NEW t \in Tile, InvalidateMore(t) PROVE FlowInv' /\ View!Next
  <2>1. doc' = doc /\ client' = client
    BY <1>19 DEF InvalidateMore
  <2>2. Flow(srv', doc, pic)
    BY <1>0, <1>19, InvalidateMoreCalm, CalmFlow
  <2> QED  BY <1>b, <2>1, <2>2, ServerLeads
<1>17. CASE Environment
  BY <1>2, <1>3, <1>4, <1>5, <1>7, <1>8, <1>10, <1>17, <1>19 DEF Environment
<1>18. CASE System
  BY <1>6, <1>9, <1>11, <1>12, <1>13, <1>14, <1>15, <1>16, <1>18 DEF System
<1> QED  BY <1>1, <1>17, <1>18 DEF Next

-----------------------------------------------------------------------------
(* The theorem *)

(* The tile flow implements TileView: what a tile shows is nothing or a state the document *)
(* has been in, and is only replaced by nothing or by a state no older, however renderings, *)
(* evictions, cancelled requests, reconnections and messages interleave (_onTileMsg()).     *)
THEOREM TilesImplementView == Spec => ImplementsView
<1>1. Init => FlowInv /\ View!Init
  BY FlowInit
<1>2. FlowInv /\ [Next]_vars => FlowInv' /\ [View!Next]_<<doc, Shown>>
  BY FlowStep
<1> QED  BY <1>1, <1>2, PTL DEF Spec, ImplementsView, View!Spec
=============================================================================
