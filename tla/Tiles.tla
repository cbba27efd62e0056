------------------------------- MODULE Tiles -------------------------------
(***************************************************************************)
(* The flow of rendered tiles between the Kit (which renders them), wsd    *)
(* (TileCache, ClientSession, DocumentBroker: which caches them and paces  *)
(* what it sends) and the browser's CanvasTileLayer (which shows them).    *)
(*                                                                         *)
(* One view is modelled in full; other views exist only in that their      *)
(* edits change the document.  Tiles of one zoom level and one mode, all   *)
(* of one part on one row.  The content of a tile is the number of edits   *)
(* it reflects.  A message the client sends is handled by wsd in the same  *)
(* step, and one wsd sends is put into the Kit's queue in the same step:   *)
(* every step the receiver could take before reading it does not depend on *)
(* it and can be taken before the sender's step.  The way down (Kit to     *)
(* wsd, wsd's sender queue, wire to the browser) is asynchronous.          *)
(***************************************************************************)
EXTENDS Integers, FiniteSets, Sequences, SequencesExt

CONSTANTS
    Parts,        \* part numbers; a text document has only part 0
    Pos,          \* positions of tiles on the row of a part
    Areas,        \* the visible areas the user may scroll to: sets of positions
    DocTypes,     \* the kinds of document opened: text, spreadsheet, presentation
    Limit,        \* tilesOnFlyUpperLimit, at least the tiles of the visible area
    MaxEdits,     \* bound: edits
    MaxMoves,     \* bound: scrolls, part changes, prefetches and faults
    Faults        \* subset of {"evict", "forget", "elapse", "repaint", "inactive", "reconnect"}

ASSUME TilesAssumption ==
    /\ Parts \subseteq Nat /\ Parts # {} /\ IsFiniteSet(Parts)
    /\ Pos \subseteq Nat /\ IsFiniteSet(Pos)
    /\ Areas \subseteq SUBSET Pos /\ Areas # {}
    /\ DocTypes \subseteq {"text", "spreadsheet", "presentation"}
    /\ Limit \in Nat \ {0} /\ \A a \in Areas : Cardinality(a) <= Limit
    /\ MaxEdits \in Nat /\ MaxMoves \in Nat

VARIABLES
    doc,     \* the document: the content of each tile
    srv,     \* the Kit's, wsd's and the channels' state
    client,  \* CanvasTileLayer's state
    moves,   \* what is left of MaxMoves
    astray,  \* history: tiles the browser has drawn a delta of without its base, or not at all
    away,    \* history: a view of a document with parts has been inactive or disconnected
    unacked, \* history: an inactive browser has not acknowledged a tile
    skipped  \* history: tiles somebody waited for that were answered by nothing

vars == <<doc, srv, client, moves, astray, away, unacked, skipped>>

Tile == Parts \X Pos
Part(t) == t[1]
IsText(s) == s.docType = "text"   \* _isTextDocument

Blank   == -1            \* nothing drawn: an img without source
Garbage == -2            \* a delta was applied to a picture it was not made for
NoTile  == [here |-> FALSE]
NoWid   == -1            \* no entry in ClientSession::_oldWireIds
NoWids  == [t \in Tile |-> NoWid]
NotCached == [here |-> FALSE]
NotRendering == [here |-> FALSE]

Content == 0..MaxEdits
Image   == Content \cup {Blank, Garbage}

\* The elements of q at these positions, in their order.
PickAt(q, at) ==
    [n \in 1..Cardinality(at) |->
        q[CHOOSE i \in at : Cardinality({j \in at : j <= i}) = n]]

\* f with Op applied to what it has at the members of S.
At(f, S, Op(_)) == [x \in DOMAIN f |-> IF x \in S THEN Op(f[x]) ELSE f[x]]

-----------------------------------------------------------------------------
(* The Kit's TileQueue *)

\* removeTileDuplicate(): a queued request equal up to " ver", so for the same
\* tile and the same oldwid, is removed.
PutTile(s, r) ==
    LET same == {i \in DOMAIN s.queue : /\ s.queue[i].k = "tile"
                                        /\ s.queue[i].t = r.t /\ s.queue[i].old = r.old}
        rest == IF same = {} THEN s.queue
                ELSE RemoveAt(s.queue, CHOOSE i \in same : \A j \in same : i <= j)
    IN  [s EXCEPT !.queue = Append(rest, [k |-> "tile", t |-> r.t, old |-> r.old, ver |-> r.ver])]

PutTiles(s, rs) == FoldLeft(PutTile, s, rs)

\* removeCallbackDuplicate() for an invalidation: the queued ones it covers go.
PutInval(s, ts) ==
    [s EXCEPT !.queue = Append(PickAt(@, {i \in DOMAIN @ : ~(@[i].k = "inval" /\ @[i].ts \subseteq ts)}),
                               [k |-> "inval", ts |-> ts])]

\* The leading tiles of the queue, among which the one nearest a cursor is taken.
Leading(q) == {i \in DOMAIN q : \A j \in 1..i : q[j].k = "tile"}

\* get_impl() for a tile: the request taken first and the others that are on its
\* row, as a "tile" or a "tilecombine"; of several for one tile only the first.
Combine(rs, m) == IF \E i \in DOMAIN rs : rs[i].t = m.t THEN rs ELSE Append(rs, m)
OnRow(q, p) == {i \in DOMAIN q : q[i].k = "tile" /\ Part(q[i].t) = p}
Combined(q, first) ==
    LET row == OnRow(q, Part(q[first].t))
        rs == FoldLeft(Combine, <<q[first]>>, PickAt(q, row \ {first}))
    IN  [i \in DOMAIN rs |->
            [rs[i] EXCEPT !.k = IF row = {first} THEN "tile" ELSE "tilecombine"]]

\* RenderTiles::doRender() and DeltaGenerator::createDelta(): a keyframe when it is
\* asked for or the Kit has no last rendering of the tile, otherwise the difference
\* from that, which is no bytes at all when nothing has changed.
Render(s, r) ==
    LET t == r.t
        key == r.old = 0 \/ s.prev[t] = Blank
        answer == IF ~key /\ s.prev[t] = doc[t]
                  THEN [k |-> "unchanged", t |-> t, ver |-> r.ver, of |-> r.k]
                  ELSE [k |-> "tile", t |-> t, ver |-> r.ver,
                        f |-> [wid |-> s.nextWid + 1, key |-> key,
                               from |-> IF key THEN Blank ELSE s.prev[t], c |-> doc[t]]]
    IN  [s EXCEPT !.nextWid = @ + 1, !.prev[t] = doc[t], !.up = Append(@, answer)]

\* rebalanceDeltasT() and dropCache(): the Kit forgets its last renderings of these tiles.
DropDeltas(s, out) == [s EXCEPT !.prev = At(@, out, LAMBDA c : Blank)]

-----------------------------------------------------------------------------
(* wsd: ClientSession *)

\* SenderQueue::enqueue() of a "tile:" message: an earlier one for the same tile that
\* is still queued is replaced.
SenderEnqueue(q, m) ==
    LET same == {i \in DOMAIN q : q[i].k = "tile" /\ q[i].t = m.t}
    IN  IF m.k = "tile" /\ same # {}
        THEN Append(RemoveAt(q, CHOOSE i \in same : \A j \in same : i <= j), m)
        ELSE Append(q, m)

\* enqueueSendMessage() with traceTileBySend(): only "tile:" messages are filtered by
\* wire id, remembered in _oldWireIds and counted as on the fly.
EnqueueSendMessage(s, m) ==
    LET q == SenderEnqueue(s.sendQ, m)
        inside == s.area # {} /\ m.t[2] \in s.area /\ (IsText(s) \/ Part(m.t) = s.part)
    IN  IF m.k # "tile" THEN [s EXCEPT !.sendQ = q]
        ELSE IF m.wid # 0 /\ s.oldWid[m.t] = m.wid THEN s
        ELSE [s EXCEPT !.sendQ = q,
                       !.oldWid[m.t] = IF @ # NoWid \/ inside THEN m.wid ELSE @,
                       !.onFly = IF Len(q) = Len(s.sendQ) THEN @
                                 ELSE Append(@, [t |-> m.t, late |-> FALSE])]

\* Variant of SendTile: the deltas that follow a keyframe are not sent with it.
BugSendTileKeyframeOnly(s, t, wid) ==
    LET last == s.sent[t]
        frames == s.cache[t].frames
        rest == IF last < frames[1].wid THEN <<frames[1]>>
                ELSE PickAt(frames, {i \in DOMAIN frames : frames[i].wid > last})
        s1 == [s EXCEPT !.sent[t] = wid]
    IN  IF rest = <<>> THEN s1
        ELSE EnqueueSendMessage(s1, [k |-> IF last < frames[1].wid THEN "tile" ELSE "delta",
                                     t |-> t, wid |-> wid, fs |-> rest])

\* sendTile(): what the client lacks since the wire id last sent to it.
SendTile(s, t, wid) ==
    LET last == s.sent[t]
        frames == s.cache[t].frames
        rest == PickAt(frames, {i \in DOMAIN frames : frames[i].wid > last})
        s1 == [s EXCEPT !.sent[t] = wid]
    IN  IF rest = <<>> THEN s1
        ELSE EnqueueSendMessage(s1, [k |-> IF last < frames[1].wid THEN "tile" ELSE "delta",
                                     t |-> t, wid |-> wid, fs |-> rest])

-----------------------------------------------------------------------------
(* wsd: TileCache *)

IsValid(s, t) == s.cache[t].here /\ s.cache[t].valid

\* Variant of Subscribe: who comes late to a rendering is not added to those who wait.
BugSubscribeOnlyFirst(s, t, ver) ==
    [s EXCEPT !.rendering[t] =
        IF ~@.here THEN [here |-> TRUE, ver |-> ver, stale |-> FALSE, sub |-> TRUE, gone |-> FALSE]
        ELSE [@ EXCEPT !.ver = ver]]

\* subscribeToTileRendering() by this session.
Subscribe(s, t, ver) ==
    [s EXCEPT !.rendering[t] =
        IF ~@.here THEN [here |-> TRUE, ver |-> ver, stale |-> FALSE, sub |-> TRUE, gone |-> FALSE]
        ELSE IF @.sub THEN [@ EXCEPT !.ver = ver]
        ELSE [@ EXCEPT !.sub = TRUE]]

\* ensureCacheSize() may only drop tiles nobody waits for.
Evictable(s) == {t \in Tile : s.cache[t].here /\ ~s.rendering[t].here}

\* Variant of SaveDataToCache: a delta without its tile is kept.
BugSaveDeltaAlone(s, m) ==
    LET t == m.t IN
    [s EXCEPT !.cache[t] = [here |-> TRUE, valid |-> TRUE,
                            frames |-> IF m.f.key \/ ~@.here THEN <<m.f>> ELSE Append(@.frames, m.f)]]

\* saveDataToCache(): a delta without the tile it is a delta of is discarded.
SaveDataToCache(s, m) ==
    LET t == m.t IN
    IF m.f.key THEN [s EXCEPT !.cache[t] = [here |-> TRUE, valid |-> TRUE, frames |-> <<m.f>>]]
    ELSE IF s.cache[t].here
         THEN [s EXCEPT !.cache[t] = [s.cache[t] EXCEPT !.valid = TRUE, !.frames = Append(@, m.f)]]
         ELSE s

\* forgetTileBeingRendered(), unless a later version is wanted.
ForgetTileBeingRendered(s, t, ver) ==
    LET r == s.rendering[t]
    IN  IF r.here /\ r.ver <= ver THEN [s EXCEPT !.rendering[t] = NotRendering] ELSE s

\* saveTileAndNotify()
SaveTileAndNotify(s, m) ==
    LET t == m.t
        s1 == SaveDataToCache(s, m)
        r == s.rendering[t]
        s2 == IF r.here /\ r.sub /\ s1.cache[t].here THEN SendTile(s1, t, m.f.wid) ELSE s1
    IN  ForgetTileBeingRendered(s2, t, m.ver)

\* handleTileResponse() and handleTileCombinedResponse() of no bytes: the first drops
\* it, the second makes saveTileAndNotify() forget who waits and send nothing.
HandleUnchanged(s, m) ==
    IF m.of = "tilecombine" THEN ForgetTileBeingRendered(s, m.t, m.ver) ELSE s

\* cancelTiles(): this session's subscriptions. The "canceltiles" that goes to the Kit
\* removes nothing from its queue: every tile there has an "id=" in its text, which
\* put_impl() takes for that of a thumbnail.
CancelRendering(s) ==
    LET mine == {t \in Tile : s.rendering[t].here /\ s.rendering[t].sub}
    IN  [s EXCEPT !.rendering = At(@, mine, LAMBDA r :
            IF r.gone THEN [r EXCEPT !.sub = FALSE] ELSE NotRendering)]

-----------------------------------------------------------------------------
(* wsd: DocumentBroker *)

BeingRendered(s) ==
    Cardinality({t \in Tile : s.rendering[t].here /\ s.rendering[t].sub /\ ~s.rendering[t].stale})

IdenticalOnFly(s, t) == Cardinality({i \in DOMAIN s.onFly : s.onFly[i].t = t})

\* removeOutdatedTilesOnFly(): from the front, as long as they are too old.
RemoveOutdated(s) ==
    [s EXCEPT !.onFly = LET keep == {i \in DOMAIN @ : \E j \in 1..i : ~@[j].late}
                        IN  IF keep = {} THEN <<>>
                            ELSE SubSeq(@, CHOOSE i \in keep : \A j \in keep : i <= j, Len(@))]

\* One turn of the loop of sendRequestedTiles(); st holds its local variables.
SendRequestedTile(st, unused) ==
    LET s == st.s
        r == Head(s.requested)
        t == r.t
        again == ~(s.rendering[t].here /\ ~s.rendering[t].stale) \/ s.rendering[t].ver < r.ver
        r1 == [r EXCEPT !.ver = s.ver + 1, !.old = IF s.cache[t].here THEN @ ELSE 0]
        popped == [s EXCEPT !.requested = Tail(@)]
    IN  IF \/ Len(s.onFly) + st.being >= Limit
           \/ s.requested = <<>>
           \/ st.delayed >= Len(s.requested) THEN st
        ELSE IF IdenticalOnFly(s, t) >= 2
        THEN [st EXCEPT !.s.requested = Append(Tail(@), r), !.delayed = @ + 1]
        ELSE IF IsValid(s, t)
        THEN [st EXCEPT !.s = SendTile(popped, t, 0)]
        ELSE IF again
        THEN [st EXCEPT !.s = Subscribe([popped EXCEPT !.ver = @ + 1], t, r1.ver),
                        !.being = @ + 1, !.render = Append(@, r1)]
        ELSE [st EXCEPT !.s = Subscribe(popped, t, r.ver), !.being = @ + 1]

SendRequestedTiles(s) ==
    LET s0 == RemoveOutdated(s)
        st == FoldLeft(SendRequestedTile,
                       [s |-> s0, being |-> BeingRendered(s0), delayed |-> 0, render |-> <<>>],
                       [i \in 1..(2 * Len(s0.requested)) |-> i])
    IN  PutTiles(st.s, st.render)

\* Variant of RequestTile: a forced keyframe does not reset what was sent.
BugRequestTileKeepsSent(st, r0) ==
    LET s == st.s
        t == r0.t
        r == [r0 EXCEPT !.ver = s.ver + 1, !.old = IF s.cache[t].here THEN @ ELSE 0]
        s1 == [s EXCEPT !.ver = @ + 1]
    IN  IF IsValid(s, t)
        THEN [st EXCEPT !.s = s1, !.reqs = Append(@, [r EXCEPT !.old = r0.old])]
        ELSE [st EXCEPT !.s = Subscribe(s1, t, r.ver), !.reqs = Append(@, r),
                        !.render = Append(@, r)]

\* One tile of handleTileCombinedRequest(): its version, the forced keyframe, and a
\* rendering when the cache has nothing valid.
RequestTile(st, r0) ==
    LET s == st.s
        t == r0.t
        r == [r0 EXCEPT !.ver = s.ver + 1, !.old = IF s.cache[t].here THEN @ ELSE 0]
        s1 == [s EXCEPT !.ver = @ + 1, !.sent[t] = IF st.force THEN 0 ELSE @]
    IN  IF IsValid(s, t)
        THEN [st EXCEPT !.s = s1, !.reqs = Append(@, [r EXCEPT !.old = r0.old])]
        ELSE [st EXCEPT !.s = Subscribe(s1, t, r.ver), !.reqs = Append(@, r),
                        !.render = Append(@, r)]

\* The new requests join the waiting ones; one that waits for the same position is
\* updated instead, whatever its part is.
Accumulate(waiting, r) ==
    LET same == {i \in DOMAIN waiting : waiting[i].t[2] = r.t[2]}
    IN  IF same = {} THEN Append(waiting, r)
        ELSE LET i == CHOOSE i \in same : \A j \in same : i <= j
             IN  [waiting EXCEPT ![i].ver = r.ver, ![i].old = r.old]

HandleTileCombinedRequest(s, ts, force) ==
    LET old(t) == IF force \/ s.oldWid[t] = NoWid THEN 0 ELSE s.oldWid[t]
        st == FoldLeft(RequestTile, [s |-> s, force |-> force, reqs |-> <<>>, render |-> <<>>],
                       [i \in DOMAIN ts |-> [t |-> ts[i], ver |-> 0, old |-> old(ts[i])]])
        s1 == PutTiles(st.s, st.render)
        s2 == [s1 EXCEPT !.requested = IF @ = <<>> THEN st.reqs ELSE FoldLeft(Accumulate, @, st.reqs)]
    IN  SendRequestedTiles(s2)

CancelTileRequests(s) ==
    CancelRendering([s EXCEPT !.onFly = <<>>, !.requested = <<>>,
                              !.oldWid = NoWids])

\* Tiles in the order of their parts and positions.
Sorted(ts) ==
    [n \in 1..Cardinality(ts) |->
        CHOOSE t \in ts : n = Cardinality({u \in ts : u[1] < t[1] \/ (u[1] = t[1] /\ u[2] <= t[2])})]

\* Variant of HandleTileInvalidation: the check of the visible area comes before the cache
\* is invalidated.
BugInvalidateOnlySeen(s, ts, mine) ==
    LET seen == {t \in ts : t[2] \in s.area /\ (IsText(s) \/ Part(t) = s.part)}
        s1 == [s EXCEPT !.sendQ = Append(@, [k |-> "inval", ts |-> ts]),
                        !.cache = At(@, {t \in seen : @[t].here},
                                     LAMBDA e : [e EXCEPT !.valid = FALSE])]
    IN  IF mine /\ seen # {} THEN HandleTileCombinedRequest(s1, Sorted(seen), FALSE) ELSE s

\* "invalidatetiles:" from the Kit: forwarded first, then the cache is invalidated and
\* what the session knows to be visible is requested again.
HandleTileInvalidation(s, ts, mine) ==
    LET s1 == IF mine THEN [s EXCEPT !.sendQ = Append(@, [k |-> "inval", ts |-> ts])] ELSE s
        s2 == [s1 EXCEPT !.cache = At(@, {t \in ts : @[t].here},
                                      LAMBDA e : [e EXCEPT !.valid = FALSE])]
        seen == {t \in ts : t[2] \in s.area /\ (IsText(s) \/ Part(t) = s.part)}
    IN  IF mine /\ seen # {} THEN HandleTileCombinedRequest(s2, Sorted(seen), FALSE) ELSE s2

\* "tileprocessed": one entry on the fly for the tile goes, then the next are sent.
TileProcessed(s, t) ==
    LET same == {i \in DOMAIN s.onFly : s.onFly[i].t = t}
    IN  SendRequestedTiles(
            IF same = {} THEN s
            ELSE [s EXCEPT !.onFly = RemoveAt(@, CHOOSE i \in same : \A j \in same : i <= j)])

\* "clientvisiblearea" and "setclientpart".
SetVisibleArea(s, a) == [s EXCEPT !.area = a, !.oldWid = NoWids]
SetClientPart(s, p) ==
    IF IsText(s) THEN s ELSE [s EXCEPT !.part = p, !.oldWid = NoWids]

-----------------------------------------------------------------------------
(* The browser: CanvasTileLayer. cs pairs the layer's state c with the server's s. *)

\* _applyDelta(): the frames of a message in turn.
ApplyFrame(img, f) ==
    IF f.key THEN f.c ELSE IF f.from = f.c \/ img = Garbage THEN img
    ELSE IF img = f.from THEN f.c ELSE Garbage

ApplyDelta(img, fs) == FoldLeft(ApplyFrame, img, fs)

\* _removeTile(): what is not invalidated goes to _tileCache.
RemoveTile(c, t) ==
    LET tile == c.tiles[t] IN
    IF ~tile.here THEN c
    ELSE [c EXCEPT !.tiles[t] = NoTile,
                   !.tileCache[t] = IF tile.inv = 0 /\ tile.img # Blank THEN tile.img ELSE @,
                   !.empty = IF ~tile.loaded /\ @ > 0 THEN @ - 1 ELSE @]

\* _pruneTiles() at one zoom level: what is not current is removed.
PruneTiles(c) ==
    FoldLeft(RemoveTile, c, Sorted({t \in Tile : c.tiles[t].here /\ ~c.tiles[t].current}))

NoTilesToLoad(c) == \A t \in Tile : c.tiles[t].here => c.tiles[t].loaded

\* Variant of TileReady: the count of empty tiles is not guarded.
BugTileReadyCountsAll(c, t) ==
    LET c1 == [c EXCEPT !.empty = @ - 1]
    IN  IF NoTilesToLoad(c1) THEN PruneTiles(c1) ELSE c1

\* _tileReady()
TileReady(c, t) ==
    LET c1 == [c EXCEPT !.empty = IF @ > 0 THEN @ - 1 ELSE 0]
    IN  IF NoTilesToLoad(c1) THEN PruneTiles(c1) ELSE c1

\* _onTileMsg(): a tile the layer holds is drawn (and with it the picture it shares
\* with _tileCache); one of another part that is not cached goes to _tileCache.
OnTileMsg(c, m) ==
    LET t == m.t
        tile == c.tiles[t]
        img == ApplyDelta(tile.img, m.fs)
    IN  IF tile.here
        THEN TileReady([c EXCEPT !.tiles[t] = [tile EXCEPT !.inv = IF @ > 0 THEN @ - 1 ELSE 0,
                                                           !.loaded = TRUE, !.img = img],
                                 !.tileCache[t] = IF @ # Blank THEN img ELSE @], t)
        ELSE IF Part(t) # c.part /\ c.tileCache[t] = Blank
        THEN [c EXCEPT !.tileCache[t] = ApplyDelta(Blank, m.fs)]
        ELSE c

\* In OnTileMsg() the update is lost on the tile: a delta is decoded without its base, or
\* the picture of another part's tile in _tileCache stays as it is.
Misdrawn(c, m) ==
    \/ ~m.fs[1].key /\ c.tiles[m.t].here /\ ~c.tiles[m.t].loaded
    \/ /\ ~c.tiles[m.t].here /\ Part(m.t) # c.part
       /\ c.tileCache[m.t] # Blank \/ ~m.fs[1].key

\* It is drawn from a keyframe on.
Redrawn(c, m) == m.fs[1].key /\ (c.tiles[m.t].here \/ c.tileCache[m.t] = Blank)

\* Variant of OnInvalidateTilesMsg: _tileCache is left alone.
BugInvalidateKeepsTileCache(c, ts) ==
    LET hit == {t \in Tile : t \in ts /\ c.tiles[t].here}
        c1 == [c EXCEPT !.tiles = At(@, hit, LAMBDA tile : [tile EXCEPT !.inv = @ + 1])]
    IN  FoldLeft(RemoveTile, c1, Sorted({t \in hit : t[2] \notin c.area}))

\* _onInvalidateTilesMsg(): visible tiles wait for a new one, the others are removed;
\* what the cache holds of the area is dropped.
OnInvalidateTilesMsg(c, ts) ==
    LET hit == {t \in Tile : t \in ts /\ c.tiles[t].here}
        c1 == [c EXCEPT !.tiles = At(@, hit, LAMBDA tile : [tile EXCEPT !.inv = @ + 1])]
        c2 == FoldLeft(RemoveTile, c1, Sorted({t \in hit : t[2] \notin c.area}))
    IN  [c2 EXCEPT !.tileCache = At(@, ts, LAMBDA img : Blank)]

\* Socket.sendMessage() of a request: nothing leaves while the user is inactive.
Send(cs, s) == IF cs.c.active THEN [cs EXCEPT !.s = s] ELSE cs

\* _cancelTiles(): what will not be fetched any more is dropped.
CancelTiles(cs) ==
    LET drop(t) == LET tile == cs.c.tiles[t] IN
                   tile.here /\ (\/ ~tile.loaded
                                 \/ tile.inv > 0 /\ (Part(t) # cs.c.part \/ t[2] \notin cs.c.area))
        cs1 == Send(cs, CancelTileRequests(cs.s))
    IN  [cs1 EXCEPT !.c.tiles = At(@, {t \in Tile : drop(t)}, LAMBDA tile : NoTile),
                    !.c.empty = 0]

\* createTile(), filled from _tileCache when it holds the tile.
CreateTile(c, t) ==
    IF c.tiles[t].here THEN c
    ELSE [c EXCEPT !.tiles[t] = [here |-> TRUE, current |-> TRUE, inv |-> 0,
                                 loaded |-> c.tileCache[t] # Blank, img |-> c.tileCache[t]],
                   !.empty = @ + 1]

\* The tilecombine request of what _tileCache does not hold.
RequestMissing(cs, ts) ==
    LET missing == {t \in ts : cs.c.tileCache[t] = Blank}
    IN  IF missing = {} THEN cs
        ELSE Send(cs, HandleTileCombinedRequest(cs.s, Sorted(missing), TRUE))

ArmPartPrefetch(cs) == [cs EXCEPT !.c.partPrefetch = @ \/ cs.s.docType = "presentation"]

\* _addTiles()
AddTiles(cs, ts) ==
    ArmPartPrefetch(RequestMissing([cs EXCEPT !.c = FoldLeft(CreateTile, cs.c, Sorted(ts))], ts))

\* What _update() and _updateOnChangePart() do first: only this part's tiles are current.
OnlyPartCurrent(c) ==
    [c EXCEPT !.tiles = At(@, {t \in Tile : @[t].here /\ Part(t) # c.part},
                           LAMBDA tile : [tile EXCEPT !.current = FALSE])]

InView(c) == {c.part} \X c.area

\* _sendClientVisibleArea()
SendClientVisibleArea(cs) ==
    IF cs.c.sentArea = cs.c.area \/ ~cs.c.active THEN cs
    ELSE [cs EXCEPT !.s = SetVisibleArea(@, cs.c.area), !.c.sentArea = cs.c.area]

\* _update()
Update(cs) ==
    LET c == OnlyPartCurrent(cs.c)
        good == {t \in InView(c) : c.tiles[t].here /\ c.tiles[t].loaded /\ c.tiles[t].inv = 0}
        c1 == [c EXCEPT !.tiles = At(@, {t \in InView(c) : @[t].here}, LAMBDA tile :
                  IF tile.inv > 0 THEN [tile EXCEPT !.inv = 1]
                  ELSE IF tile.loaded THEN [tile EXCEPT !.current = TRUE] ELSE tile)]
        queue == InView(c) \ good
        cs1 == SendClientVisibleArea([cs EXCEPT !.c = c1])
    IN  IF queue = {} THEN cs1
        ELSE AddTiles(IF good = {} THEN CancelTiles(cs1) ELSE cs1, queue)

\* _updateOnChangePart(), which asks only whether a tile is there.
UpdateOnChangePart(cs) ==
    LET c == OnlyPartCurrent(cs.c)
        there == {t \in InView(c) : c.tiles[t].here}
        c1 == [c EXCEPT !.tiles = At(@, there, LAMBDA tile : [tile EXCEPT !.current = TRUE])]
        queue == InView(c) \ there
        cs1 == [cs EXCEPT !.c = c1]
        cs2 == IF queue = {} THEN cs1
               ELSE LET cs0 == IF there = {} THEN CancelTiles(cs1) ELSE cs1
                    IN  RequestMissing([cs0 EXCEPT !.c = FoldLeft(CreateTile, @, Sorted(queue))],
                                       queue)
    IN  ArmPartPrefetch(cs2)

\* _requestNewTiles(): as if everything of the selected part had been invalidated.
RequestNewTiles(cs) ==
    Update([cs EXCEPT !.c = OnInvalidateTilesMsg(@, IF IsText(cs.s) THEN Tile ELSE {cs.c.part} \X Pos)])

-----------------------------------------------------------------------------
(* Steps *)

Become(cs) == client' = cs.c /\ srv' = cs.s
Now == [c |-> client, s |-> srv]
Spend == moves > 0 /\ moves' = moves - 1

\* Somebody edits: the Kit's document changes and an invalidation is queued.
Edit(t) ==
    /\ MapThenSumSet(LAMBDA u : doc[u], Tile) < MaxEdits
    /\ IsText(srv) => Part(t) = 0
    /\ doc' = [doc EXCEPT ![t] = @ + 1]
    /\ srv' = PutInval(srv, {t})
    /\ UNCHANGED <<client, moves, astray, away, unacked, skipped>>

\* Core invalidates a tile whose picture stays the same.
InvalidateMore(t) ==
    /\ "repaint" \in Faults /\ Spend
    /\ IsText(srv) => Part(t) = 0
    /\ srv' = PutInval(srv, {t})
    /\ UNCHANGED <<doc, client, astray, away, unacked, skipped>>

\* drainQueue(): the next item is an invalidation callback. An inactive view's is only
\* remembered; the other views' still reaches the cache.
KitInvalidate ==
    /\ srv.queue # <<>> /\ Head(srv.queue).k = "inval"
    /\ srv' = [srv EXCEPT !.queue = Tail(@),
                          !.remembered = @ \/ srv.view = "inactive",
                          !.up = Append(@, [k |-> "inval", ts |-> Head(srv.queue).ts,
                                            mine |-> srv.view = "active"])]
    /\ UNCHANGED <<doc, client, moves, astray, away, unacked, skipped>>

\* drainQueue(): the old session has gone, the new one's view is loaded and says so;
\* setSessionCount() has made the Kit's store of renderings fit their number.
KitLoad ==
    /\ srv.queue # <<>> /\ Head(srv.queue).k = "load"
    /\ \E out \in IF "forget" \in Faults THEN SUBSET Tile ELSE {{}} :
          srv' = DropDeltas([srv EXCEPT !.queue = Tail(@), !.view = "active",
                                        !.up = Append(@, [k |-> "status"])], out)
    /\ UNCHANGED <<doc, client, moves, astray, away, unacked, skipped>>

\* drainQueue(): a tile, with those combined with it; then the Kit's store of last
\* renderings is cut to its size, the oldest first.
KitRender ==
    /\ \E first \in Leading(srv.queue) :
          LET rs == Combined(srv.queue, first)
              part == Part(srv.queue[first].t)
              s == FoldLeft(Render, [srv EXCEPT !.queue = PickAt(@, DOMAIN @ \ OnRow(@, part))], rs)
              old == Tile \ {rs[i].t : i \in DOMAIN rs}
          IN  \E out \in IF "forget" \in Faults THEN SUBSET old ELSE {{}} : srv' = DropDeltas(s, out)
    /\ UNCHANGED <<doc, client, moves, astray, away, unacked, skipped>>

\* The answer for the tile sends nothing to who waits for it.
Unserved(t) == IF srv.rendering[t].here /\ srv.rendering[t].sub THEN skipped \cup {t} ELSE skipped

\* wsd handles what the Kit sent: a rendered tile, with the cache making room first.
WsdTile ==
    /\ srv.up # <<>> /\ Head(srv.up).k = "tile"
    /\ \E out \in IF "evict" \in Faults THEN SUBSET Evictable(srv) ELSE {{}} :
          srv' = SaveTileAndNotify(
                    [srv EXCEPT !.up = Tail(@),
                                !.cache = At(@, out, LAMBDA e : NotCached)],
                    Head(srv.up))
    /\ skipped' = IF srv'.cache[Head(srv.up).t].here THEN skipped ELSE Unserved(Head(srv.up).t)
    /\ UNCHANGED <<doc, client, moves, astray, away, unacked>>

\* wsd handles a rendering that found nothing changed.
WsdUnchanged ==
    /\ srv.up # <<>> /\ Head(srv.up).k = "unchanged"
    /\ srv' = HandleUnchanged([srv EXCEPT !.up = Tail(@)], Head(srv.up))
    /\ skipped' = Unserved(Head(srv.up).t)
    /\ UNCHANGED <<doc, client, moves, astray, away, unacked>>

\* wsd handles an invalidation; one that was sent for other views only invalidates the
\* cache.
WsdInvalidate ==
    /\ srv.up # <<>> /\ Head(srv.up).k = "inval"
    /\ srv' = HandleTileInvalidation([srv EXCEPT !.up = Tail(@)], Head(srv.up).ts, Head(srv.up).mine)
    /\ UNCHANGED <<doc, client, moves, astray, away, unacked, skipped>>

\* wsd forwards the status of the new view, whose part is from now on the session's.
WsdStatus ==
    /\ srv.up # <<>> /\ Head(srv.up).k = "status"
    /\ srv' = [SetClientPart(srv, client.part) EXCEPT !.up = Tail(@), !.sendQ = Append(@, Head(srv.up))]
    /\ UNCHANGED <<doc, client, moves, astray, away, unacked, skipped>>

\* The session's socket takes a message of the sender queue.
WsdFlush ==
    /\ srv.sendQ # <<>>
    /\ srv' = [srv EXCEPT !.sendQ = Tail(@), !.wire = Append(@, Head(srv.sendQ))]
    /\ UNCHANGED <<doc, client, moves, astray, away, unacked, skipped>>

\* The browser handles a tile message and acknowledges it (_sendProcessedResponse()).
ClientTile ==
    /\ srv.wire # <<>> /\ Head(srv.wire).k \in {"tile", "delta"}
    /\ LET m == Head(srv.wire)
           s == [srv EXCEPT !.wire = Tail(@)]
           cs == [c |-> OnTileMsg(client, m), s |-> s]
       IN  /\ Become(Send(cs, TileProcessed(s, m.t)))
           /\ astray' = IF Misdrawn(client, m) THEN astray \cup {m.t}
                        ELSE IF Redrawn(client, m) THEN astray \ {m.t} ELSE astray
           /\ skipped' = skipped \ {m.t}
    /\ unacked' = (unacked \/ ~client.active)
    /\ UNCHANGED <<doc, moves, away>>

ClientInvalidate ==
    /\ srv.wire # <<>> /\ Head(srv.wire).k = "inval"
    /\ client' = OnInvalidateTilesMsg(client, Head(srv.wire).ts)
    /\ srv' = [srv EXCEPT !.wire = Tail(@)]
    /\ UNCHANGED <<doc, moves, astray, away, unacked, skipped>>

\* Socket._onStatusMsg() after a reconnection: the layer keeps its pictures and asks for
\* new ones.
ClientStatus ==
    /\ srv.wire # <<>> /\ Head(srv.wire).k = "status"
    /\ Become(RequestNewTiles([c |-> [client EXCEPT !.sentArea = {}, !.active = TRUE, !.joining = FALSE],
                               s |-> [srv EXCEPT !.wire = Tail(@)]]))
    /\ UNCHANGED <<doc, moves, astray, away, unacked, skipped>>

\* The user scrolls: _move().
Move(a) ==
    /\ Spend /\ client.active /\ a # client.area
    /\ Become(Update([Now EXCEPT !.c.area = a]))
    /\ UNCHANGED <<doc, astray, away, unacked, skipped>>

\* The user changes the part: Map.setPart().
SetPart(p) ==
    /\ Spend /\ client.active /\ ~IsText(srv) /\ p # client.part
    /\ LET cs == UpdateOnChangePart([c |-> [client EXCEPT !.part = p, !.dir = IF p >= client.part THEN 1 ELSE -1],
                                     s |-> SetClientPart(srv, p)])
       IN  Become([cs EXCEPT !.c = PruneTiles(@)])
    /\ UNCHANGED <<doc, astray, away, unacked, skipped>>

\* The timer of _initPreFetchPartTiles(): the next part in the direction of travel.
PreFetchPartTiles ==
    /\ client.partPrefetch
    /\ LET p == client.part + client.dir
           cs == [Now EXCEPT !.c.partPrefetch = FALSE]
       IN  Become(IF p \in Parts THEN RequestMissing(cs, {p} \X client.area) ELSE cs)
    /\ UNCHANGED <<doc, moves, astray, away, unacked, skipped>>

\* TilesPreFetcher.preFetchTiles(): tiles beside the visible area.
PreFetchTiles ==
    /\ Spend /\ client.active /\ client.area # {} /\ client.empty = 0
    /\ LET ts == {t \in {client.part} \X (Pos \ client.area) :
                     ~client.tiles[t].here /\ client.tileCache[t] = Blank}
       IN  ts # {} /\ Become(AddTiles(Now, ts))
    /\ UNCHANGED <<doc, astray, away, unacked, skipped>>

\* COMMAND_TIMEOUT_MS and TILE_ROUNDTRIP_TIMEOUT_MS pass.
Elapse ==
    /\ "elapse" \in Faults
    /\ Spend
    /\ srv' = [srv EXCEPT !.rendering = At(@, {t \in Tile : @[t].here},
                                           LAMBDA r : [r EXCEPT !.stale = TRUE]),
                          !.onFly = [i \in DOMAIN @ |-> [@[i] EXCEPT !.late = TRUE]]]
    /\ UNCHANGED <<doc, client, astray, away, unacked, skipped>>

\* IdleHandler._deactivate() and _activate(). When no view is active any more the Kit
\* forgets its last renderings (trimIfInactive()); at the end it makes up for what it
\* held back, for the current part.
Deactivate ==
    /\ "inactive" \in Faults /\ Spend /\ client.active
    /\ client' = [client EXCEPT !.active = FALSE]
    /\ \E others \in BOOLEAN :
          srv' = DropDeltas([srv EXCEPT !.view = "inactive"], IF others THEN {} ELSE Tile)
    /\ away' = ~IsText(srv)
    /\ UNCHANGED <<doc, astray, unacked, skipped>>

Activate ==
    /\ ~client.active /\ ~client.joining
    /\ client' = [client EXCEPT !.active = TRUE]
    /\ LET s == [srv EXCEPT !.view = "active", !.remembered = FALSE]
       IN  srv' = IF srv.remembered
                  THEN PutInval(s, IF IsText(s) THEN Tile ELSE {srv.part} \X Pos) ELSE s
    /\ UNCHANGED <<doc, moves, astray, away, unacked, skipped>>

\* The connection is lost and made anew: the old session goes with all that was sent to
\* it, the new one starts with nothing and asks the Kit to load a view.
Reconnect ==
    /\ "reconnect" \in Faults /\ Spend /\ client.active
    /\ client' = [client EXCEPT !.active = FALSE, !.joining = TRUE]
    /\ srv' = [srv EXCEPT
                 !.sent = [t \in Tile |-> 0], !.oldWid = NoWids, !.requested = <<>>, !.onFly = <<>>,
                 !.area = {}, !.sendQ = <<>>, !.wire = <<>>, !.view = "none", !.remembered = FALSE,
                 !.queue = Append(@, [k |-> "load"]),
                 !.up = [i \in DOMAIN @ |-> IF @[i].k = "inval" THEN [@[i] EXCEPT !.mine = FALSE]
                                            ELSE @[i]],
                 !.rendering = At(@, {t \in Tile : @[t].here}, LAMBDA r :
                                    [r EXCEPT !.gone = @ \/ r.sub, !.sub = FALSE])]
    /\ away' = ~IsText(srv)
    /\ UNCHANGED <<doc, astray, unacked, skipped>>

Init ==
    /\ doc = [t \in Tile |-> 0]
    /\ \E d \in DocTypes : srv = [docType |-> d, queue |-> <<>>, prev |-> [t \in Tile |-> Blank], nextWid |-> 0,
              view |-> "active", remembered |-> FALSE, up |-> <<>>,
              cache |-> [t \in Tile |-> NotCached], rendering |-> [t \in Tile |-> NotRendering],
              ver |-> 0, sent |-> [t \in Tile |-> 0], oldWid |-> [t \in Tile |-> NoWid],
              requested |-> <<>>, onFly |-> <<>>, area |-> {}, part |-> 0,
              sendQ |-> <<>>, wire |-> <<>>]
    /\ client = [tiles |-> [t \in Tile |-> NoTile], tileCache |-> [t \in Tile |-> Blank],
                 part |-> 0, dir |-> 1, area |-> {}, sentArea |-> {}, empty |-> 0,
                 partPrefetch |-> FALSE, active |-> TRUE, joining |-> FALSE]
    /\ moves = MaxMoves
    /\ astray = {} /\ away = FALSE /\ unacked = FALSE /\ skipped = {}

Environment ==
    \/ \E t \in Tile : Edit(t) \/ InvalidateMore(t)
    \/ \E a \in Areas : Move(a)
    \/ \E p \in Parts : SetPart(p)
    \/ PreFetchTiles
    \/ Elapse
    \/ Deactivate
    \/ Reconnect

System ==
    \/ KitInvalidate \/ KitRender \/ KitLoad
    \/ WsdTile \/ WsdUnchanged \/ WsdInvalidate \/ WsdStatus \/ WsdFlush
    \/ ClientTile \/ ClientInvalidate \/ ClientStatus \/ PreFetchPartTiles \/ Activate

Next == Environment \/ System

Spec == Init /\ [][Next]_vars

\* Some component has something to do: exactly when an action of System is enabled.
Busy == \/ srv.queue # <<>> \/ srv.up # <<>> \/ srv.sendQ # <<>> \/ srv.wire # <<>>
        \/ client.partPrefetch \/ ~client.active

-----------------------------------------------------------------------------
(* Properties *)

Frame == [wid : Nat, key : BOOLEAN, from : Image, c : Content]
Request == [t : Tile, ver : Nat, old : Nat]
Inval == [k : {"inval"}, ts : SUBSET Tile]
TileMsg == [k : {"tile", "delta"}, t : Tile, wid : Nat, fs : Seq(Frame)]

\* Every variable holds what its type allows. A sequence of frames is never empty, and
\* _emptyTilesCount never goes below zero.
TypeOK ==
    /\ doc \in [Tile -> Content]
    /\ moves \in 0..MaxMoves /\ astray \subseteq Tile /\ away \in BOOLEAN /\ unacked \in BOOLEAN
    /\ skipped \subseteq Tile
    /\ srv.docType \in DocTypes /\ srv.view \in {"active", "inactive", "none"}
    /\ srv.queue \in Seq([k : {"tile"}, t : Tile, ver : Nat, old : Nat] \cup Inval \cup [k : {"load"}])
    /\ srv.prev \in [Tile -> Content \cup {Blank}]
    /\ srv.nextWid \in Nat /\ srv.ver \in Nat /\ srv.remembered \in BOOLEAN
    /\ srv.up \in Seq([k : {"tile"}, t : Tile, ver : Nat, f : Frame] \cup [k : {"status"}]
                      \cup [k : {"unchanged"}, t : Tile, ver : Nat, of : {"tile", "tilecombine"}]
                      \cup [k : {"inval"}, ts : SUBSET Tile, mine : BOOLEAN])
    /\ \A t \in Tile :
          /\ \/ srv.cache[t] = NotCached
             \/ srv.cache[t].here /\ srv.cache[t].frames \in Seq(Frame) \ {<<>>}
          /\ \/ srv.rendering[t] = NotRendering
             \/ srv.rendering[t] \in [here : {TRUE}, ver : Nat, stale : BOOLEAN, sub : BOOLEAN,
                                      gone : BOOLEAN]
          /\ \/ client.tiles[t] = NoTile
             \/ client.tiles[t] \in [here : {TRUE}, current : BOOLEAN, inv : Nat, loaded : BOOLEAN,
                                     img : Image]
    /\ srv.sent \in [Tile -> Nat] /\ srv.oldWid \in [Tile -> Nat \cup {NoWid}]
    /\ srv.requested \in Seq(Request)
    /\ srv.onFly \in Seq([t : Tile, late : BOOLEAN])
    /\ srv.area \subseteq Pos /\ srv.part \in Parts
    /\ srv.sendQ \in Seq(TileMsg \cup Inval \cup [k : {"status"}])
    /\ srv.wire \in Seq(TileMsg \cup Inval \cup [k : {"status"}])
    /\ client.tileCache \in [Tile -> Image]
    /\ client.part \in Parts /\ client.dir \in {-1, 1}
    /\ client.area \subseteq Pos /\ client.sentArea \subseteq Pos /\ client.empty \in Nat
    /\ {client.partPrefetch, client.active, client.joining} \subseteq BOOLEAN

\* The messages in q about tile t, and the invalidations among them.
Messages(q, t) == {i \in DOMAIN q : IF q[i].k = "inval" THEN t \in q[i].ts
                                    ELSE q[i].k \in {"tile", "delta"} /\ q[i].t = t}
Invals(q, t) == {i \in Messages(q, t) : q[i].k = "inval"}

\* What TileCache takes for valid is what the document looks like, unless an invalidation
\* of it is still on its way: a rendering made before an edit never revalidates a tile
\* after wsd has handled that edit's invalidation (saveTileAndNotify(), TileCache.cpp:183).
CacheIsCurrent ==
    \A t \in Tile : IsValid(srv, t) =>
        \/ Last(srv.cache[t].frames).c = doc[t]
        \/ Invals(srv.queue, t) # {} \/ Invals(srv.up, t) # {}

\* What TileCache holds for a tile is a keyframe followed by deltas each of which was made
\* from the picture before it, however renderings, evictions and cancelled requests are
\* interleaved (saveDataToCache(), TileData::appendBlob()).
DeltasChain ==
    \A t \in Tile : srv.cache[t].here =>
        LET fs == srv.cache[t].frames IN
        /\ fs[1].key
        /\ \A i \in 2..Len(fs) : fs[i].from = fs[i - 1].c

\* Something about the tile is still on its way to the browser.
Coming(t) ==
    \/ Messages(srv.queue, t) # {} \/ Messages(srv.up, t) # {}
    \/ Messages(srv.sendQ, t) # {} \/ Messages(srv.wire, t) # {}
    \/ srv.remembered \/ client.joining
    \/ \E i \in DOMAIN srv.requested : srv.requested[i].t = t

\* A picture the browser may show: the current one. The exceptions are a tile that went
\* astray and has not been drawn from a keyframe since, and a document with parts whose
\* view has been away.
Acceptable(img, t) == img = doc[t] \/ t \in astray \/ away

\* A tile the layer draws as loaded and not invalidated shows the document as it is, or
\* something about it is still coming: deltas, dropped duplicates, cancelled requests and
\* pictures kept in _tileCache never leave an old or a wrongly decoded picture that the
\* layer takes for good (_onTileMsg(), createTile()).
ShownIsCurrent ==
    \A t \in Tile : client.tiles[t].here /\ client.tiles[t].loaded /\ client.tiles[t].inv = 0 =>
        Acceptable(client.tiles[t].img, t) \/ Coming(t)

\* The same for what _tileCache keeps and would show without asking wsd.
CachedIsCurrent ==
    \A t \in Tile : client.tileCache[t] # Blank => Acceptable(client.tileCache[t], t) \/ Coming(t)

\* The request of the tile waits, and only "tileprocessed" or a new request make wsd go
\* through the waiting ones: an inactive browser did not acknowledge a tile, or a rendering
\* that was answered by nothing is still registered and holds a place of those on the fly.
Withheld(t) ==
    /\ \E i \in DOMAIN srv.requested : srv.requested[i].t = t
    /\ unacked \/ \E u \in Tile : srv.rendering[u].here

\* When nobody has anything left to do, every tile in view has been loaded, and shows the
\* document as it is or is known to be invalid; only one that is withheld, or whose last
\* rendering sent nothing to who waited for it (TileCache.cpp:189, DocumentBroker.cpp:3388),
\* may still be blank. A request that is lost, a limit of tiles on the fly that is never
\* lowered, or a subscription nobody serves would leave others blank
\* (sendRequestedTiles(), ClientSession.cpp:2252).
SettledIsShown == ~Busy => \A t \in InView(client) :
    LET tile == client.tiles[t]
    IN  /\ tile.here
        /\ tile.loaded => Acceptable(tile.img, t) \/ tile.inv > 0
        /\ tile.loaded \/ Withheld(t) \/ t \in skipped

\* What the comment in _cancelTiles() (CanvasTileLayer.js:6624-6628) wants to exclude: that
\* a loaded tile which is back in the visible area keeps "the old invalidated" content.
SettledIsCurrent ==
    ~Busy => \A t \in InView(client) :
        client.tiles[t].here /\ client.tiles[t].loaded => client.tiles[t].img = doc[t]

\* What the user sees of each tile; a wrongly decoded picture counts as nothing.
Shown == [t \in Tile |-> IF client.tiles[t].here /\ client.tiles[t].img # Garbage
                         THEN client.tiles[t].img ELSE Blank]
View == INSTANCE TileView WITH Tiles <- Tile, Nothing <- Blank, document <- doc, shown <- Shown

\* The tile flow implements TileView: as long as the layer holds a tile it never goes back
\* to an older picture of it, whatever is reordered on the way (_onTileMsg()).
ImplementsView == View!Spec
=============================================================================
