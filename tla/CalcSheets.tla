----------------------------- MODULE CalcSheets -----------------------------
(***************************************************************************)
(* How CalcTileLayer keeps the SheetGeometry of the sheet it shows: it asks *)
(* Core for the geometry of the current sheet when the user switches sheets *)
(* or Core says that it has changed, and Core may switch sheets by itself.  *)
(* The answer does not say which sheet it is about.  Requests and answers   *)
(* are ordered streams; the callbacks by which Core tells of its changes    *)
(* wait in the Kit's queue among the requests, and what they say is         *)
(* composed when they are taken from it.  Zooming and scrolling happen at   *)
(* any time.                                                                *)
(***************************************************************************)
EXTENDS SheetGeometry, FiniteSets

CONSTANTS
    Parts,       \* the sheets
    Sizes,       \* the sizes of elements in twips
    Sheets,      \* what the sheets look like in the beginning
    Zooms,       \* the zooms the user may choose
    ViewPx,      \* the size of the view in core pixels
    Scrolls,     \* where the view may begin, in core pixels
    Ranges,      \* the ranges of elements that are changed together
    MaxEdits,    \* bound: changes of the geometry by Core
    Budget       \* bound: these, switches of the sheet, zooms and scrolls together

ASSUME SheetsAssumption ==
    /\ Parts \subseteq Nat /\ 0 \in Parts
    /\ Sizes \subseteq Nat \ {0} /\ Sizes # {}
    /\ Sheets \in [Parts -> [sizes : [Elements -> Sizes], hidden : [Elements -> BOOLEAN],
                              filtered : [Elements -> BOOLEAN]]]
    /\ Zooms \subseteq [level : Nat, t : Nat \ {0}, p : Nat \ {0}]
    /\ \E z \in Zooms : z.level = 10
    /\ Scrolls \subseteq Nat /\ 0 \in Scrolls
    /\ Ranges \subseteq SUBSET Elements
    /\ {ViewPx, MaxEdits, Budget} \subseteq Nat

VARIABLES
    core,    \* the geometry of the sheets, the current one; history: the user's switches it
             \* has handled, and whether it has told of its last own one
    layer,   \* CalcTileLayer
    up,      \* from the layer to Core, with Core's callbacks in between
    down,    \* from Core to the layer
    used     \* how much of each bound is used

vars == <<core, layer, up, down, used>>

Fields == {"sizes", "hidden", "filtered"}
NoGeometry == [here |-> FALSE]
NoMessage == [k |-> "none"]

-----------------------------------------------------------------------------
(* CalcTileLayer.  p is [layer |-> the layer, up |-> what it has sent]. *)

\* SheetGeometry.setViewArea().
SetViewArea(l) ==
    [l EXCEPT !.geom.view = ViewLimits(l.geom.visible, l.zoom, l.scroll, l.scroll + ViewPx)]

\* requestSheetGeometryData(): only one request until there is a geometry.
RequestSheetGeometryData(p, fields) ==
    IF ~p.layer.geom.here /\ p.layer.firstWait THEN p
    ELSE [p EXCEPT !.layer.firstWait = @ \/ ~p.layer.geom.here,
                   !.up = Append(@, [k |-> "request", fields |-> fields])]

BugRefreshViewDataKeepsView(p) ==
    IF p.layer.geom.here THEN p ELSE RequestSheetGeometryData(p, Fields)

\* refreshViewData() without a change of the geometry.
RefreshViewData(p) ==
    IF p.layer.geom.here THEN [p EXCEPT !.layer = SetViewArea(@)]
    ELSE RequestSheetGeometryData(p, Fields)

\* _onUpdateParts(), after a switch by the user: refreshViewData() with sheetGeometryChanged.
OnUpdateParts(p) == RequestSheetGeometryData(p, Fields)

\* SheetDimension.update(): what the message has is taken over. A message about the other
\* dimension only has nothing for this one.
UpdateDimension(g, m, z) ==
    LET New(f, Of(_)) == IF f \in m.fields THEN Of(m.data[f]) ELSE g[f]
        d == [sizes |-> New("sizes", SpanListOf), hidden |-> New("hidden", BoolSpanListOf),
              filtered |-> New("filtered", BoolSpanListOf)]
    IN  [g EXCEPT !.sizes = d.sizes, !.hidden = d.hidden, !.filtered = d.filtered,
                  !.visible = IF m.fields = {} THEN @ ELSE UpdateVisible(d, z)]

BugHandleSheetGeometryDataMsgKeepsPart(l, m) ==
    LET none == [here |-> TRUE, part |-> -1, sizes |-> <<>>, hidden |-> <<>>, filtered |-> <<>>,
                 visible |-> <<>>, view |-> [start |-> 0, end |-> 0]]
        g == UpdateDimension(IF l.geom.here THEN l.geom ELSE none, m, l.zoom)
    IN  SetViewArea([l EXCEPT !.firstWait = FALSE, !.geom = g])

\* _handleSheetGeometryDataMsg(): SheetGeometry's constructor or update(), then setViewArea().
HandleSheetGeometryDataMsg(l, m) ==
    LET none == [here |-> TRUE, part |-> -1, sizes |-> <<>>, hidden |-> <<>>, filtered |-> <<>>,
                 visible |-> <<>>, view |-> [start |-> 0, end |-> 0]]
        g == UpdateDimension(IF l.geom.here THEN l.geom ELSE none, m, l.zoom)
    IN  SetViewArea([l EXCEPT !.firstWait = FALSE, !.geom = [g EXCEPT !.part = l.part]])

\* _onCommandValuesMsg(): the same message again is not handled again for the same sheet.
OnCommandValuesMsg(p, m) ==
    IF p.layer.oldMsg = m /\ p.layer.part = p.layer.geom.part THEN p
    ELSE [p EXCEPT !.layer = HandleSheetGeometryDataMsg([p.layer EXCEPT !.oldMsg = m], m)]

BugStatusWithoutRequest(p, m) ==
    IF p.layer.info = m.text THEN p
    ELSE [p EXCEPT !.layer.info = m.text, !.layer.part = m.text.part]

\* _onStatusMsg(): the selected sheet is Core's; its geometry is asked for if it is another.
\* crossed only records, for the properties, that the message was older than the user's last
\* switch or was taken for a repetition.
OnStatusMsg(p, m) ==
    LET late == m.text.part # p.layer.part /\ (p.layer.info = m.text \/ m.ack < p.layer.switches)
        p1   == [p EXCEPT !.layer.info = m.text, !.layer.part = m.text.part,
                          !.layer.crossed = @ \/ late]
    IN  IF p.layer.info = m.text THEN [p EXCEPT !.layer.crossed = @ \/ late]
        ELSE IF p.layer.geom.here /\ m.text.part # p.layer.geom.part
        THEN RequestSheetGeometryData(p1, Fields) ELSE p1

-----------------------------------------------------------------------------
(* Actions *)

Now == [layer |-> layer, up |-> up]
Becomes(p) == layer' = p.layer /\ up' = p.up
Move == used.all < Budget /\ used' = [used EXCEPT !.all = @ + 1]
EditMove == /\ used.all < Budget /\ used.edits < MaxEdits
            /\ used' = [edits |-> used.edits + 1, all |-> used.all + 1]

\* Map.setPart() by the user.
SetPart(part) ==
    /\ Move
    /\ Becomes(OnUpdateParts(
          [layer |-> [layer EXCEPT !.part = part, !.switches = @ + 1,
                                   !.crossed = @ \/ ~layer.geom.here],
           up |-> Append(up, [k |-> "setclientpart", part |-> part])]))
    /\ UNCHANGED <<core, down>>

\* _onZoomRowColumns(): setTileGeometryData(), then refreshViewData().
OnZoomRowColumns(z) ==
    LET l == [layer EXCEPT !.zoom = z]
    IN  /\ Move /\ z # layer.zoom
        /\ Becomes(RefreshViewData(
              [layer |-> IF layer.geom.here
                         THEN [l EXCEPT !.geom.visible =
                                  UpdatePositions([i \in DOMAIN @ |-> [end |-> @[i].end, value |-> @[i].size]], z)]
                         ELSE l,
               up |-> up]))
        /\ UNCHANGED <<core, down>>

\* The user scrolls.
Scroll(x) ==
    /\ Move /\ x # layer.scroll
    /\ Becomes(RefreshViewData([layer |-> [layer EXCEPT !.scroll = x], up |-> up]))
    /\ UNCHANGED <<core, down>>

\* A message reaches the layer: _onMessage().
Receive ==
    /\ down # <<>> /\ down' = Tail(down)
    /\ LET m == Head(down) IN Becomes(
          CASE m.k = "status" -> OnStatusMsg(Now, m)
            [] m.k = "invalidatesheetgeometry" -> RequestSheetGeometryData(Now, m.fields)
            [] m.k = "commandvalues" -> OnCommandValuesMsg(Now, m))
    /\ UNCHANGED <<core, used>>

\* What Core says of its state: the current sheet and the size of the document.
Status(c) ==
    LET s == c.sheets[c.part]
    IN  [k |-> "status", ack |-> c.ack,
         text |-> [part |-> c.part,
                   size |-> FoldLeft(LAMBDA n, e : n + s.sizes[e], 0, [i \in 1..(MaxIndex + 1) |-> i - 1])]]

Callbacks == {"resized", "invalidatesheetgeometry"}

\* TileQueue::put() of callbacks, behind the n messages of the layer that have come to the
\* Kit's queue; an earlier "resized" is removed as obsolete (removeCallbackDuplicate()).
Arrived(q) == {n \in 0..Len(q) : \A i \in (n + 1)..Len(q) : q[i].k \notin Callbacks}
PutCallbacks(q, n, ms) ==
    LET obsolete(m) == m.k = "resized" /\ \E i \in DOMAIN ms : ms[i].k = "resized"
    IN  SelectSeq(SubSeq(q, 1, n), LAMBDA m : ~obsolete(m)) \o ms \o SubSeq(q, n + 1, Len(q))
CallBack(ms) == \E n \in Arrived(up) : up' = PutCallbacks(up, n, ms)

Resized == [k |-> "resized"]
Invalidated(fields) == [k |-> "invalidatesheetgeometry", fields |-> fields]

\* Somebody changes the elements of a range of a sheet. Views that show it are told.
CoreEdit(part, field, range, value) ==
    LET old == core.sheets[part][field]
        new == [e \in Elements |-> IF e \in range THEN value ELSE old[e]]
    IN  /\ EditMove
        /\ new # old
        /\ core' = [core EXCEPT !.sheets[part][field] = new]
        /\ IF part # core.part THEN up' = up
           ELSE CallBack(<<Invalidated({field})>> \o IF field = "sizes" THEN <<Resized>> ELSE <<>>)
        /\ UNCHANGED <<layer, down>>

\* The same in the other dimension.
CoreEditOther ==
    /\ EditMove
    /\ CallBack(<<Invalidated({})>>)
    /\ UNCHANGED <<core, layer, down>>

\* Core switches the sheet by itself. crossed records that it had not told of the last switch.
CoreSwitch(part) ==
    /\ Move /\ part # core.part
    /\ core' = [core EXCEPT !.part = part, !.told = FALSE]
    /\ layer' = [layer EXCEPT !.crossed = @ \/ ~core.told]
    /\ CallBack(<<Resized>>)
    /\ UNCHANGED down

\* ChildSession::loKitCallback() of a callback whose turn it is: the status is that of now.
CoreCallback ==
    /\ up # <<>> /\ Head(up).k \in Callbacks /\ up' = Tail(up)
    /\ down' = Append(down, IF Head(up).k = "resized" THEN Status(core) ELSE Head(up))
    /\ core' = [core EXCEPT !.told = @ \/ Head(up).k = "resized"]
    /\ UNCHANGED <<layer, used>>

\* ChildSession::setClientPart().
CoreSetPart ==
    /\ up # <<>> /\ Head(up).k = "setclientpart" /\ up' = Tail(up)
    /\ core' = [core EXCEPT !.part = Head(up).part, !.ack = @ + 1]
    /\ UNCHANGED <<layer, down, used>>

\* ChildSession::getCommandValues(), of the current sheet.
CoreAnswer ==
    /\ up # <<>> /\ Head(up).k = "request" /\ up' = Tail(up)
    /\ down' = Append(down, [k |-> "commandvalues", fields |-> Head(up).fields,
                             data |-> [f \in Head(up).fields |-> core.sheets[core.part][f]]])
    /\ UNCHANGED <<core, layer, used>>

\* The layer has got its first status, at the map's first zoom (Map.js:19), and asked for the
\* geometry.
Init ==
    /\ core = [sheets |-> Sheets, part |-> 0, ack |-> 0, told |-> TRUE]
    /\ \E z \in {y \in Zooms : y.level = 10} :
          layer = [part |-> 0, geom |-> NoGeometry, firstWait |-> TRUE, oldMsg |-> NoMessage,
                   info |-> Status(core).text, zoom |-> z, scroll |-> 0, switches |-> 0,
                   crossed |-> FALSE]
    /\ up = <<[k |-> "request", fields |-> Fields]>> /\ down = <<>>
    /\ used = [edits |-> 0, all |-> 0]

Next ==
    \/ \E p \in Parts : SetPart(p) \/ CoreSwitch(p)
    \/ \E z \in Zooms : OnZoomRowColumns(z)
    \/ \E x \in Scrolls : Scroll(x)
    \/ Receive \/ CoreSetPart \/ CoreAnswer \/ CoreCallback \/ CoreEditOther
    \/ \E p \in Parts, f \in Fields, r \in Ranges :
          \E v \in IF f = "sizes" THEN Sizes ELSE BOOLEAN : CoreEdit(p, f, r, v)

Spec == Init /\ [][Next]_vars

-----------------------------------------------------------------------------
(* Properties *)

Bits == [startBit : BOOLEAN, ends : Seq(Elements)]

\* Every variable holds what its type allows; the spans of a geometry cover its elements.
TypeOK ==
    /\ core.part \in Parts /\ core.ack \in 0..Budget
    /\ layer.part \in Parts /\ layer.zoom \in Zooms /\ layer.scroll \in Scrolls
    /\ {core.told, layer.firstWait, layer.crossed, layer.geom.here} \subseteq BOOLEAN
    /\ layer.switches \in core.ack..Budget
    /\ layer.geom.here =>
          /\ layer.geom.part \in Parts
          /\ {layer.geom.hidden, layer.geom.filtered} \subseteq Bits
          /\ Last(layer.geom.sizes).end = MaxIndex /\ Last(layer.geom.visible).end = MaxIndex
    /\ \A i \in DOMAIN up : up[i].k \in {"request", "setclientpart"} \cup Callbacks
    /\ used \in [edits : 0..MaxEdits, all : 0..Budget]

\* What a sheet looks like element by element: the size of e in a unit and where e begins.
VisibleSize(s, e) == IF s.hidden[e] \/ s.filtered[e] THEN 0 ELSE s.sizes[e]
SizeIn(s, e, z, unit) ==
    IF unit = "printtwips" THEN VisibleSize(s, e) ELSE CorePx(VisibleSize(s, e), z)
StartIn(s, e, z, unit) ==
    FoldLeft(LAMBDA n, i : n + SizeIn(s, i - 1, z, unit), 0, [i \in 1..e |-> i])

\* When all messages have been handled, the layer shows Core's sheet with its geometry: every
\* element is where Core has it. Answers that do not name their sheet, partial updates, and
\* messages that are skipped as duplicates do not leave a mixture behind (update(),
\* _onCommandValuesMsg(), union(), applyZeroValues()). The exceptions are a sheet switched
\* before the first geometry has come, a status message that crosses the user's switch,
\* one that is taken for a repetition although the page has another sheet selected, and Core's
\* switching again before it has told of its last switch.
PositionsAgree ==
    up = <<>> /\ down = <<>> /\ ~layer.crossed =>
        /\ layer.geom.here /\ layer.geom.part = layer.part /\ layer.part = core.part
        /\ \A e \in Elements, unit \in {"corepixels", "printtwips"} :
              ElementData(layer.geom.visible, layer.zoom, e, unit)
                = [startpos |-> StartIn(core.sheets[layer.part], e, layer.zoom, unit),
                   size |-> SizeIn(core.sheets[layer.part], e, layer.zoom, unit)]

\* What the layer says of every element.
Data(unit) == [e \in Elements |-> ElementData(layer.geom.visible, layer.zoom, e, unit)]
Pixels == 0..(Last(layer.geom.visible).poscorepx - 1)

\* Every pixel of the sheet is found in the element that covers it, though positions are
\* rounded to twips on the way: getIndexFromPos() inverts getElementData(). It takes zooms of
\* at least two twips per pixel; above that a rounded position may fall between two spans.
PixelFindsElement ==
    layer.geom.here /\ layer.zoom.t >= 2 * layer.zoom.p =>
        \A px \in Pixels :
            LET i == IndexFromPixel(layer.geom.visible, layer.zoom, px)
                e == ElementData(layer.geom.visible, layer.zoom, i, "corepixels")
            IN  i \in Elements /\ e.startpos <= px /\ px < e.startpos + e.size

\* A position in print twips keeps its offset from the element it is in when it is converted
\* to tile twips, and a range is aligned to its elements, whatever is hidden in between
\* (getTileTwipsPosFromPrint(), getTileTwipsRangeFromPrint()).
PrintMapsToTile ==
    layer.geom.here =>
        LET v == layer.geom.visible
            PrintOf(e) == ElementData(v, layer.zoom, e, "printtwips")
            CoreOf(e)  == ElementData(v, layer.zoom, e, "corepixels")
            Twips(px) == (px * layer.zoom.t) \div layer.zoom.p
            shown == {e \in Elements : PrintOf(e).size > 1}
        IN  \A i \in shown :
              LET print == PrintOf(i)
                  start == Twips(CoreOf(i).startpos)
              IN  /\ TileTwipsFromPrint(v, layer.zoom, print.startpos) = start
                  /\ TileTwipsFromPrint(v, layer.zoom, print.startpos + print.size - 1)
                       = start + print.size - 1
                  /\ \A j \in shown \cap i..MaxIndex :
                        LET last == PrintOf(j)
                            pixels == CoreOf(j)
                        IN  TileTwipsRangeFromPrint(v, layer.zoom, print.startpos,
                                                    last.startpos + last.size - 1)
                              = [startpos |-> start,
                                 endpos |-> Twips(pixels.startpos) + Twips(pixels.size)]

Near(a, b, n) == a - b \in -n..n

\* Converting the start of an element to the pixels of another zoom and back gives the same
\* element: nothing is left over, though floating-point products may fall short of a pixel
\* (getCorePixelsAtZoom(), getCorePixelsFromZoom()). Where the element is expected to be
\* after zooming, by these or by getElementData() with a scale, it will be up to one pixel
\* for every visible element before it: the scales are powers of 1.2, the positions after
\* zooming come from twips per tile that were rounded (_updateTileTwips()).
ZoomKeepsCells ==
    layer.geom.here => \A y \in Zooms \ {layer.zoom} :
        LET v      == layer.geom.visible
            after  == UpdatePositions([i \in DOMAIN v |-> [end |-> v[i].end, value |-> v[i].size]], y)
            scale  == ScalePosForZoom(layer.zoom, y)
            factor == ZoomToFactor(y)
            shown  == {e \in Elements : ElementData(v, layer.zoom, e, "printtwips").size # 0}
        IN  \A e \in Elements :
                LET here   == ElementData(v, layer.zoom, e, "corepixels").startpos
                    then   == ElementData(after, y, e, "corepixels").startpos
                    before == Cardinality(shown \cap 0..(e - 1))
                IN  \A short \in SUBSET Sizes :
                        LET there == CorePixelsAtZoom(v, here, scale, short)
                        IN  /\ there.rest = 0
                            /\ CorePixelsFromZoom(v, there.pos, scale, short) = [rest |-> 0, pos |-> here]
                            /\ Near(there.pos, then, before)
                            /\ Near(ElementDataAtZoom(v, e, factor, short).startpos, then, before)

\* The headers are drawn for the elements in view: after every change of the geometry, the
\* zoom or the position the view limits are those of the pixels shown (setViewArea()).
ViewFollows ==
    layer.geom.here /\ layer.zoom.t >= 2 * layer.zoom.p =>
        LET data  == Data("corepixels")
            right == layer.scroll + ViewPx
            Covers(e, px) == data[e].startpos <= px /\ px < data[e].startpos + data[e].size
        IN  /\ layer.scroll \in Pixels => Covers(layer.geom.view.start, layer.scroll)
            /\ right \in Pixels => Covers(layer.geom.view.end, right)
            /\ right > Last(layer.geom.visible).poscorepx => layer.geom.view.end = MaxIndex
=============================================================================
