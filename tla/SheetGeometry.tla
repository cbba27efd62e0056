---------------------------- MODULE SheetGeometry ----------------------------
(***************************************************************************)
(* SheetGeometry.ts: the sizes of the rows or columns of a sheet, as runs   *)
(* of equal elements, and the conversions between the units positions are   *)
(* given in: core pixels at some zoom, the twips of tiles (aligned to core  *)
(* pixels) and print twips.  One dimension; the other is the same code.     *)
(*                                                                          *)
(* A zoom is [level |-> the zoom of the map, t |-> _tileSizeTwips, p |->    *)
(* _tileSizePixels].  The quotient _twipsPerCorePixel is a fraction; p is a *)
(* power of two, so that the floating-point quotient is exact and its       *)
(* multiples are taken here as integers, p times as large.  The scale of    *)
(* another zoom is a power of 1.2, whose multiples are not exact: see OnePx.*)
(***************************************************************************)
EXTENDS Integers, Sequences, SequencesExt

CONSTANT MaxIndex   \* the last element, _maxIndex

ASSUME MaxIndexAssumption == MaxIndex \in Nat

Elements == 0..MaxIndex
NaN == -1000      \* stands for the number that is none

-----------------------------------------------------------------------------
(* SpanList and BoolSpanList.  A span is [end |-> its last element, value |-> *)
(* the value of its elements]; a list of bits has the value of its first     *)
(* span and the ends of all.                                                  *)

\* What parseSpanListEncoding() makes of the runs of f that Core sends.
Ends(f) == SelectSeq([i \in 1..(MaxIndex + 1) |-> i - 1],
                     LAMBDA e : e = MaxIndex \/ f[e] # f[e + 1])
SpanListOf(f) == [i \in DOMAIN Ends(f) |-> [end |-> Ends(f)[i], value |-> f[Ends(f)[i]]]]
BoolSpanListOf(f) == [startBit |-> f[0], ends |-> Ends(f)]

Bit(l, i) == IF i % 2 = 1 THEN l.startBit ELSE ~l.startBit

\* The spans of a list and the one behind its last.
Places(l) == 1..(Len(l) + 1)

\* The walk over two lists that union() and applyZeroValues() share: i and j are the
\* current spans, a[i] and b[j] their last elements; the result gets a span wherever
\* the combined value changes, and the last one.
Walk(a, b, value) ==
    LET max == Last(a)
        W[i \in Places(a), j \in Places(b)] ==
            IF i > Len(a) \/ j > Len(b) THEN <<>>
            ELSE LET e  == IF a[i] < b[j] THEN a[i] ELSE b[j]
                     i1 == IF a[i] = e THEN i + 1 ELSE i
                     j1 == IF b[j] = e THEN j + 1 ELSE j
                 IN  IF e >= max \/ value[i, j] # value[i1, j1]
                     THEN <<[end |-> e, value |-> value[i, j]]>> \o W[i1, j1]
                     ELSE W[i1, j1]
    IN  W[1, 1]

\* BoolSpanList.union().
Union(l, m) ==
    LET spans == Walk(l.ends, m.ends,
                      [i \in Places(l.ends), j \in Places(m.ends) |-> Bit(l, i) \/ Bit(m, j)])
    IN  [startBit |-> l.startBit \/ m.startBit, ends |-> [k \in DOMAIN spans |-> spans[k].end]]

\* SpanList.applyZeroValues(): behind the last span the value stays what it was.
ApplyZeroValues(spans, l) ==
    Walk([k \in DOMAIN spans |-> spans[k].end], l.ends,
         [i \in Places(spans), j \in Places(l.ends) |->
            IF Bit(l, j) THEN 0 ELSE spans[IF i > Len(spans) THEN Len(spans) ELSE i].value])

-----------------------------------------------------------------------------
(* Zooms *)

\* x times 1.2^k, by Math.round().
RoundScaled(x, k) ==
    IF k >= 0 THEN (x * 6^k + 5^k \div 2) \div 5^k
    ELSE (x * 5^(-k) + 6^(-k) \div 2) \div 6^(-k)

\* _updateTileTwips(), of tiles of p pixels on a display with dpiScale 1; at zoom 10 a
\* pixel has 15 twips.
TileGeometry(level, p) == [level |-> level, p |-> p, t |-> RoundScaled(15 * p, 10 - level)]

\* A zoomScale divided by the 15 twips, as the fraction n/d. zoomToFactor() takes the power
\* itself; scalePosForZoom() one that leaves whole tile twips, starting from those of the
\* current zoom z, which are rounded already.
ZoomToFactor(y) ==
    LET k == y.level - 10
    IN  IF k >= 0 THEN [n |-> 6^k, d |-> 15 * 5^k] ELSE [n |-> 5^(-k), d |-> 15 * 6^(-k)]
ScalePosForZoom(z, y) == [n |-> z.p, d |-> RoundScaled(z.t, z.level - y.level)]

\* An element in pixels at another zoom: Math.floor() of a floating-point product, which may
\* lie below the exact one. That makes a difference only where the exact one is whole, and
\* there a pixel is missing: short is the set of the sizes it happens for.
OnePx(size, scale, short) ==
    (size * scale.n) \div scale.d
      - IF size \in short \ {0} /\ (size * scale.n) % scale.d = 0 THEN 1 ELSE 0

-----------------------------------------------------------------------------
(* SheetDimension: positions *)

CorePx(size, z) == (size * z.p) \div z.t

\* _updatePositions() by addCustomDataForEachSpan(), with the start and size that
\* _getSpanData() adds.
UpdatePositions(spans, z) ==
    LET Next(vs, s) ==
            LET start == IF vs = <<>> THEN 0 ELSE Last(vs).end + 1
                count == s.end - start + 1
                one   == CorePx(s.value, z)
                px    == one * count + IF vs = <<>> THEN 0 ELSE Last(vs).poscorepx
                print == s.value * count + IF vs = <<>> THEN 0 ELSE Last(vs).posprinttwips
            IN  Append(vs, [start |-> start, end |-> s.end, size |-> s.value, sizecore |-> one,
                            poscorepx |-> px, postiletwips |-> (px * z.t) \div z.p,
                            posprinttwips |-> print])
    IN  FoldLeft(Next, <<>>, spans)

\* _updateVisible().
UpdateVisible(d, z) == UpdatePositions(ApplyZeroValues(d.sizes, Union(d.hidden, d.filtered)), z)

Count(v) == v.end - v.start + 1

\* binarySearch() and _findFirstMatch(): dir[i] says where to go from span i; 0 is "none".
\* A first match is only looked for below a match that is not the first span.
BinarySearch(dir, first) ==
    LET n == Len(dir)
        F[i \in 0..n] == IF i > 1 /\ dir[i - 1] = 0 THEN F[i - 1] ELSE i
        S[lo \in 1..(n + 1), hi \in 0..n] ==
            IF lo > hi THEN 0
            ELSE LET mid == (lo + hi + 1) \div 2
                 IN  CASE dir[mid] = 0 -> IF first THEN F[mid] ELSE mid
                       [] dir[mid] = -1 -> S[lo, mid - 1]
                       [] dir[mid] = 1 -> S[mid + 1, hi]
    IN  IF n = 0 \/ dir[1] = -1 THEN 0
        ELSE IF dir[1] = 0 THEN 1
        ELSE IF dir[n] = 1 THEN 0
        ELSE IF dir[n] = 0 THEN IF first THEN F[n] ELSE n
        ELSE S[1, n]

\* What the direction providers return for a span with these limits.
Direction(x, from, to) == IF x < from THEN -1 ELSE IF to < x THEN 1 ELSE 0

\* _searchByIndex().
SearchByIndex(vs, index) ==
    BinarySearch([i \in DOMAIN vs |-> Direction(index, vs[i].start, vs[i].end)], FALSE)

BugSearchByPositionToEnd(vs, pos, field, scale) ==
    BinarySearch([i \in DOMAIN vs |->
                    LET from == IF i = 1 THEN 0 ELSE vs[i - 1][field]
                    IN  Direction(pos, from * scale, vs[i][field] * scale)], TRUE)

\* _searchByCustomDataField(), for a position that is scale times as large. The position
\* where a span ends belongs to the next one, unless it is the last.
SearchByPosition(vs, pos, field, scale) ==
    BinarySearch([i \in DOMAIN vs |->
                    LET from == IF i = 1 THEN 0 ELSE vs[i - 1][field]
                        to   == vs[i][field] - IF i = Len(vs) THEN 0 ELSE 1
                    IN  Direction(pos, from * scale, to * scale)], TRUE)

FloorDiv(a, b) == IF b > 0 THEN a \div b ELSE (-a) \div (-b)

\* The element that pos is in, when it was looked for in span i; none is out of limits.
Located(vs, i, pos, from, to) ==
    IF i = 0 THEN LET k == IF pos >= 0 THEN MaxIndex ELSE 0
                  IN  [index |-> k, span |-> SearchByIndex(vs, k)]
    ELSE [index |-> IF to = from THEN NaN
                    ELSE vs[i].start + FloorDiv((pos - from) * Count(vs[i]), to - from),
          span |-> i]

\* _getSpanAndIndexFromTileTwipsPos(), of pos/z.p tile twips. posStart is not rounded.
FromTileTwips(vs, z, pos) ==
    LET i == SearchByPosition(vs, pos, "postiletwips", z.p)
    IN  IF i = 0 THEN Located(vs, 0, pos, 0, 0)
        ELSE Located(vs, i, pos, (vs[i].poscorepx - vs[i].sizecore * Count(vs[i])) * z.t,
                     vs[i].postiletwips * z.p)

\* _getSpanAndIndexFromPrintTwipsPos().
FromPrintTwips(vs, pos) ==
    LET i == SearchByPosition(vs, pos, "posprinttwips", 1)
    IN  IF i = 0 THEN Located(vs, 0, pos, 0, 0)
        ELSE Located(vs, i, pos, vs[i].posprinttwips - vs[i].size * Count(vs[i]),
                     vs[i].posprinttwips)

\* getIndexFromPos() in core pixels.
IndexFromPixel(vs, z, px) == FromTileTwips(vs, z, px * z.t).index

BugElementOfSpanFromTwips(v, z, index, unit) ==
    LET n == v.end - index + 1
    IN  CASE unit = "corepixels" -> [startpos |-> v.poscorepx - v.sizecore * n, size |-> v.sizecore]
          [] unit = "printtwips" -> [startpos |-> v.posprinttwips - v.size * n, size |-> v.size]
          [] unit = "tiletwips" -> LET one == (v.sizecore * z.t) \div z.p
                                   IN  [startpos |-> v.postiletwips - one * n, size |-> one]

\* _getElementDataAnyFromSpanByIndex(), for an element of span v.
ElementOfSpan(v, z, index, unit) ==
    LET n  == v.end - index + 1
        px == v.poscorepx - v.sizecore * n
    IN  CASE unit = "corepixels" -> [startpos |-> px, size |-> v.sizecore]
          [] unit = "printtwips" -> [startpos |-> v.posprinttwips - v.size * n, size |-> v.size]
          [] unit = "tiletwips" -> [startpos |-> (px * z.t) \div z.p,
                                    size |-> (v.sizecore * z.t) \div z.p]

\* getElementData(), getElementDataAny().
ElementData(vs, z, index, unit) == ElementOfSpan(vs[SearchByIndex(vs, index)], z, index, unit)

\* getElementData() at another zoom, by forEachSpanInRange(0, index).
ElementDataAtZoom(vs, index, scale, short) ==
    LET Add(r, v) ==
            LET one == OnePx(v.size, scale, short)
            IN  IF index > v.end THEN [r EXCEPT !.startpos = @ + one * Count(v)]
                ELSE IF index >= v.start
                THEN [startpos |-> r.startpos + one * (index - v.start), size |-> one]
                ELSE r
    IN  FoldLeft(Add, [startpos |-> 0, size |-> 0], vs)

-----------------------------------------------------------------------------
(* SheetDimension: conversions *)

\* getTileTwipsPosFromPrint() at the current zoom.
TileTwipsFromPrint(vs, z, pos) ==
    LET e == FromPrintTwips(vs, pos)
        v == vs[e.span]
    IN  ElementOfSpan(v, z, e.index, "tiletwips").startpos
          + pos - ElementOfSpan(v, z, e.index, "printtwips").startpos

\* getTileTwipsRangeFromPrint().
TileTwipsRangeFromPrint(vs, z, from, to) ==
    LET Data(pos) == LET e == FromPrintTwips(vs, pos)
                     IN  ElementOfSpan(vs[e.span], z, e.index, "tiletwips")
        start == Data(from).startpos
        end   == Data(to).startpos + Data(to).size
    IN  IF from = to THEN [startpos |-> start, endpos |-> start + z.t \div z.p]
        ELSE [startpos |-> start, endpos |-> IF end < start THEN start ELSE end]

BugCorePixelsAtZoomStopsEarly(vs, pos, scale, short) ==
    LET Convert(r, v) ==
            LET elems == IF v.sizecore = 0 \/ r.rest >= v.sizecore * Count(v) THEN Count(v)
                         ELSE r.rest \div v.sizecore
            IN  IF r.rest <= v.sizecore THEN r
                ELSE [rest |-> r.rest - elems * v.sizecore,
                      pos |-> r.pos + elems * OnePx(v.size, scale, short)]
    IN  FoldLeft(Convert, [rest |-> pos, pos |-> 0], vs)

\* getCorePixelsAtZoom(): the whole elements converted to another zoom, and what is left over
\* of pos. A span that is skipped does not end the walk.
CorePixelsAtZoom(vs, pos, scale, short) ==
    LET Convert(r, v) ==
            LET elems == IF v.sizecore = 0 \/ r.rest >= v.sizecore * Count(v) THEN Count(v)
                         ELSE r.rest \div v.sizecore
            IN  IF r.rest < v.sizecore THEN r
                ELSE [rest |-> r.rest - elems * v.sizecore,
                      pos |-> r.pos + elems * OnePx(v.size, scale, short)]
    IN  FoldLeft(Convert, [rest |-> pos, pos |-> 0], vs)

\* getCorePixelsFromZoom(): the same from another zoom to the current one.
CorePixelsFromZoom(vs, pos, scale, short) ==
    LET Convert(r, v) ==
            LET one   == OnePx(v.size, scale, short)
                elems == IF one = 0 \/ r.rest >= one * Count(v) THEN Count(v) ELSE r.rest \div one
            IN  IF r.rest < one THEN r
                ELSE [rest |-> r.rest - elems * one, pos |-> r.pos + elems * v.sizecore]
    IN  FoldLeft(Convert, [rest |-> pos, pos |-> 0], vs)

\* setViewLimits(), of a view of core pixels.
ViewLimits(vs, z, left, right) ==
    LET i == IndexFromPixel(vs, z, left)
        j == IndexFromPixel(vs, z, right)
    IN  [start |-> IF i # NaN /\ i < 0 THEN 0 ELSE i,
         end |-> IF j # NaN /\ j > MaxIndex THEN MaxIndex ELSE j]
=============================================================================
