---------------------------- MODULE MCCalcSheets ----------------------------
EXTENDS CalcSheets

\* 3840 and 1072 twips per tile. From the second to the first, scalePosForZoom() arrives at
\* 3841. An element of 30 twips has exactly 2 pixels at zoom 10; one of 247 twips has 58
\* at zoom 17, where getElementData() expects 59.
TwoZooms == {TileGeometry(10, 256), TileGeometry(17, 256)}

Sheet(large, hidden) ==
    [sizes |-> [e \in Elements |-> IF e = large THEN 247 ELSE 30],
     hidden |-> [e \in Elements |-> e = hidden], filtered |-> [e \in Elements |-> FALSE]]

\* Two sheets, one with a hidden element.
TwoSheets == [p \in Parts |-> IF p = 0 THEN Sheet(1, -1) ELSE Sheet(0, 3)]
=============================================================================
