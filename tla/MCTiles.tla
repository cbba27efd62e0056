------------------------------ MODULE MCTiles ------------------------------
EXTENDS Tiles

\* The user looks at one tile and scrolls between two positions.
AreasMove == {{1}, {2}}

\* The user does not scroll.
AreasStay == {{1}}
=============================================================================
