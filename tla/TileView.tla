------------------------------ MODULE TileView ------------------------------
(***************************************************************************)
(* What the tile flow promises a user: each tile of the document shows     *)
(* nothing, or the document as it was after some number of its edits, and  *)
(* what it shows is only ever replaced by something newer (or by nothing). *)
(***************************************************************************)
EXTENDS Integers

CONSTANTS Tiles, Nothing

VARIABLES document, shown

Init ==
    /\ document = [t \in Tiles |-> 0]
    /\ shown = [t \in Tiles |-> Nothing]

\* Somebody edits what a tile covers.
Edit(t) ==
    /\ document' = [document EXCEPT ![t] = @ + 1]
    /\ UNCHANGED shown

\* Tiles come to show newer states of the document, or go.
Refresh ==
    /\ \A t \in Tiles :
          \/ shown'[t] = Nothing
          \/ shown'[t] \in 0..document[t] /\ (shown[t] # Nothing => shown'[t] >= shown[t])
    /\ UNCHANGED document

Next == (\E t \in Tiles : Edit(t)) \/ Refresh

Spec == Init /\ [][Next]_<<document, shown>>
=============================================================================
