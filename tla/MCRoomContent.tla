--------------------------- MODULE MCRoomContent ---------------------------
(***************************************************************************)
(* A row of three cells, of which the first and the last do not see each   *)
(* other; a spawn point in the first, and players that come and go.        *)
(***************************************************************************)
EXTENDS RoomContent, TLC

CONSTANTS p1, p2, m1, m2, camp

CampHoldsOne == camp :> 1
CampInFirstCell == camp :> <<0, 0>>
=============================================================================
