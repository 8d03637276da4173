--------------------------- MODULE MCProgressSave ---------------------------
(***************************************************************************)
(* Instances of ProgressSave for TLC.                                      *)
(***************************************************************************)
EXTENDS ProgressSave, TLC

CONSTANTS s1, s2, u1, r1, r2, r3, town, field

OneAccount == [s \in Sessions |-> u1]

(* r1 and r2 are channels of the town, r3 is the field.                    *)
MapsOfRooms == [r \in Rooms |-> IF r = r3 THEN field ELSE town]

(* The sessions of an account are interchangeable, and so are the channels *)
(* of a map.                                                               *)
Symmetry == Permutations(Sessions) \cup Permutations(Rooms \ {r3})
=============================================================================
