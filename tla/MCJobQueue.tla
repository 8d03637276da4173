----------------------------- MODULE MCJobQueue -----------------------------
(***************************************************************************)
(* Two queues, one with three jobs and one with one: a room and a room it    *)
(* pushes to.                                                              *)
(***************************************************************************)
EXTENDS JobQueue, TLC

CONSTANTS room, other, j1, j2, j3, j4

MCOwnerOf == j1 :> room @@ j2 :> room @@ j3 :> room @@ j4 :> other
=============================================================================
