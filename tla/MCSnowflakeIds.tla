--------------------------- MODULE MCSnowflakeIds ---------------------------
(***************************************************************************)
(* Two servers, one with two threads.  The tables may hold keys of both,   *)
(* one of them the last but one of its millisecond, so that two more calls *)
(* overflow the sequence; the clock may be behind the epoch.               *)
(***************************************************************************)
EXTENDS SnowflakeIds, TLC

CONSTANTS worker, db, other, character, item

MCNodeOf == worker :> 0 @@ db :> 0 @@ other :> 1

MCTimes == {-1, 2, 3}

MCEarlier ==
  character :> {Compose(1, 2, 7)} @@
  item :> {Compose(0, 2, NodeUnit - 2)}
=============================================================================
