---------------------------- MODULE SerialQueue ----------------------------
(***************************************************************************)
(* What the game server builds on when it gives a room "its queue": each   *)
(* queue is a line of jobs, and one job at a time leaves it, the first     *)
(* first.  Who runs a job, and on which thread, is not said.               *)
(***************************************************************************)
EXTENDS Sequences

CONSTANTS
  Queues,
  Jobs,
  OwnerOf     \* the queue a job is pushed to

VARIABLES
  waiting,    \* the jobs in the line of each queue, the running one first
  ran         \* the jobs of each queue that have ended, in that order

lineVars == <<waiting, ran>>

Init ==
  /\ waiting = [q \in Queues |-> <<>>]
  /\ ran = [q \in Queues |-> <<>>]

Join(j) ==
  /\ waiting' = [waiting EXCEPT ![OwnerOf[j]] = Append(@, j)]
  /\ UNCHANGED ran

RunFirst(q) ==
  /\ waiting[q] # <<>>
  /\ waiting' = [waiting EXCEPT ![q] = Tail(@)]
  /\ ran' = [ran EXCEPT ![q] = Append(@, Head(waiting[q]))]

Next == (\E j \in Jobs : Join(j)) \/ (\E q \in Queues : RunFirst(q))

Spec == Init /\ [][Next]_lineVars
=============================================================================
