---------------------------- MODULE SnowflakeIds ----------------------------
(***************************************************************************)
(* GameServer/Utils/SnowflakeIdGenerator: the keys of characters and items.*)
(*                                                                         *)
(* A server node issues ids without asking the database.  An id is the     *)
(* time in milliseconds, the number of the node and a sequence, in 41, 10  *)
(* and 12 bits, all in _lastId, which any thread replaces by compare-and-  *)
(* swap.  The clock may be set back; a process may end at any point, and   *)
(* the next one starts behind the greatest id of its node in the tables.   *)
(*                                                                         *)
(* Every reading of the clock is any member of `Times', elapsed since the  *)
(* epoch: a clock set back, or a thread that stalls with an old reading.   *)
(* Times stay far below 2^41 milliseconds, so the sign bit of an id is 0.  *)
(* A node number belongs to one process at a time (it is configured).      *)
(***************************************************************************)
EXTENDS Integers, FiniteSets

CONSTANTS
  Nodes,     \* the node numbers of the running servers
  Threads,   \* the threads that call Next: DB threads and workers
  NodeOf,    \* the server of a thread
  Tables,    \* Character, Item
  Times,     \* what the clock may say
  Earlier,   \* the rows that may exist before the first start, by table
  MaxCalls   \* bound: calls of Next in a behaviour

NodeUnit == 4096      \* 2 ^ SEQUENCE_BITS
NodeCount == 1024     \* MAX_NODE_ID + 1
TimeUnit == 4194304   \* 2 ^ TIME_SHIFT

ASSUME SnowflakeAssumption ==
  /\ Nodes \subseteq 0 .. NodeCount - 1
  /\ NodeOf \in [Threads -> Nodes]
  /\ Times \subseteq Int
  /\ Earlier \in [Tables -> SUBSET Nat]
  /\ MaxCalls \in Nat

VARIABLES
  up,      \* the process of a node runs
  lastId,  \* _lastId of a node
  stage,   \* where a thread is in Next
  now,     \* Next: the reading of the clock
  last,    \* Next: what the thread believes _lastId to be
  held,    \* ids issued by the process and not yet saved
  rows,    \* the keys in each table
  calls    \* calls of Next so far

vars == <<up, lastId, stage, now, last, held, rows, calls>>

-----------------------------------------------------------------------------
(* SnowflakeIdGenerator::Compose and Decompose.  The fields do not overlap *)
(* as long as the sequence stays below NodeUnit, so `|' is a sum.          *)

Compose(n, elapsed, sequence) == elapsed * TimeUnit + n * NodeUnit + sequence

ElapsedOf(id) == id \div TimeUnit
NodePart(id) == (id \div NodeUnit) % NodeCount
SequenceOf(id) == id % NodeUnit

(* Deviation: the sequence runs over into the node bits.                   *)
NextId_Overflowing(n, clock, id) ==
  IF clock <= ElapsedOf(id)
  THEN Compose(n, ElapsedOf(id), SequenceOf(id) + 1)
  ELSE Compose(n, clock, 0)

(* Deviation: the clock decides even when it is behind the last time.      *)
NextId_WallClock(n, clock, id) ==
  IF clock # ElapsedOf(id) THEN Compose(n, clock, 0)
  ELSE IF SequenceOf(id) + 1 = NodeUnit THEN Compose(n, clock + 1, 0)
  ELSE Compose(n, clock, SequenceOf(id) + 1)

(***************************************************************************)
(* The logical clock of Next: the clock if it is ahead of the last time,   *)
(* otherwise the last time with the next sequence, which carries into the  *)
(* time.                                                                   *)
(***************************************************************************)
NextId(n, clock, id) ==
  IF clock > ElapsedOf(id) THEN Compose(n, clock, 0)
  ELSE IF SequenceOf(id) + 1 = NodeUnit THEN Compose(n, ElapsedOf(id) + 1, 0)
  ELSE Compose(n, ElapsedOf(id), SequenceOf(id) + 1)

AllRows == UNION {rows[table] : table \in Tables}

RowsOf(n) == {id \in AllRows : NodePart(id) = n}

-----------------------------------------------------------------------------

(***************************************************************************)
(* Every variable has its type; no id is negative.                         *)
(***************************************************************************)
TypeOK ==
  /\ up \in [Nodes -> BOOLEAN]
  /\ lastId \in [Nodes -> Nat]
  /\ stage \in [Threads -> {"idle", "clock", "swap"}]
  /\ now \in [Threads -> Int]
  /\ last \in [Threads -> Nat]
  /\ held \in [Nodes -> SUBSET Nat]
  /\ rows \in [Tables -> SUBSET Nat]
  /\ calls \in 0 .. MaxCalls

Init ==
  /\ up = [n \in Nodes |-> FALSE]
  /\ lastId = [n \in Nodes |-> 0]
  /\ stage = [t \in Threads |-> "idle"]
  /\ now = [t \in Threads |-> 0]
  /\ last = [t \in Threads |-> 0]
  /\ held = [n \in Nodes |-> {}]
  /\ rows \in {[table \in Tables |-> {}], Earlier}
  /\ calls = 0

(* Deviation: the keys of the items are not asked for.                     *)
Boot_OneTable(n) ==
  /\ ~up[n]
  /\ up' = [up EXCEPT ![n] = TRUE]
  /\ \E table \in Tables : \E greatest \in rows[table] \cup {0} :
       /\ \A id \in rows[table] : NodePart(id) = n => id <= greatest
       /\ lastId' = [lastId EXCEPT ![n] =
            Compose(n, ElapsedOf(greatest), SequenceOf(greatest))]
  /\ UNCHANGED <<stage, now, last, held, rows, calls>>

(***************************************************************************)
(* main: the generator starts after the greatest key of this node in the   *)
(* tables, 0 if there is none, before any thread calls Next.  StartAfter   *)
(* takes its time and sequence with this node's number.                    *)
(***************************************************************************)
Boot(n) ==
  /\ ~up[n]
  /\ up' = [up EXCEPT ![n] = TRUE]
  /\ \E greatest \in RowsOf(n) \cup {0} :
       /\ \A id \in RowsOf(n) : id <= greatest
       /\ lastId' = [lastId EXCEPT ![n] =
            Compose(n, ElapsedOf(greatest), SequenceOf(greatest))]
  /\ UNCHANGED <<stage, now, last, held, rows, calls>>

(***************************************************************************)
(* The process ends.  Ids that were not saved are gone with it.            *)
(***************************************************************************)
Crash(n) ==
  /\ up[n]
  /\ up' = [up EXCEPT ![n] = FALSE]
  /\ lastId' = [lastId EXCEPT ![n] = 0]
  /\ held' = [held EXCEPT ![n] = {}]
  /\ stage' = [t \in Threads |-> IF NodeOf[t] = n THEN "idle" ELSE stage[t]]
  /\ UNCHANGED <<now, last, rows, calls>>

-----------------------------------------------------------------------------
(* SnowflakeIdGenerator::Next *)

ReadClock(t, time) ==
  /\ up[NodeOf[t]] /\ stage[t] = "idle"
  /\ calls < MaxCalls
  /\ calls' = calls + 1
  /\ now' = [now EXCEPT ![t] = time]
  /\ stage' = [stage EXCEPT ![t] = "clock"]
  /\ UNCHANGED <<up, lastId, last, held, rows>>

LoadLast(t) ==
  /\ stage[t] = "clock"
  /\ last' = [last EXCEPT ![t] = lastId[NodeOf[t]]]
  /\ stage' = [stage EXCEPT ![t] = "swap"]
  /\ UNCHANGED <<up, lastId, now, held, rows, calls>>

(* Deviation: a store instead of the compare-and-swap.                     *)
Swap_Blind(t) ==
  LET n == NodeOf[t]
      id == NextId(n, now[t], last[t]) IN
  /\ stage[t] = "swap"
  /\ lastId' = [lastId EXCEPT ![n] = id]
  /\ held' = [held EXCEPT ![n] = @ \cup {id}]
  /\ stage' = [stage EXCEPT ![t] = "idle"]
  /\ UNCHANGED <<up, now, last, rows, calls>>

(* compare_exchange_weak succeeds: the id is issued.                       *)
Swap(t) ==
  LET n == NodeOf[t]
      id == NextId(n, now[t], last[t]) IN
  /\ stage[t] = "swap"
  /\ lastId[n] = last[t]
  /\ lastId' = [lastId EXCEPT ![n] = id]
  /\ held' = [held EXCEPT ![n] = @ \cup {id}]
  /\ stage' = [stage EXCEPT ![t] = "idle"]
  /\ UNCHANGED <<up, now, last, rows, calls>>

(***************************************************************************)
(* compare_exchange_weak fails, which it may without a reason, and gives   *)
(* the current value.                                                      *)
(***************************************************************************)
Retry(t) ==
  /\ stage[t] = "swap"
  /\ last' = [last EXCEPT ![t] = lastId[NodeOf[t]]]
  /\ UNCHANGED <<up, lastId, stage, now, held, rows, calls>>

-----------------------------------------------------------------------------
(* What becomes of an id *)

(* A character is created, or a player saved with an item that was new.    *)
Save(n, id, table) ==
  /\ id \in held[n]
  /\ held' = [held EXCEPT ![n] = @ \ {id}]
  /\ rows' = [rows EXCEPT ![table] = @ \cup {id}]
  /\ UNCHANGED <<up, lastId, stage, now, last, calls>>

(* A refused creation, an item used up before it was saved.                *)
Drop(n, id) ==
  /\ id \in held[n]
  /\ held' = [held EXCEPT ![n] = @ \ {id}]
  /\ UNCHANGED <<up, lastId, stage, now, last, rows, calls>>

DeleteRow(table, id) ==
  /\ id \in rows[table]
  /\ rows' = [rows EXCEPT ![table] = @ \ {id}]
  /\ UNCHANGED <<up, lastId, stage, now, last, held, calls>>

Next ==
  \/ \E n \in Nodes : Boot(n) \/ Crash(n)
  \/ \E t \in Threads :
       (\E time \in Times : ReadClock(t, time)) \/ LoadLast(t) \/ Swap(t) \/ Retry(t)
  \/ \E n \in Nodes : \E id \in held[n] :
       Drop(n, id) \/ \E table \in Tables : Save(n, id, table)
  \/ \E table \in Tables : \E id \in rows[table] : DeleteRow(table, id)

Spec == Init /\ [][Next]_vars

-----------------------------------------------------------------------------
(* Properties *)

(***************************************************************************)
(* An id carries the number of the node that issued it, whatever the clock *)
(* and the sequence do: servers never issue each other's ids.              *)
(***************************************************************************)
OwnNode ==
  \A n \in Nodes : \A id \in held[n] : NodePart(id) = n

(***************************************************************************)
(* While a process runs, _lastId is not behind any key of its node, in the *)
(* tables or still to be saved, although its clock may be: no restart and  *)
(* no clock step makes it issue a key that exists.                         *)
(***************************************************************************)
AheadOfKeys ==
  \A n \in Nodes : up[n] =>
    \A id \in held[n] \cup RowsOf(n) : id <= lastId[n]

(* A call of Next returns lastId' in this step.                            *)
Returns(t) == stage[t] = "swap" /\ stage'[t] = "idle" /\ up'[NodeOf[t]]

(***************************************************************************)
(* An id that is issued is nobody's key: no row of any table has it and no *)
(* server holds it for a row to come.                                      *)
(***************************************************************************)
IssuedIsNew ==
  [][\A t \in Threads : Returns(t) =>
       lastId'[NodeOf[t]] \notin AllRows \cup UNION {held[n] : n \in Nodes}]_vars

(***************************************************************************)
(* The ids of a process grow in the order they are issued, whichever       *)
(* threads issue them and whatever their readings of the clock.            *)
(***************************************************************************)
IssuedInOrder ==
  [][\A t \in Threads : Returns(t) => lastId'[NodeOf[t]] > lastId[NodeOf[t]]]_vars
=============================================================================
