------------------------ MODULE SnowflakeIds_proofs ------------------------
(***************************************************************************)
(* For any servers, threads, tables, clocks and earlier rows: the ids stay *)
(* their node's own, ahead of every key of the node, and new.              *)
(*                                                                         *)
(* The invariant adds three facts to the checked ones: _lastId of a running*)
(* process carries its node number, only a running process has threads     *)
(* inside Next, and only a running process holds ids.                                                          *)
(***************************************************************************)
EXTENDS SnowflakeIds, TLAPS

NodeNumbers == 0 .. 1023

SequenceNumbers == 0 .. 4095

(* Compose and Decompose are inverse as long as the fields do not overlap. *)
LEMMA ComposeFacts ==
  ASSUME NEW n \in NodeNumbers, NEW e \in Nat, NEW s \in SequenceNumbers
  PROVE  /\ Compose(n, e, s) \in Nat
         /\ ElapsedOf(Compose(n, e, s)) = e
         /\ NodePart(Compose(n, e, s)) = n
         /\ SequenceOf(Compose(n, e, s)) = s
<1> DEFINE id == e * 4194304 + n * 4096 + s
<1>1. id \in Nat
  BY SMT DEF NodeNumbers, SequenceNumbers
<1>2. id \div 4194304 = e
  BY SMT DEF NodeNumbers, SequenceNumbers
<1>3. id \div 4096 = e * 1024 + n /\ id % 4096 = s
  BY SMT DEF NodeNumbers, SequenceNumbers
<1>4. (e * 1024 + n) % 1024 = n
  BY SMT DEF NodeNumbers, SequenceNumbers
<1> QED
  BY <1>1, <1>2, <1>3, <1>4, SMT
  DEF Compose, NodeNumbers, SequenceNumbers, ElapsedOf, NodePart, SequenceOf, NodeUnit, NodeCount, TimeUnit

LEMMA DecomposeFacts ==
  ASSUME NEW id \in Nat
  PROVE  /\ ElapsedOf(id) \in Nat
         /\ NodePart(id) \in NodeNumbers
         /\ SequenceOf(id) \in SequenceNumbers
         /\ id = Compose(NodePart(id), ElapsedOf(id), SequenceOf(id))
<1>1. id \div 4194304 \in Nat /\ id \div 4096 \in Nat /\ id % 4096 \in SequenceNumbers
  BY SMT DEF NodeNumbers, SequenceNumbers
<1>2. id = (id \div 4096) * 4096 + (id % 4096)
  BY SMT DEF NodeNumbers, SequenceNumbers
<1>3. (id \div 4096) % 1024 \in NodeNumbers
  BY <1>1, SMT DEF NodeNumbers
<1>4. id \div 4096 = (id \div 4194304) * 1024 + ((id \div 4096) % 1024)
  BY SMT DEF NodeNumbers, SequenceNumbers
<1> QED
  BY <1>1, <1>2, <1>3, <1>4, SMT
  DEF Compose, NodeNumbers, SequenceNumbers, ElapsedOf, NodePart, SequenceOf, NodeUnit, NodeCount, TimeUnit

(***************************************************************************)
(* The next id is greater than the last one and of the same node, for      *)
(* every reading of the clock and every sequence.                          *)
(***************************************************************************)
LEMMA NextIdFacts ==
  ASSUME NEW n \in NodeNumbers, NEW clock \in Int, NEW id \in Nat, NodePart(id) = n
  PROVE  /\ NextId(n, clock, id) \in Nat
         /\ NodePart(NextId(n, clock, id)) = n
         /\ NextId(n, clock, id) > id
<1> DEFINE e == ElapsedOf(id)  s == SequenceOf(id)
<1>0. e \in Nat /\ s \in SequenceNumbers /\ id = Compose(n, e, s)
  BY DecomposeFacts
<1> HIDE DEF e, s
<1>1. /\ e \in Nat /\ e + 1 \in Nat /\ s \in SequenceNumbers
      /\ 0 \in SequenceNumbers
  BY <1>0, SMT DEF SequenceNumbers
<1>5. id = e * 4194304 + n * 4096 + s
  BY <1>0, SMT DEF Compose, NodeUnit, TimeUnit, NodeNumbers, SequenceNumbers
<1>2. CASE clock > e
  <2>1. clock \in Nat /\ clock >= e + 1
    BY <1>1, <1>2, SMT DEF NodeNumbers, SequenceNumbers
  <2>2. NextId(n, clock, id) = Compose(n, clock, 0)
    BY <1>2, SMT DEF NextId, e
  <2>3. Compose(n, clock, 0) > id
    BY <1>1, <1>5, <2>1, SMT DEF Compose, NodeUnit, TimeUnit, NodeNumbers, SequenceNumbers
  <2>4. /\ Compose(n, clock, 0) \in Nat
        /\ NodePart(Compose(n, clock, 0)) = n
    BY <1>1, <2>1, ComposeFacts
  <2> QED BY <2>1, <2>2, <2>3, <2>4
<1>3. CASE ~(clock > e) /\ s + 1 = 4096
  <2>1. NextId(n, clock, id) = Compose(n, e + 1, 0)
    BY <1>3, SMT DEF NextId, e, s, NodeUnit
  <2>2. Compose(n, e + 1, 0) > id
    BY <1>1, <1>5, SMT DEF Compose, NodeUnit, TimeUnit, NodeNumbers, SequenceNumbers
  <2>3. /\ Compose(n, e + 1, 0) \in Nat
        /\ NodePart(Compose(n, e + 1, 0)) = n
    BY <1>1, ComposeFacts
  <2> QED BY <2>1, <2>2, <2>3
<1>4. CASE ~(clock > e) /\ s + 1 # 4096
  <2>1. NextId(n, clock, id) = Compose(n, e, s + 1)
    BY <1>4, SMT DEF NextId, e, s, NodeUnit
  <2>2. Compose(n, e, s + 1) > id /\ s + 1 \in SequenceNumbers
    BY <1>1, <1>4, <1>5, SMT DEF Compose, NodeUnit, TimeUnit, NodeNumbers, SequenceNumbers
  <2>3. /\ Compose(n, e, s + 1) \in Nat
        /\ NodePart(Compose(n, e, s + 1)) = n
    BY <1>1, <2>2, ComposeFacts
  <2> QED BY <2>1, <2>2, <2>3
<1> QED BY <1>2, <1>3, <1>4, SMT

-----------------------------------------------------------------------------

LastIsOwn == \A n \in Nodes : up[n] => NodePart(lastId[n]) = n

ThreadsRun == \A t \in Threads : stage[t] # "idle" => up[NodeOf[t]]

DownHoldsNothing == \A n \in Nodes : ~up[n] => held[n] = {}

IInv ==
  TypeOK /\ OwnNode /\ AheadOfKeys /\ LastIsOwn /\ ThreadsRun /\ DownHoldsNothing

LEMMA NodesFacts ==
  /\ \A n \in Nodes : n \in NodeNumbers
  /\ \A t \in Threads : NodeOf[t] \in Nodes
BY SnowflakeAssumption DEF NodeCount, NodeNumbers

LEMMA InitIInv == Init => IInv
<1> SUFFICES ASSUME Init PROVE IInv
  OBVIOUS
<1>1. rows \in [Tables -> SUBSET Nat]
  BY SnowflakeAssumption DEF Init
<1>2. TypeOK
  BY <1>1, SnowflakeAssumption DEF Init, TypeOK
<1>3. OwnNode /\ AheadOfKeys /\ LastIsOwn /\ ThreadsRun /\ DownHoldsNothing
  BY NodesFacts
  DEF Init, OwnNode, AheadOfKeys, LastIsOwn, ThreadsRun, DownHoldsNothing
<1> QED BY <1>2, <1>3 DEF IInv

(* What Boot starts from.                                                  *)
LEMMA BootKeeps ==
  ASSUME IInv, NEW n \in Nodes, Boot(n)
  PROVE  IInv'
<1> USE DEF IInv
<1>1. PICK greatest \in RowsOf(n) \cup {0} :
        /\ \A id \in RowsOf(n) : id <= greatest
        /\ lastId' = [lastId EXCEPT ![n] =
             Compose(n, ElapsedOf(greatest), SequenceOf(greatest))]
  BY DEF Boot
<1>2. AllRows \subseteq Nat
  BY DEF TypeOK, AllRows
<1>3. greatest \in Nat
  BY <1>2 DEF RowsOf
<1> DEFINE start == Compose(n, ElapsedOf(greatest), SequenceOf(greatest))
<1>4. start \in Nat /\ NodePart(start) = n
  <2>1. ElapsedOf(greatest) \in Nat /\ SequenceOf(greatest) \in SequenceNumbers
    BY <1>3, DecomposeFacts
  <2> QED BY <2>1, NodesFacts, ComposeFacts
<1>5. \A id \in RowsOf(n) : id <= start
  <2> SUFFICES ASSUME NEW id \in RowsOf(n) PROVE id <= start
    OBVIOUS
  <2>1. CASE greatest \in RowsOf(n)
    <3>1. start = greatest
      BY <1>3, <2>1, DecomposeFacts DEF RowsOf
    <3> QED BY <1>1, <3>1
  <2>2. CASE greatest = 0
    <3>1. id \in Nat
      BY <1>2 DEF RowsOf
    <3>2. id <= 0
      BY <1>1, <2>2
    <3> QED BY <1>4, <3>1, <3>2
  <2> QED BY <2>1, <2>2
<1> HIDE DEF start
<1>6. lastId' = [lastId EXCEPT ![n] = start]
  BY <1>1 DEF start
<1>7. lastId'[n] = start /\ up'[n] /\ ~up[n] /\ held' = held /\ rows' = rows /\ stage' = stage
  BY <1>6 DEF Boot, TypeOK
<1>8. \A m \in Nodes \ {n} : lastId'[m] = lastId[m] /\ up'[m] = up[m]
  BY <1>6 DEF Boot, TypeOK
<1>9. TypeOK'
  BY <1>4, <1>6 DEF Boot, TypeOK
<1>10. RowsOf(n)' = RowsOf(n) /\ \A m \in Nodes : RowsOf(m)' = RowsOf(m)
  BY <1>7 DEF RowsOf, AllRows
<1>11. AheadOfKeys'
  <2> SUFFICES ASSUME NEW m \in Nodes, up'[m], NEW id \in held'[m] \cup RowsOf(m)'
               PROVE  id <= lastId'[m]
    BY <1>10 DEF AheadOfKeys
  <2>1. CASE m = n
    <3>1. held'[m] = {}
      BY <1>7, <2>1 DEF DownHoldsNothing
    <3> QED BY <1>5, <1>7, <1>10, <2>1, <3>1
  <2>2. CASE m # n
    BY <1>7, <1>8, <1>10, <2>2 DEF AheadOfKeys
  <2> QED BY <2>1, <2>2
<1>12. LastIsOwn'
  BY <1>4, <1>7, <1>8 DEF LastIsOwn
<1>13. OwnNode'
  BY <1>7 DEF OwnNode
<1>14. ThreadsRun' /\ DownHoldsNothing'
  BY <1>7, <1>8, NodesFacts DEF ThreadsRun, DownHoldsNothing
<1> QED BY <1>9, <1>11, <1>12, <1>13, <1>14

LEMMA CrashKeeps ==
  ASSUME IInv, NEW n \in Nodes, Crash(n)
  PROVE  IInv'
<1> USE DEF IInv
<1>1. /\ ~up'[n] /\ lastId'[n] = 0 /\ held'[n] = {} /\ rows' = rows
      /\ \A m \in Nodes \ {n} :
           up'[m] = up[m] /\ lastId'[m] = lastId[m] /\ held'[m] = held[m]
      /\ \A t \in Threads : stage'[t] = IF NodeOf[t] = n THEN "idle" ELSE stage[t]
  BY DEF Crash, TypeOK
<1>2. TypeOK'
  BY DEF Crash, TypeOK
<1>3. \A m \in Nodes : RowsOf(m)' = RowsOf(m)
  BY <1>1 DEF RowsOf, AllRows
<1>4. AheadOfKeys'
  BY <1>1, <1>3 DEF AheadOfKeys
<1>5. OwnNode' /\ LastIsOwn' /\ DownHoldsNothing'
  BY <1>1 DEF OwnNode, LastIsOwn, DownHoldsNothing
<1>6. ThreadsRun'
  BY <1>1, NodesFacts DEF ThreadsRun
<1> QED BY <1>2, <1>4, <1>5, <1>6

-----------------------------------------------------------------------------
(* Next *)

(***************************************************************************)
(* A successful swap: the id is the node's own, greater than the last, and *)
(* so greater than every key of the node.                                  *)
(***************************************************************************)
LEMMA SwapFacts ==
  ASSUME IInv, NEW t \in Threads, Swap(t), NEW n \in Nodes, n = NodeOf[t],
         NEW id, id = NextId(n, now[t], last[t])
  PROVE  /\ up[n] /\ up' = up
         /\ lastId' = [lastId EXCEPT ![n] = id]
         /\ held' = [held EXCEPT ![n] = @ \cup {id}]
         /\ id \in Nat /\ NodePart(id) = n /\ id > lastId[n]
<1>1. lastId[n] = last[t] /\ stage[t] = "swap" /\ up' = up
  BY DEF Swap
<1>2. up[n]
  BY <1>1 DEF IInv, ThreadsRun
<1>3. NodePart(lastId[n]) = n /\ lastId[n] \in Nat /\ now[t] \in Int
  BY <1>2 DEF IInv, LastIsOwn, TypeOK
<1>4. id \in Nat /\ NodePart(id) = n /\ id > lastId[n]
  <2>1. n \in NodeNumbers
    BY NodesFacts
  <2>2. last[t] \in Nat /\ NodePart(last[t]) = n /\ now[t] \in Int
    BY <1>1, <1>3
  <2> QED BY <1>1, <2>1, <2>2, NextIdFacts
<1> QED BY <1>1, <1>2, <1>4 DEF Swap

LEMMA SwapKeeps ==
  ASSUME IInv, NEW t \in Threads, Swap(t)
  PROVE  IInv'
<1> USE DEF IInv
<1>1. PICK n : n = NodeOf[t]
  OBVIOUS
<1>2. PICK id : id = NextId(n, now[t], last[t])
  OBVIOUS
<1>3. n \in Nodes
  BY <1>1, NodesFacts
<1>4. /\ up[n] /\ up' = up
      /\ lastId' = [lastId EXCEPT ![n] = id]
      /\ held' = [held EXCEPT ![n] = @ \cup {id}]
      /\ id \in Nat /\ NodePart(id) = n /\ id > lastId[n]
  BY <1>1, <1>2, <1>3, SwapFacts
<1>5. rows' = rows /\ stage' = [stage EXCEPT ![t] = "idle"]
  BY DEF Swap
<1>6. /\ lastId'[n] = id /\ held'[n] = held[n] \cup {id}
      /\ \A m \in Nodes \ {n} : lastId'[m] = lastId[m] /\ held'[m] = held[m]
  BY <1>3, <1>4 DEF TypeOK
<1>7. TypeOK'
  BY <1>3, <1>4, <1>5 DEF Swap, TypeOK
<1>8. \A m \in Nodes : RowsOf(m)' = RowsOf(m)
  BY <1>5 DEF RowsOf, AllRows
<1>9. AheadOfKeys'
  <2> SUFFICES ASSUME NEW m \in Nodes, up'[m], NEW k \in held'[m] \cup RowsOf(m)'
               PROVE  k <= lastId'[m]
    BY DEF AheadOfKeys
  <2>1. CASE m = n
    <3>1. CASE k = id
      BY <1>4, <1>6, <2>1, <3>1
    <3>2. CASE k \in held[n] \cup RowsOf(n)
      <4>1. k <= lastId[n]
        BY <1>3, <1>4, <3>2 DEF AheadOfKeys
      <4>2. k \in Nat
        BY <1>3, <3>2 DEF TypeOK, RowsOf, AllRows
      <4>3. lastId[n] \in Nat
        BY <1>3 DEF TypeOK
      <4> QED BY <1>4, <1>6, <2>1, <4>1, <4>2, <4>3
    <3> QED BY <1>3, <1>6, <1>8, <2>1, <3>1, <3>2
  <2>2. CASE m # n
    BY <1>4, <1>6, <1>8, <2>2 DEF AheadOfKeys
  <2> QED BY <2>1, <2>2
<1>10. OwnNode'
  BY <1>4, <1>6 DEF OwnNode
<1>11. LastIsOwn'
  BY <1>4, <1>6 DEF LastIsOwn
<1>12. ThreadsRun'
  BY <1>4, <1>5 DEF ThreadsRun, TypeOK
<1>13. DownHoldsNothing'
  BY <1>4, <1>6 DEF DownHoldsNothing
<1> QED BY <1>7, <1>9, <1>10, <1>11, <1>12, <1>13

(* The steps of Next that issue nothing.                                   *)
LEMMA ThreadKeeps ==
  ASSUME IInv, NEW t \in Threads,
         (\E time \in Times : ReadClock(t, time)) \/ LoadLast(t) \/ Retry(t)
  PROVE  IInv'
<1> USE DEF IInv
<1>1. /\ up' = up /\ lastId' = lastId /\ held' = held /\ rows' = rows
      /\ \A u \in Threads : stage'[u] # "idle" => stage[u] # "idle" \/ up[NodeOf[u]]
  BY DEF ReadClock, LoadLast, Retry, TypeOK
<1>2. TypeOK'
  <2>1. ASSUME NEW time \in Times, ReadClock(t, time) PROVE TypeOK'
    <3>1. time \in Int /\ calls + 1 \in 0 .. MaxCalls
      BY <2>1, SnowflakeAssumption DEF ReadClock, TypeOK
    <3> QED BY <2>1, <3>1 DEF ReadClock, TypeOK
  <2>2. ASSUME LoadLast(t) \/ Retry(t) PROVE TypeOK'
    BY <2>2, NodesFacts DEF LoadLast, Retry, TypeOK
  <2> QED BY <2>1, <2>2
<1>3. \A m \in Nodes : RowsOf(m)' = RowsOf(m)
  BY <1>1 DEF RowsOf, AllRows
<1>4. AheadOfKeys' /\ OwnNode' /\ LastIsOwn' /\ DownHoldsNothing'
  BY <1>1, <1>3 DEF AheadOfKeys, OwnNode, LastIsOwn, DownHoldsNothing
<1>5. ThreadsRun'
  BY <1>1 DEF ThreadsRun
<1> QED BY <1>2, <1>4, <1>5

-----------------------------------------------------------------------------
(* What becomes of an id *)

LEMMA SaveKeeps ==
  ASSUME IInv, NEW n \in Nodes, NEW id \in held[n], NEW table \in Tables,
         Save(n, id, table)
  PROVE  IInv'
<1> USE DEF IInv
<1>1. /\ up' = up /\ lastId' = lastId /\ stage' = stage
      /\ \A m \in Nodes : held'[m] \subseteq held[m]
      /\ \A tb \in Tables : rows'[tb] \subseteq rows[tb] \cup {id}
  BY DEF Save, TypeOK
<1>2. TypeOK'
  BY DEF Save, TypeOK
<1>3. \A m \in Nodes : \A k \in RowsOf(m)' : k \in RowsOf(m) \/ (k = id /\ NodePart(k) = m)
  BY <1>1 DEF RowsOf, AllRows
<1>4. NodePart(id) = n
  BY DEF OwnNode
<1>5. AheadOfKeys'
  <2> SUFFICES ASSUME NEW m \in Nodes, up'[m], NEW k \in held'[m] \cup RowsOf(m)'
               PROVE  k <= lastId'[m]
    BY DEF AheadOfKeys
  <2>1. k \in held[m] \cup RowsOf(m)
    BY <1>1, <1>3, <1>4
  <2> QED BY <1>1, <2>1 DEF AheadOfKeys
<1>6. OwnNode' /\ LastIsOwn' /\ DownHoldsNothing'
  BY <1>1 DEF OwnNode, LastIsOwn, DownHoldsNothing
<1>7. ThreadsRun'
  BY <1>1 DEF ThreadsRun
<1> QED BY <1>2, <1>5, <1>6, <1>7

LEMMA LossKeeps ==
  ASSUME IInv,
         \/ \E n \in Nodes : \E id \in held[n] : Drop(n, id)
         \/ \E table \in Tables : \E id \in rows[table] : DeleteRow(table, id)
  PROVE  IInv'
<1> USE DEF IInv
<1>1. /\ up' = up /\ lastId' = lastId /\ stage' = stage
      /\ \A m \in Nodes : held'[m] \subseteq held[m]
      /\ \A tb \in Tables : rows'[tb] \subseteq rows[tb]
  BY DEF Drop, DeleteRow, TypeOK
<1>2. TypeOK'
  BY DEF Drop, DeleteRow, TypeOK
<1>3. \A m \in Nodes : RowsOf(m)' \subseteq RowsOf(m)
  BY <1>1 DEF RowsOf, AllRows
<1>4. AheadOfKeys'
  BY <1>1, <1>3 DEF AheadOfKeys
<1>5. OwnNode' /\ LastIsOwn' /\ DownHoldsNothing' /\ ThreadsRun'
  BY <1>1 DEF OwnNode, LastIsOwn, DownHoldsNothing, ThreadsRun
<1> QED BY <1>2, <1>4, <1>5

-----------------------------------------------------------------------------

LEMMA StepIInv == IInv /\ [Next]_vars => IInv'
<1> SUFFICES ASSUME IInv, [Next]_vars PROVE IInv'
  OBVIOUS
<1>1. ASSUME NEW n \in Nodes, Boot(n) PROVE IInv'
  BY <1>1, BootKeeps
<1>2. ASSUME NEW n \in Nodes, Crash(n) PROVE IInv'
  BY <1>2, CrashKeeps
<1>3. ASSUME NEW t \in Threads,
             (\E time \in Times : ReadClock(t, time)) \/ LoadLast(t) \/ Retry(t)
      PROVE  IInv'
  BY <1>3, ThreadKeeps
<1>4. ASSUME NEW t \in Threads, Swap(t) PROVE IInv'
  BY <1>4, SwapKeeps
<1>5. ASSUME NEW n \in Nodes, NEW id \in held[n], NEW table \in Tables,
             Save(n, id, table)
      PROVE  IInv'
  BY <1>5, SaveKeeps
<1>6. ASSUME \/ \E n \in Nodes : \E id \in held[n] : Drop(n, id)
             \/ \E table \in Tables : \E id \in rows[table] : DeleteRow(table, id)
      PROVE  IInv'
  BY <1>6, LossKeeps
<1>7. CASE UNCHANGED vars
  BY <1>7
  DEF vars, IInv, TypeOK, OwnNode, AheadOfKeys, LastIsOwn, ThreadsRun,
      DownHoldsNothing, RowsOf, AllRows
<1> QED BY <1>1, <1>2, <1>3, <1>4, <1>5, <1>6, <1>7 DEF Next

LEMMA AlwaysIInv == Spec => []IInv
BY InitIInv, StepIInv, PTL DEF Spec

(* No id is ever negative and every variable has its type.                 *)
THEOREM IdTypes == Spec => []TypeOK
<1>1. IInv => TypeOK
  BY DEF IInv
<1> QED BY <1>1, AlwaysIInv, PTL

(* The node bits of an id are never disturbed: servers do not collide.     *)
THEOREM IdsAreOwn == Spec => []OwnNode
<1>1. IInv => OwnNode
  BY DEF IInv
<1> QED BY <1>1, AlwaysIInv, PTL

(* A running generator is ahead of every key of its node, across restarts. *)
THEOREM GeneratorAhead == Spec => []AheadOfKeys
<1>1. IInv => AheadOfKeys
  BY DEF IInv
<1> QED BY <1>1, AlwaysIInv, PTL

(* Only a successful swap returns an id.                                   *)
LEMMA ReturnsIsSwap ==
  ASSUME IInv, [Next]_vars, NEW t \in Threads, Returns(t)
  PROVE  Swap(t)
<1>1. /\ stage[t] = "swap" /\ stage'[t] = "idle" /\ up'[NodeOf[t]]
      /\ up[NodeOf[t]]
  BY DEF Returns, IInv, ThreadsRun
<1>2. ASSUME NEW n \in Nodes, Crash(n) PROVE FALSE
  <2>1. NodeOf[t] = n
    BY <1>1, <1>2 DEF Crash, IInv, TypeOK
  <2> QED BY <1>1, <1>2, <2>1 DEF Crash, IInv, TypeOK
<1>3. ASSUME NEW u \in Threads, Swap(u) PROVE Swap(t)
  BY <1>1, <1>3 DEF Swap, IInv, TypeOK
<1>4. ASSUME NEW u \in Threads,
             (\E time \in Times : ReadClock(u, time)) \/ LoadLast(u) \/ Retry(u)
      PROVE  FALSE
  BY <1>1, <1>4 DEF ReadClock, LoadLast, Retry, IInv, TypeOK
<1>5. ASSUME stage' = stage PROVE FALSE
  BY <1>1, <1>5
<1> QED
  BY <1>2, <1>3, <1>4, <1>5 DEF Next, vars, Boot, Drop, Save, DeleteRow

(***************************************************************************)
(* What a step that returns from Next has issued.                          *)
(***************************************************************************)
LEMMA IssueFacts ==
  ASSUME IInv, [Next]_vars, NEW t \in Threads, Returns(t),
         NEW n \in Nodes, n = NodeOf[t]
  PROVE  /\ lastId'[n] \in Nat /\ NodePart(lastId'[n]) = n
         /\ lastId'[n] > lastId[n] /\ up[n]
<1>1. Swap(t)
  BY ReturnsIsSwap
<1>2. PICK id : id = NextId(n, now[t], last[t])
  OBVIOUS
<1>3. /\ up[n] /\ lastId' = [lastId EXCEPT ![n] = id]
      /\ id \in Nat /\ NodePart(id) = n /\ id > lastId[n]
  BY <1>1, <1>2, SwapFacts
<1>4. lastId'[n] = id
  BY <1>3 DEF IInv, TypeOK
<1> QED BY <1>3, <1>4

(* The ids of a process grow in the order they are issued.                 *)
THEOREM IssuesGrow == Spec => IssuedInOrder
<1>1. IInv /\ [Next]_vars =>
        [\A t \in Threads : Returns(t) => lastId'[NodeOf[t]] > lastId[NodeOf[t]]]_vars
  BY IssueFacts, NodesFacts
<1> QED BY <1>1, AlwaysIInv, PTL DEF Spec, IssuedInOrder

(* An id that is issued is nobody's key, before or after a restart.        *)
THEOREM IssuesAreNew == Spec => IssuedIsNew
<1>1. ASSUME IInv, [Next]_vars, NEW t \in Threads, Returns(t)
      PROVE  lastId'[NodeOf[t]] \notin AllRows \cup UNION {held[n] : n \in Nodes}
  <2>1. PICK n \in Nodes : n = NodeOf[t]
    BY NodesFacts
  <2>2. /\ lastId'[n] \in Nat /\ NodePart(lastId'[n]) = n
        /\ lastId'[n] > lastId[n] /\ up[n]
    BY <1>1, <2>1, IssueFacts
  <2>3. \A id \in held[n] \cup RowsOf(n) : id # lastId'[n]
    <3> SUFFICES ASSUME NEW id \in held[n] \cup RowsOf(n) PROVE id # lastId'[n]
      OBVIOUS
    <3>1. id <= lastId[n]
      BY <1>1, <2>2 DEF IInv, AheadOfKeys
    <3>2. id \in Nat /\ lastId[n] \in Nat
      BY <1>1 DEF IInv, TypeOK, RowsOf, AllRows
    <3> QED BY <2>2, <3>1, <3>2
  <2>4. lastId'[n] \notin AllRows
    BY <2>2, <2>3 DEF RowsOf
  <2>5. \A m \in Nodes \ {n} : lastId'[n] \notin held[m]
    BY <1>1, <2>2 DEF IInv, OwnNode
  <2> QED BY <2>1, <2>3, <2>4, <2>5
<1>2. IInv /\ [Next]_vars =>
        [\A t \in Threads : Returns(t) =>
           lastId'[NodeOf[t]] \notin AllRows \cup UNION {held[n] : n \in Nodes}]_vars
  BY <1>1
<1> QED BY <1>2, AlwaysIInv, PTL DEF Spec, IssuedIsNew
=============================================================================
