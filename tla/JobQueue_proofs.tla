--------------------------- MODULE JobQueue_proofs ---------------------------
(***************************************************************************)
(* For any threads, queues and jobs: a JobQueue is executed by one thread  *)
(* at a time, work is never left without an owner, and every queue is a    *)
(* line of jobs (SerialQueue).                                             *)
(*                                                                         *)
(* The argument.  The right to execute a queue is a token.  It exists      *)
(* exactly while _jobCount is positive, and it is in one place: a push     *)
(* that raised the count from zero, the GlobalQueue, or a thread in        *)
(* Execute (Tokens).  That a thread which subtracts what it took leaves    *)
(* the count positive when it keeps the token needs the count to be exact: *)
(* the jobs stored, the jobs taken out, and the pushes that have counted   *)
(* and not stored (Counted).                                               *)
(***************************************************************************)
EXTENDS JobQueue, FiniteSetTheorems, SequenceTheorems, TLAPS

(* A push that is responsible for the queue.                               *)
PushHolds(t, q) ==
  pushing[t].on /\ pushing[t].first /\ OwnerOf[pushing[t].job] = q

(* The pushes that have counted a job of q and not stored it.              *)
Announced(q) ==
  {t \in Threads :
     pushing[t].on /\ ~pushing[t].stored /\ OwnerOf[pushing[t].job] = q}

(* The local variables of a thread fit the place where it is.              *)
Shape ==
  \A t \in Threads :
    /\ current[t] # NoQueue <=> step[t] \in {"pop", "run", "clock"}
    /\ step[t] # "run" => batch[t] = <<>> /\ taken[t] = 0
    /\ pushing[t].on /\ pushing[t].stored => pushing[t].first

Owned(q) == InGlobal(q) \/ \E t \in Threads : Responsible(t, q)

Tokens ==
  /\ OneExecutor
  /\ \A t, u \in Threads, q \in Queues :
       PushHolds(t, q) /\ PushHolds(u, q) => t = u
  /\ \A t, u \in Threads : \A q \in Queues :
       current[t] = q => ~PushHolds(u, q)
  /\ \A i, k \in 1 .. Len(global) : global[i] = global[k] => i = k
  /\ \A i \in 1 .. Len(global), t \in Threads : ~Responsible(t, global[i])
  /\ \A q \in Queues : count[q] > 0 <=> Owned(q)

Counted ==
  \A q \in Queues :
    /\ \A t \in Threads :
         current[t] = q =>
           count[q] = Len(jobs[q]) + taken[t] + Cardinality(Announced(q))
    /\ (\A t \in Threads : current[t] # q) =>
           count[q] = Len(jobs[q]) + Cardinality(Announced(q))

IInv == TypeOK /\ Shape /\ Tokens /\ Counted

-----------------------------------------------------------------------------
(* Facts about the operations *)

LEMMA AnnouncedFinite ==
  \A q : IsFiniteSet(Announced(q)) /\ Cardinality(Announced(q)) \in Nat
BY JobQueueAssumption, FS_Subset, FS_CardinalityType DEF Announced

LEMMA PushType ==
  ASSUME TypeOK, NEW t \in Threads
  PROVE  \/ pushing[t] = NoPush /\ pushing[t].on = FALSE
         \/ /\ pushing[t].on = TRUE
            /\ pushing[t].job \in Jobs
            /\ OwnerOf[pushing[t].job] \in Queues
            /\ pushing[t].first \in BOOLEAN
            /\ pushing[t].pushOnly \in BOOLEAN
            /\ pushing[t].stored \in BOOLEAN
            /\ pushing[t] \in AnyPush
<1>1. pushing[t] \in AnyPush \cup {NoPush}
  BY DEF TypeOK
<1>2. CASE pushing[t] = NoPush
  BY <1>2 DEF NoPush
<1>3. CASE pushing[t] \in AnyPush
  <2>1. pushing[t].on = TRUE /\ pushing[t].job \in Jobs
    BY <1>3 DEF AnyPush
  <2>2. pushing[t].first \in BOOLEAN /\ pushing[t].stored \in BOOLEAN
        /\ pushing[t].pushOnly \in BOOLEAN
    BY <1>3 DEF AnyPush
  <2>3. OwnerOf[pushing[t].job] \in Queues
    BY <2>1, JobQueueAssumption
  <2> QED BY <1>3, <2>1, <2>2, <2>3
<1> QED BY <1>1, <1>2, <1>3

(* What counting a job does.                                               *)
Raises(t, j) ==
  /\ OwnerOf[j] \in Queues
  /\ pushing[t] = NoPush /\ pushing[t].on = FALSE
  /\ \A u \in Threads \ {t} : pushing'[u] = pushing[u]
  /\ pushing'[t].on = TRUE /\ pushing'[t].job = j
  /\ pushing'[t].first <=> count[OwnerOf[j]] = 0
  /\ pushing'[t].stored = FALSE
  /\ pushing' \in [Threads -> AnyPush \cup {NoPush}]
  /\ count'[OwnerOf[j]] = count[OwnerOf[j]] + 1
  /\ \A q \in Queues \ {OwnerOf[j]} : count'[q] = count[q]
  /\ count' \in [Queues -> Nat]
  /\ UNCHANGED <<jobs, global>>

LEMMA CountFacts ==
  ASSUME TypeOK, NEW t \in Threads, NEW j \in Jobs, NEW only \in BOOLEAN,
         Count(t, j, only)
  PROVE  Raises(t, j)
<1> DEFINE push == [on |-> TRUE, job |-> j, first |-> count[OwnerOf[j]] = 0,
                    pushOnly |-> only, stored |-> FALSE]
<1>1. OwnerOf[j] \in Queues /\ count[OwnerOf[j]] \in Nat
  BY JobQueueAssumption DEF TypeOK
<1>2. push \in AnyPush
  BY <1>1 DEF AnyPush
<1>3. pushing' = [pushing EXCEPT ![t] = push]
  BY DEF Count
<1>4. pushing[t] = NoPush /\ pushing[t].on = FALSE
  BY DEF Count, NoPush
<1>5. pushing'[t] = push /\ \A u \in Threads \ {t} : pushing'[u] = pushing[u]
  BY <1>3 DEF TypeOK
<1>6. pushing' \in [Threads -> AnyPush \cup {NoPush}]
  BY <1>2, <1>3 DEF TypeOK
<1>7. count' = [count EXCEPT ![OwnerOf[j]] = @ + 1] /\ UNCHANGED <<jobs, global>>
  BY DEF Count
<1>8. count' \in [Queues -> Nat]
  BY <1>1, <1>7 DEF TypeOK
<1>9. /\ count'[OwnerOf[j]] = count[OwnerOf[j]] + 1
      /\ \A q \in Queues \ {OwnerOf[j]} : count'[q] = count[q]
  BY <1>1, <1>7 DEF TypeOK
<1>10. pushing'[t].on = TRUE /\ pushing'[t].job = j /\ pushing'[t].stored = FALSE
  BY <1>5
<1>11. pushing'[t].first = (count[OwnerOf[j]] = 0)
  BY <1>5
<1>12. pushing'[t].first <=> count[OwnerOf[j]] = 0
  BY <1>11
<1> QED
  BY <1>1, <1>4, <1>5, <1>6, <1>7, <1>8, <1>9, <1>10, <1>12 DEF Raises

LEMMA StoreFacts ==
  ASSUME TypeOK, NEW t \in Threads, Store(t),
         NEW q, q = OwnerOf[pushing[t].job]
  PROVE  /\ q \in Queues
         /\ pushing[t].job \in Jobs /\ pushing[t].on = TRUE
         /\ pushing[t].stored = FALSE
         /\ \A u \in Threads \ {t} : pushing'[u] = pushing[u]
         /\ pushing[t].first => /\ pushing'[t].on = TRUE
                                /\ pushing'[t].first = TRUE
                                /\ pushing'[t].stored = TRUE
                                /\ pushing'[t].job = pushing[t].job
         /\ ~pushing[t].first => pushing'[t].on = FALSE
         /\ pushing' \in [Threads -> AnyPush \cup {NoPush}]
         /\ jobs'[q] = Append(jobs[q], pushing[t].job)
         /\ Len(jobs'[q]) = Len(jobs[q]) + 1
         /\ \A p \in Queues \ {q} : jobs'[p] = jobs[p]
         /\ jobs' \in [Queues -> Seq(Jobs)]
         /\ UNCHANGED <<count, global, execVars>>
<1> DEFINE push == IF pushing[t].first THEN [pushing[t] EXCEPT !.stored = TRUE]
                   ELSE NoPush
<1>1. /\ pushing[t] \in AnyPush /\ pushing[t].on /\ ~pushing[t].stored
      /\ pushing[t].job \in Jobs /\ q \in Queues
  BY PushType DEF Store
<1>2. /\ push \in AnyPush \cup {NoPush}
      /\ pushing[t].first => /\ push.on = TRUE /\ push.first = TRUE
                             /\ push.stored = TRUE /\ push.job = pushing[t].job
      /\ ~pushing[t].first => push.on = FALSE
  BY <1>1 DEF AnyPush, NoPush
<1>3. pushing' = [pushing EXCEPT ![t] = push]
  BY DEF Store
<1>4. pushing'[t] = push /\ \A u \in Threads \ {t} : pushing'[u] = pushing[u]
  BY <1>3 DEF TypeOK
<1>5. pushing' \in [Threads -> AnyPush \cup {NoPush}]
  BY <1>2, <1>3 DEF TypeOK
<1>6. jobs' = [jobs EXCEPT ![q] = Append(jobs[q], pushing[t].job)]
  BY DEF Store
<1>7. jobs[q] \in Seq(Jobs)
  BY <1>1 DEF TypeOK
<1>8. Append(jobs[q], pushing[t].job) \in Seq(Jobs)
      /\ Len(Append(jobs[q], pushing[t].job)) = Len(jobs[q]) + 1
  BY <1>1, <1>7
<1>9. jobs' \in [Queues -> Seq(Jobs)]
  BY <1>6, <1>8 DEF TypeOK
<1>10. /\ jobs'[q] = Append(jobs[q], pushing[t].job)
       /\ \A p \in Queues \ {q} : jobs'[p] = jobs[p]
  BY <1>1, <1>6 DEF TypeOK
<1> QED
  BY <1>1, <1>2, <1>4, <1>5, <1>8, <1>9, <1>10, PushType DEF Store

LEMMA TakeOrPassFacts ==
  ASSUME TypeOK, NEW t \in Threads, TakeOrPass(t),
         NEW q, q = OwnerOf[pushing[t].job]
  PROVE  /\ q \in Queues
         /\ pushing[t].on = TRUE /\ pushing[t].stored = TRUE
         /\ pushing'[t] = NoPush /\ pushing'[t].on = FALSE
         /\ \A u \in Threads \ {t} : pushing'[u] = pushing[u]
         /\ pushing' \in [Threads -> AnyPush \cup {NoPush}]
         /\ \/ /\ current[t] = NoQueue /\ current'[t] = q
               /\ current' \in [Threads -> Queues \cup {NoQueue}]
               /\ \A u \in Threads \ {t} : current'[u] = current[u]
               /\ step' = [step EXCEPT ![t] = "pop"]
               /\ UNCHANGED global
            \/ /\ global' = Append(global, q)
               /\ UNCHANGED <<current, step>>
         /\ UNCHANGED <<jobs, count, batch, taken>>
<1>1. pushing[t].on /\ pushing[t].stored /\ q \in Queues
  BY PushType DEF TakeOrPass
<1>2. pushing' = [pushing EXCEPT ![t] = NoPush]
  BY DEF TakeOrPass
<1>3. /\ pushing'[t] = NoPush /\ pushing'[t].on = FALSE
      /\ \A u \in Threads \ {t} : pushing'[u] = pushing[u]
      /\ pushing' \in [Threads -> AnyPush \cup {NoPush}]
  BY <1>2 DEF TypeOK, NoPush
<1>4. CASE current[t] = NoQueue /\ ~pushing[t].pushOnly
  <2>1. current' = [current EXCEPT ![t] = q] /\ step' = [step EXCEPT ![t] = "pop"]
        /\ UNCHANGED global
    BY <1>4 DEF TakeOrPass, Goto
  <2>2. current' \in [Threads -> Queues \cup {NoQueue}]
    BY <2>1, <1>1 DEF TypeOK
  <2> QED
    BY <1>1, <1>3, <1>4, <2>1, <2>2, PushType DEF TakeOrPass, TypeOK
<1>5. CASE ~(current[t] = NoQueue /\ ~pushing[t].pushOnly)
  BY <1>1, <1>3, <1>5, PushType DEF TakeOrPass
<1> QED BY <1>4, <1>5
-----------------------------------------------------------------------------
(* Types *)

LEMMA PopAllFacts ==
  ASSUME TypeOK, Shape, NEW t \in Threads, PopAll(t), NEW q, q = current[t]
  PROVE  /\ q \in Queues
         /\ batch[t] = <<>> /\ taken[t] = 0
         /\ batch' = [batch EXCEPT ![t] = jobs[q]]
         /\ taken'[t] = Len(jobs[q])
         /\ \A u \in Threads \ {t} : taken'[u] = taken[u]
         /\ jobs'[q] = <<>>
         /\ \A p \in Queues \ {q} : jobs'[p] = jobs[p]
         /\ jobs' \in [Queues -> Seq(Jobs)]
         /\ batch' \in [Threads -> Seq(Jobs)]
         /\ taken' \in [Threads -> Nat]
         /\ step' = [step EXCEPT ![t] = "run"]
         /\ UNCHANGED <<count, global, current, pushing>>
<1>1. step[t] = "pop" /\ q \in Queues /\ batch[t] = <<>> /\ taken[t] = 0
  BY DEF PopAll, Shape, TypeOK
<1>2. jobs[q] \in Seq(Jobs) /\ Len(jobs[q]) \in Nat
  BY <1>1 DEF TypeOK
<1>3. /\ batch' = [batch EXCEPT ![t] = jobs[q]]
      /\ taken' = [taken EXCEPT ![t] = Len(jobs[q])]
      /\ jobs' = [jobs EXCEPT ![q] = <<>>]
      /\ step' = [step EXCEPT ![t] = "run"]
      /\ UNCHANGED <<count, global, current, pushing>>
  BY DEF PopAll, Goto
<1> <<>> \in Seq(Jobs)
  OBVIOUS
<1>4. jobs' \in [Queues -> Seq(Jobs)]
  BY <1>3 DEF TypeOK
<1>5. batch' \in [Threads -> Seq(Jobs)] /\ taken' \in [Threads -> Nat]
  BY <1>2, <1>3 DEF TypeOK
<1> QED BY <1>1, <1>3, <1>4, <1>5 DEF TypeOK

LEMMA FinishFacts ==
  ASSUME TypeOK, Shape, NEW t \in Threads, FinishJob(t)
  PROVE  /\ current[t] \in Queues
         /\ batch[t] \in Seq(Jobs) /\ batch[t] # <<>>
         /\ Head(batch[t]) \in Jobs /\ Tail(batch[t]) \in Seq(Jobs)
         /\ batch' = [batch EXCEPT ![t] = Tail(batch[t])]
         /\ ran' = [ran EXCEPT ![current[t]] =
                       Append(ran[current[t]], Head(batch[t]))]
         /\ batch' \in [Threads -> Seq(Jobs)]
         /\ ran' \in [Queues -> Seq(Jobs)]
         /\ step[t] = "run"
         /\ UNCHANGED <<queueVars, current, step, taken, pushing>>
<1>1. current[t] \in Queues /\ batch[t] \in Seq(Jobs) /\ batch[t] # <<>>
      /\ step[t] = "run"
  BY DEF FinishJob, Shape, TypeOK
<1>2. Head(batch[t]) \in Jobs /\ Tail(batch[t]) \in Seq(Jobs)
  BY <1>1
<1>3. /\ batch' = [batch EXCEPT ![t] = Tail(batch[t])]
      /\ ran' = [ran EXCEPT ![current[t]] =
                    Append(ran[current[t]], Head(batch[t]))]
      /\ UNCHANGED <<queueVars, current, step, taken, pushing>>
  BY DEF FinishJob
<1>4. ran[current[t]] \in Seq(Jobs)
  BY <1>1 DEF TypeOK
<1>5. Append(ran[current[t]], Head(batch[t])) \in Seq(Jobs)
  BY <1>2, <1>4
<1>6. batch' \in [Threads -> Seq(Jobs)] /\ ran' \in [Queues -> Seq(Jobs)]
  BY <1>1, <1>2, <1>3, <1>5 DEF TypeOK
<1> QED BY <1>1, <1>2, <1>3, <1>6

(***************************************************************************)
(* The only place where a count could become negative: what a thread took  *)
(* out is part of the count.                                               *)
(***************************************************************************)
LEMMA SubtractFacts ==
  ASSUME TypeOK, Shape, Counted, NEW t \in Threads, Subtract(t),
         NEW q, q = current[t]
  PROVE  /\ q \in Queues
         /\ batch[t] = <<>>
         /\ count[q] = Len(jobs[q]) + taken[t] + Cardinality(Announced(q))
         /\ count' \in [Queues -> Nat]
         /\ count'[q] = count[q] - taken[t]
         /\ \A p \in Queues \ {q} : count'[p] = count[p]
         /\ taken' \in [Threads -> Nat]
         /\ taken'[t] = 0
         /\ \A u \in Threads \ {t} : taken'[u] = taken[u]
         /\ \/ /\ count[q] = taken[t]
               /\ current' = [current EXCEPT ![t] = NoQueue]
               /\ step' = [step EXCEPT ![t] = "idle"]
            \/ /\ count[q] # taken[t]
               /\ current' = current
               /\ step' = [step EXCEPT ![t] = "clock"]
         /\ UNCHANGED <<jobs, global, batch, pushing>>
<1>1. step[t] = "run" /\ q \in Queues /\ batch[t] = <<>> /\ taken[t] \in Nat
  BY DEF Subtract, Shape, TypeOK
<1>2. count[q] = Len(jobs[q]) + taken[t] + Cardinality(Announced(q))
  BY <1>1 DEF Counted
<1>3. Len(jobs[q]) \in Nat /\ count[q] \in Nat
  BY <1>1 DEF TypeOK
<1>4. Cardinality(Announced(q)) \in Nat
  BY AnnouncedFinite
<1>5. count[q] - taken[t] \in Nat
  BY <1>1, <1>2, <1>3, <1>4
<1>6. /\ count' = [count EXCEPT ![q] = count[q] - taken[t]]
      /\ taken' = [taken EXCEPT ![t] = 0]
      /\ UNCHANGED <<jobs, global, batch, pushing>>
  BY DEF Subtract
<1>7. count' \in [Queues -> Nat] /\ taken' \in [Threads -> Nat]
  BY <1>5, <1>6 DEF TypeOK
<1>8. \/ /\ count[q] = taken[t]
         /\ current' = [current EXCEPT ![t] = NoQueue]
         /\ step' = [step EXCEPT ![t] = "idle"]
      \/ /\ count[q] # taken[t]
         /\ current' = current
         /\ step' = [step EXCEPT ![t] = "clock"]
  BY DEF Subtract, Goto
<1> QED BY <1>1, <1>2, <1>6, <1>7, <1>8 DEF TypeOK

LEMMA GoOnTypes ==
  ASSUME TypeOK, Shape, Counted, NEW t \in Threads, GoOn(t)
  PROVE  TypeOK'
<1>1. CASE Store(t)
  <2>1. UNCHANGED <<count, global, execVars, fresh, timerVars, ran>>
    BY <1>1 DEF Store
  <2>2. jobs' \in [Queues -> Seq(Jobs)]
        /\ pushing' \in [Threads -> AnyPush \cup {NoPush}]
    BY <1>1, StoreFacts
  <2> QED BY <2>1, <2>2 DEF TypeOK, execVars, timerVars
<1>2. CASE TakeOrPass(t)
  <2> DEFINE q == OwnerOf[pushing[t].job]
  <2>1. UNCHANGED <<jobs, count, batch, taken, fresh, timerVars, ran>>
    BY <1>2 DEF TakeOrPass
  <2>2. /\ q \in Queues
        /\ pushing' \in [Threads -> AnyPush \cup {NoPush}]
        /\ \/ /\ current' \in [Threads -> Queues \cup {NoQueue}]
              /\ step' = [step EXCEPT ![t] = "pop"]
              /\ UNCHANGED global
           \/ global' = Append(global, q) /\ UNCHANGED <<current, step>>
    BY <1>2, TakeOrPassFacts
  <2>3. step' \in [Threads -> Steps]
    BY <2>2 DEF TypeOK, Steps
  <2>4. Append(global, q) \in Seq(Queues)
    BY <2>2 DEF TypeOK
  <2>5. global' \in Seq(Queues)
    BY <2>2, <2>4 DEF TypeOK
  <2>6. current' \in [Threads -> Queues \cup {NoQueue}]
    BY <2>2 DEF TypeOK
  <2> QED BY <2>1, <2>2, <2>3, <2>5, <2>6 DEF TypeOK, timerVars
<1>3. CASE PopAll(t)
  <2>1. UNCHANGED <<count, global, current, pushing, fresh, timerVars, ran>>
    BY <1>3 DEF PopAll
  <2>2. /\ jobs' \in [Queues -> Seq(Jobs)] /\ batch' \in [Threads -> Seq(Jobs)]
        /\ taken' \in [Threads -> Nat] /\ step' = [step EXCEPT ![t] = "run"]
    BY <1>3, PopAllFacts
  <2>3. step' \in [Threads -> Steps]
    BY <2>2 DEF TypeOK, Steps
  <2> QED BY <2>1, <2>2, <2>3 DEF TypeOK, timerVars
<1>4. CASE FinishJob(t)
  <2>1. UNCHANGED <<queueVars, current, step, taken, pushing, fresh, timerVars>>
    BY <1>4 DEF FinishJob
  <2>2. batch' \in [Threads -> Seq(Jobs)] /\ ran' \in [Queues -> Seq(Jobs)]
    BY <1>4, FinishFacts
  <2> QED BY <2>1, <2>2 DEF TypeOK, timerVars, queueVars
<1>5. CASE Subtract(t)
  <2>1. UNCHANGED <<jobs, global, batch, pushing, fresh, timerVars, ran>>
    BY <1>5 DEF Subtract
  <2>2. /\ count' \in [Queues -> Nat] /\ taken' \in [Threads -> Nat]
        /\ \/ /\ current' = [current EXCEPT ![t] = NoQueue]
              /\ step' = [step EXCEPT ![t] = "idle"]
           \/ current' = current /\ step' = [step EXCEPT ![t] = "clock"]
    BY <1>5, SubtractFacts
  <2>3. step' \in [Threads -> Steps]
        /\ current' \in [Threads -> Queues \cup {NoQueue}]
    BY <2>2 DEF TypeOK, Steps
  <2> QED BY <2>1, <2>2, <2>3 DEF TypeOK, timerVars
<1>6. CASE KeepGoing(t)
  <2>1. UNCHANGED <<queueVars, current, batch, taken, pushing, fresh, timerVars, ran>>
        /\ step' = [step EXCEPT ![t] = "pop"]
    BY <1>6 DEF KeepGoing, Goto
  <2>2. step' \in [Threads -> Steps]
    BY <2>1 DEF TypeOK, Steps
  <2> QED BY <2>1, <2>2 DEF TypeOK, timerVars, queueVars
<1>7. CASE HandOver(t)
  <2>1. /\ UNCHANGED <<jobs, count, batch, taken, pushing, fresh, timerVars, ran>>
        /\ step' = [step EXCEPT ![t] = "idle"]
        /\ current' = [current EXCEPT ![t] = NoQueue]
        /\ global' = Append(global, current[t])
    BY <1>7 DEF HandOver, Goto
  <2>2. current[t] \in Queues
    BY <1>7 DEF HandOver, Shape, TypeOK
  <2>3. step' \in [Threads -> Steps] /\ global' \in Seq(Queues)
        /\ current' \in [Threads -> Queues \cup {NoQueue}]
    BY <2>1, <2>2 DEF TypeOK, Steps
  <2> QED BY <2>1, <2>3 DEF TypeOK, timerVars
<1>8. ASSUME NEW j \in Jobs, PushDue(t, j)
      PROVE  TypeOK'
  <2>1. /\ UNCHANGED <<execVars, fresh, reserved, distributing, ran>>
        /\ due' = [due EXCEPT ![t] = due[t] \ {j}]
        /\ Count(t, j, TRUE)
    BY <1>8 DEF PushDue
  <2>2. due' \in [Threads -> SUBSET Jobs]
    BY <2>1 DEF TypeOK
  <2> QED BY <2>1, <2>2, CountFacts DEF TypeOK, execVars, Raises
<1>9. CASE EndDistribute(t)
  <2>1. /\ UNCHANGED <<queueVars, current, batch, taken, pushing, fresh,
                       reserved, due, ran>>
        /\ step' = [step EXCEPT ![t] = "idle"] /\ distributing' = FALSE
    BY <1>9 DEF EndDistribute, Goto
  <2>2. step' \in [Threads -> Steps]
    BY <2>1 DEF TypeOK, Steps
  <2> QED BY <2>1, <2>2 DEF TypeOK, queueVars
<1> QED
  BY <1>1, <1>2, <1>3, <1>4, <1>5, <1>6, <1>7, <1>8, <1>9 DEF GoOn

LEMMA NextTypes == TypeOK /\ Shape /\ Counted /\ [Next]_vars => TypeOK'
<1> SUFFICES ASSUME TypeOK, Shape, Counted, [Next]_vars
             PROVE  TypeOK'
  OBVIOUS
<1>1. ASSUME NEW t \in Threads, GoOn(t) PROVE TypeOK'
  BY <1>1, GoOnTypes
<1>2. ASSUME NEW t \in Threads, NEW j \in Jobs, DoAsync(t, j) PROVE TypeOK'
  <2>1. UNCHANGED <<execVars, timerVars, ran>> /\ fresh' \subseteq Jobs
        /\ Count(t, j, FALSE)
    BY <1>2 DEF DoAsync, TypeOK
  <2> QED BY <2>1, CountFacts DEF TypeOK, execVars, timerVars, Raises
<1>3. ASSUME NEW t \in Threads, NEW j \in Jobs, DoTimer(t, j) PROVE TypeOK'
  BY <1>3 DEF DoTimer, TypeOK, queueVars, execVars
<1>4. ASSUME NEW t \in Workers, TakeGlobal(t) PROVE TypeOK'
  <2>1. /\ UNCHANGED <<jobs, count, batch, taken, pushing, fresh, timerVars, ran>>
        /\ step' = [step EXCEPT ![t] = "pop"] /\ global # <<>>
        /\ current' = [current EXCEPT ![t] = Head(global)]
        /\ global' = Tail(global)
    BY <1>4 DEF TakeGlobal, Goto
  <2>2. Head(global) \in Queues /\ global' \in Seq(Queues)
    BY <2>1 DEF TypeOK
  <2>3. step' \in [Threads -> Steps]
        /\ current' \in [Threads -> Queues \cup {NoQueue}]
    BY <2>1, <2>2 DEF TypeOK, Steps
  <2> QED BY <2>1, <2>2, <2>3 DEF TypeOK, timerVars
<1>5. ASSUME NEW t \in Workers, NEW items \in SUBSET reserved, TakeDue(t, items)
      PROVE  TypeOK'
  <2>1. /\ UNCHANGED <<queueVars, current, batch, taken, pushing, fresh, ran>>
        /\ step' = [step EXCEPT ![t] = "distribute"] /\ distributing' = TRUE
        /\ due' = [due EXCEPT ![t] = items]
        /\ reserved' = reserved \ items
    BY <1>5 DEF TakeDue, Goto
  <2>2. step' \in [Threads -> Steps] /\ reserved' \subseteq Jobs
        /\ due' \in [Threads -> SUBSET Jobs]
    BY <2>1 DEF TypeOK, Steps
  <2> QED BY <2>1, <2>2 DEF TypeOK, queueVars
<1>6. CASE UNCHANGED vars
  BY <1>6 DEF TypeOK, vars, queueVars, execVars, timerVars
<1> QED
  BY <1>1, <1>2, <1>3, <1>4, <1>5, <1>6, JobQueueAssumption DEF Next, TimersFire
-----------------------------------------------------------------------------
(* The threads *)

LEMMA NextShape == TypeOK /\ Shape /\ [Next]_vars => Shape'
<1> SUFFICES ASSUME TypeOK, Shape, [Next]_vars, NEW u \in Threads
             PROVE  /\ current'[u] # NoQueue <=> step'[u] \in {"pop", "run", "clock"}
                    /\ step'[u] # "run" => batch'[u] = <<>> /\ taken'[u] = 0
                    /\ pushing'[u].on /\ pushing'[u].stored => pushing'[u].first
  BY DEF Shape
<1> DEFINE Fits ==
             /\ current'[u] # NoQueue <=> step'[u] \in {"pop", "run", "clock"}
             /\ step'[u] # "run" => batch'[u] = <<>> /\ taken'[u] = 0
           Sound == pushing'[u].on /\ pushing'[u].stored => pushing'[u].first
<1>a. /\ current[u] # NoQueue <=> step[u] \in {"pop", "run", "clock"}
      /\ step[u] # "run" => batch[u] = <<>> /\ taken[u] = 0
      /\ pushing[u].on /\ pushing[u].stored => pushing[u].first
  BY DEF Shape
<1>b. ASSUME NEW t \in Threads, NEW j \in Jobs, Raises(t, j), UNCHANGED execVars
      PROVE  Fits /\ Sound
  BY <1>a, <1>b DEF execVars, Raises
<1>1. ASSUME NEW t \in Threads, Store(t) PROVE Fits /\ Sound
  <2>1. UNCHANGED execVars
    BY <1>1 DEF Store
  <2>2. u # t => pushing'[u] = pushing[u]
    BY <1>1, StoreFacts
  <2>3. u = t => Sound
    BY <1>1, StoreFacts, PushType
  <2> QED BY <1>a, <2>1, <2>2, <2>3 DEF execVars
<1>2. ASSUME NEW t \in Threads, TakeOrPass(t) PROVE Fits /\ Sound
  <2> DEFINE q == OwnerOf[pushing[t].job]
  <2>0. q \in Queues /\ q # NoQueue
    BY <1>2, TakeOrPassFacts, JobQueueAssumption
  <2>1. /\ pushing'[t].on = FALSE
        /\ \A v \in Threads \ {t} : pushing'[v] = pushing[v]
        /\ UNCHANGED <<batch, taken>>
        /\ \/ /\ current[t] = NoQueue /\ current'[t] = q
              /\ \A v \in Threads \ {t} : current'[v] = current[v]
              /\ step' = [step EXCEPT ![t] = "pop"]
           \/ UNCHANGED <<current, step>>
    BY <1>2, TakeOrPassFacts
  <2>2. Sound
    BY <1>a, <2>1
  <2>3. CASE UNCHANGED <<current, step>>
    BY <1>a, <2>1, <2>2, <2>3
  <2>4. CASE /\ current[t] = NoQueue /\ current'[t] = q
             /\ \A v \in Threads \ {t} : current'[v] = current[v]
             /\ step' = [step EXCEPT ![t] = "pop"]
    <3>1. u # t => Fits
      BY <1>a, <2>1, <2>4 DEF TypeOK
    <3>2. u = t => step'[u] = "pop" /\ step[u] # "run"
      BY <1>a, <2>4 DEF TypeOK
    <3>3. u = t => Fits
      BY <1>a, <2>0, <2>1, <2>4, <3>2
    <3> QED BY <2>2, <3>1, <3>3
  <2> QED BY <2>1, <2>3, <2>4
<1>3. ASSUME NEW t \in Threads, PopAll(t) PROVE Fits /\ Sound
  <2>1. /\ step[t] = "pop" /\ step' = [step EXCEPT ![t] = "run"]
        /\ batch' = [batch EXCEPT ![t] = jobs[current[t]]]
        /\ \A v \in Threads \ {t} : taken'[v] = taken[v]
        /\ UNCHANGED <<current, pushing>>
    BY <1>3, PopAllFacts DEF PopAll
  <2>2. u # t => step'[u] = step[u] /\ batch'[u] = batch[u] /\ taken'[u] = taken[u]
    BY <2>1 DEF TypeOK
  <2>3. u = t => step'[u] = "run" /\ step[u] = "pop"
    BY <2>1 DEF TypeOK
  <2> QED BY <1>a, <2>1, <2>2, <2>3
<1>4. ASSUME NEW t \in Threads, FinishJob(t) PROVE Fits /\ Sound
  <2>1. /\ step[t] = "run" /\ batch' = [batch EXCEPT ![t] = Tail(batch[t])]
        /\ UNCHANGED <<current, step, taken, pushing>>
    BY <1>4 DEF FinishJob
  <2>2. u # t => batch'[u] = batch[u]
    BY <2>1 DEF TypeOK
  <2> QED BY <1>a, <2>1, <2>2
<1>5. ASSUME NEW t \in Threads, Subtract(t) PROVE Fits /\ Sound
  <2>1. /\ step[t] = "run" /\ batch[t] = <<>>
        /\ taken' = [taken EXCEPT ![t] = 0]
        /\ UNCHANGED <<batch, pushing>>
        /\ \/ /\ current' = [current EXCEPT ![t] = NoQueue]
              /\ step' = [step EXCEPT ![t] = "idle"]
           \/ current' = current /\ step' = [step EXCEPT ![t] = "clock"]
    BY <1>5 DEF Subtract, Goto
  <2>2. u # t => /\ step'[u] = step[u] /\ taken'[u] = taken[u]
                 /\ current'[u] = current[u]
    BY <2>1 DEF TypeOK
  <2>3. u = t => taken'[u] = 0 /\ batch'[u] = <<>>
    BY <2>1 DEF TypeOK
  <2>4. u = t => \/ step'[u] = "idle" /\ current'[u] = NoQueue
                 \/ step'[u] = "clock" /\ current'[u] = current[u] /\ step[u] = "run"
    BY <2>1 DEF TypeOK
  <2> QED BY <1>a, <2>1, <2>2, <2>3, <2>4
<1>6. ASSUME NEW t \in Threads, KeepGoing(t) PROVE Fits /\ Sound
  <2>1. /\ step[t] = "clock" /\ step' = [step EXCEPT ![t] = "pop"]
        /\ UNCHANGED <<current, batch, taken, pushing>>
    BY <1>6 DEF KeepGoing, Goto
  <2>2. (u # t => step'[u] = step[u]) /\ (u = t => step'[u] = "pop" /\ step[u] = "clock")
    BY <2>1 DEF TypeOK
  <2> QED BY <1>a, <2>1, <2>2
<1>7. ASSUME NEW t \in Threads, HandOver(t) PROVE Fits /\ Sound
  <2>1. /\ step[t] = "clock" /\ step' = [step EXCEPT ![t] = "idle"]
        /\ current' = [current EXCEPT ![t] = NoQueue]
        /\ UNCHANGED <<batch, taken, pushing>>
    BY <1>7 DEF HandOver, Goto
  <2>2. /\ u # t => step'[u] = step[u] /\ current'[u] = current[u]
        /\ u = t => step'[u] = "idle" /\ step[u] = "clock" /\ current'[u] = NoQueue
    BY <2>1 DEF TypeOK
  <2> QED BY <1>a, <2>1, <2>2
<1>8. ASSUME NEW t \in Threads, NEW j \in Jobs, PushDue(t, j) PROVE Fits /\ Sound
  BY <1>8, <1>b, CountFacts DEF PushDue
<1>9. ASSUME NEW t \in Threads, EndDistribute(t) PROVE Fits /\ Sound
  <2>1. /\ step[t] = "distribute" /\ step' = [step EXCEPT ![t] = "idle"]
        /\ UNCHANGED <<current, batch, taken, pushing>>
    BY <1>9 DEF EndDistribute, Goto
  <2>2. /\ u # t => step'[u] = step[u]
        /\ u = t => step'[u] = "idle" /\ step[u] = "distribute"
    BY <2>1 DEF TypeOK
  <2> QED BY <1>a, <2>1, <2>2
<1>10. ASSUME NEW t \in Threads, NEW j \in Jobs, DoAsync(t, j) PROVE Fits /\ Sound
  BY <1>10, <1>b, CountFacts DEF DoAsync
<1>11. ASSUME NEW t \in Threads, NEW j \in Jobs, DoTimer(t, j) PROVE Fits /\ Sound
  BY <1>11, <1>a DEF DoTimer, execVars
<1>12. ASSUME NEW t \in Threads, TakeGlobal(t) PROVE Fits /\ Sound
  <2>1. /\ step[t] = "idle" /\ step' = [step EXCEPT ![t] = "pop"]
        /\ current' = [current EXCEPT ![t] = Head(global)]
        /\ global # <<>> /\ UNCHANGED <<batch, taken, pushing>>
    BY <1>12 DEF TakeGlobal, Goto
  <2>2. Head(global) \in Queues
    BY <2>1 DEF TypeOK
  <2>3. Head(global) # NoQueue
    BY <2>2, JobQueueAssumption
  <2>4. /\ u # t => step'[u] = step[u] /\ current'[u] = current[u]
        /\ u = t => step'[u] = "pop" /\ step[u] = "idle" /\ current'[u] # NoQueue
    BY <2>1, <2>3 DEF TypeOK
  <2> QED BY <1>a, <2>1, <2>4
<1>13. ASSUME NEW t \in Threads, NEW items, TakeDue(t, items) PROVE Fits /\ Sound
  <2>1. /\ step[t] = "idle" /\ step' = [step EXCEPT ![t] = "distribute"]
        /\ UNCHANGED <<current, batch, taken, pushing>>
    BY <1>13 DEF TakeDue, Goto
  <2>2. /\ u # t => step'[u] = step[u]
        /\ u = t => step'[u] = "distribute" /\ step[u] = "idle"
    BY <2>1 DEF TypeOK
  <2> QED BY <1>a, <2>1, <2>2
<1>14. ASSUME UNCHANGED vars PROVE Fits /\ Sound
  BY <1>a, <1>14 DEF vars, execVars
<1> SUFFICES Fits /\ Sound
  BY DEF Fits, Sound
<1> HIDE DEF Fits, Sound
<1>15. ASSUME NEW t \in Threads, GoOn(t) PROVE Fits /\ Sound
  BY <1>1, <1>2, <1>3, <1>4, <1>5, <1>6, <1>7, <1>8, <1>9, <1>15 DEF GoOn
<1>16. ASSUME NEW t \in Workers, TakeGlobal(t) PROVE Fits /\ Sound
  BY <1>12, <1>16, JobQueueAssumption
<1>17. CASE TimersFire
  <2>1. PICK t \in Workers, items \in (SUBSET reserved) \ {{}} : TakeDue(t, items)
    BY <1>17 DEF TimersFire
  <2>2. t \in Threads
    BY JobQueueAssumption
  <2> QED BY <1>13, <2>1, <2>2
<1>18. CASE \E t \in Threads, j \in Jobs : DoAsync(t, j) \/ DoTimer(t, j)
  BY <1>10, <1>11, <1>18
<1> QED BY <1>14, <1>15, <1>16, <1>17, <1>18 DEF Next
-----------------------------------------------------------------------------
(* The tokens *)

LEMMA TokensStay ==
  ASSUME Tokens, UNCHANGED <<count, global, current>>,
         \A u \in Threads, p \in Queues : PushHolds(u, p)' <=> PushHolds(u, p),
         TypeOK
  PROVE  Tokens'
<1>1. \A u \in Threads, p \in Queues : Responsible(u, p)' <=> Responsible(u, p)
  BY DEF Responsible, PushHolds
<1>2. \A p \in Queues : Owned(p)' <=> Owned(p)
  BY <1>1 DEF Owned, InGlobal
<1>3. \A i \in 1 .. Len(global) : global[i] \in Queues
  BY DEF TypeOK
<1> QED BY <1>1, <1>2, <1>3 DEF Tokens, OneExecutor

LEMMA SamePush ==
  ASSUME UNCHANGED pushing
  PROVE  \A u \in Threads, p \in Queues : PushHolds(u, p)' <=> PushHolds(u, p)
BY DEF PushHolds

(* A count that is positive only rose: nobody becomes responsible.         *)
LEMMA CountTokens ==
  ASSUME TypeOK, Tokens, NEW t \in Threads, NEW j \in Jobs, Raises(t, j),
         UNCHANGED current
  PROVE  Tokens'
<1> DEFINE q == OwnerOf[j]
<1>1. /\ q \in Queues /\ count[q] \in Nat
      /\ count'[q] = count[q] + 1
      /\ \A p \in Queues \ {q} : count'[p] = count[p]
      /\ global' = global
  BY DEF TypeOK, Raises
<1>2. \A u \in Threads, p \in Queues :
        PushHolds(u, p)' <=> PushHolds(u, p) \/ (u = t /\ p = q /\ count[q] = 0)
  <2>1. /\ pushing[t].on = FALSE
        /\ \A u \in Threads \ {t} : pushing'[u] = pushing[u]
        /\ pushing'[t].on = TRUE /\ pushing'[t].job = j
        /\ pushing'[t].first <=> count[q] = 0
    BY DEF Raises
  <2>2. \A p \in Queues : PushHolds(t, p)' <=> p = q /\ count[q] = 0
    BY <2>1 DEF PushHolds
  <2>3. \A p \in Queues : ~PushHolds(t, p)
    BY <2>1 DEF PushHolds
  <2>4. \A u \in Threads \ {t}, p \in Queues : PushHolds(u, p)' <=> PushHolds(u, p)
    BY <2>1 DEF PushHolds
  <2> QED BY <2>2, <2>3, <2>4
<1>3. \A u \in Threads, p \in Queues :
        Responsible(u, p) <=> current[u] = p \/ PushHolds(u, p)
  BY DEF Responsible, PushHolds
<1>4. \A u \in Threads, p \in Queues :
        Responsible(u, p)' <=> Responsible(u, p) \/ (u = t /\ p = q /\ count[q] = 0)
  BY <1>2, <1>3 DEF Responsible, PushHolds
<1>5. \A p \in Queues : Owned(p)' <=> Owned(p) \/ (p = q /\ count[q] = 0)
  BY <1>1, <1>4 DEF Owned, InGlobal
<1>6. count[q] = 0 => ~Owned(q)
  BY <1>1 DEF Tokens
<1>7. count[q] = 0 => /\ \A u \in Threads : current[u] # q /\ ~PushHolds(u, q)
                      /\ \A i \in 1 .. Len(global) : global[i] # q
  BY <1>1, <1>3, <1>6 DEF Owned, InGlobal
<1>8. \A i \in 1 .. Len(global) : global[i] \in Queues
  BY DEF TypeOK
<1>9. OneExecutor'
  BY DEF Tokens, OneExecutor
<1>10. \A u, v \in Threads, p \in Queues : PushHolds(u, p)' /\ PushHolds(v, p)' => u = v
  BY <1>2, <1>7 DEF Tokens
<1>11. \A u, v \in Threads : \A p \in Queues : current[u] = p => ~PushHolds(v, p)'
  BY <1>2, <1>7 DEF Tokens
<1>12. \A i \in 1 .. Len(global), u \in Threads : ~Responsible(u, global[i])'
  BY <1>1, <1>4, <1>7, <1>8 DEF Tokens
<1>13. \A p \in Queues : count'[p] > 0 <=> Owned(p)'
  <2>1. \A p \in Queues : count[p] > 0 <=> Owned(p)
    BY DEF Tokens
  <2>2. \A p \in Queues \ {q} : Owned(p)' <=> Owned(p)
    BY <1>5
  <2>3. count'[q] > 0
    BY <1>1
  <2>4. Owned(q)'
    BY <1>1, <1>5, <2>1
  <2> QED BY <1>1, <2>1, <2>2, <2>3, <2>4
<1> QED
  BY <1>1, <1>9, <1>10, <1>11, <1>12, <1>13 DEF Tokens

LEMMA StoreTokens ==
  ASSUME TypeOK, Tokens, NEW t \in Threads, Store(t)
  PROVE  Tokens'
<1>1. \A u \in Threads, p \in Queues : PushHolds(u, p)' <=> PushHolds(u, p)
  BY StoreFacts, PushType DEF PushHolds
<1> QED BY <1>1, TokensStay, StoreFacts DEF execVars

(* What the GlobalQueue holds after a push.                                *)
LEMMA GlobalGrows ==
  ASSUME TypeOK, NEW q \in Queues, global' = Append(global, q)
  PROVE  /\ Len(global) \in Nat /\ Len(global') = Len(global) + 1
         /\ global'[Len(global) + 1] = q
         /\ \A i \in 1 .. Len(global) : global'[i] = global[i] /\ global[i] \in Queues
         /\ \A i \in 1 .. Len(global') : i \in 1 .. Len(global) \/ i = Len(global) + 1
<1>1. global \in Seq(Queues) /\ Len(global) \in Nat
  BY DEF TypeOK
<1> QED BY <1>1

(***************************************************************************)
(* A thread gives its token to the GlobalQueue: the rest of Tokens follows *)
(* from what the step does to the responsibilities.                        *)
(***************************************************************************)
LEMMA TokenToGlobal ==
  ASSUME TypeOK, Tokens, NEW t \in Threads, NEW q \in Queues, Responsible(t, q),
         global' = Append(global, q), count' = count,
         \A u \in Threads, p \in Queues :
           /\ current'[u] = p => current[u] = p
           /\ PushHolds(u, p)' => PushHolds(u, p)
           /\ Responsible(u, p)' <=> Responsible(u, p) /\ ~(u = t /\ p = q),
         current' \in [Threads -> Queues \cup {NoQueue}]
  PROVE  Tokens'
<1>1. \A i \in 1 .. Len(global) : global[i] # q
  BY DEF Tokens
<1>2. \A u \in Threads : Responsible(u, q) => u = t
  BY DEF Tokens, OneExecutor, Responsible, PushHolds, TypeOK, JobQueueAssumption
<1>3. OneExecutor'
  BY DEF Tokens, OneExecutor
<1>4. \A u, v \in Threads, p \in Queues : PushHolds(u, p)' /\ PushHolds(v, p)' => u = v
  BY DEF Tokens
<1>5. \A u, v \in Threads : \A p \in Queues : current'[u] = p => ~PushHolds(v, p)'
  BY DEF Tokens
<1>6. \A i, k \in 1 .. Len(global') : global'[i] = global'[k] => i = k
  BY <1>1, GlobalGrows DEF Tokens
<1>7. \A i \in 1 .. Len(global'), u \in Threads : ~Responsible(u, global[i])'
  <2> SUFFICES ASSUME NEW i \in 1 .. Len(global'), NEW u \in Threads,
                      NEW p \in Queues, global'[i] = p, Responsible(u, p)'
               PROVE  FALSE
    <3>1. \A i \in 1 .. Len(global') : global'[i] \in Queues
      BY GlobalGrows
    <3> QED BY <3>1
  <2>1. Responsible(u, p) /\ ~(u = t /\ p = q)
    OBVIOUS
  <2>2. CASE i \in 1 .. Len(global)
    <3>1. global[i] = p
      BY <2>2, GlobalGrows
    <3> QED BY <2>1, <2>2, <3>1 DEF Tokens
  <2>3. CASE i = Len(global) + 1
    <3>1. p = q
      BY <2>3, GlobalGrows
    <3> QED BY <1>2, <2>1, <3>1
  <2> QED BY <2>2, <2>3, GlobalGrows
<1>8. \A p \in Queues : InGlobal(p)' <=> InGlobal(p) \/ p = q
  BY GlobalGrows DEF InGlobal
<1>9. \A p \in Queues : Owned(p)' <=> Owned(p)
  BY <1>2, <1>8 DEF Owned
<1>10. \A p \in Queues : count'[p] > 0 <=> Owned(p)'
  BY <1>9 DEF Tokens
<1> QED BY <1>3, <1>4, <1>5, <1>6, <1>7, <1>10 DEF Tokens
LEMMA GlobalStays ==
  ASSUME TypeOK, Tokens, global' = global,
         \A u \in Threads, p \in Queues : Responsible(u, p)' => Responsible(u, p)
  PROVE  \A i \in 1 .. Len(global), u \in Threads : ~Responsible(u, global[i])'
<1> SUFFICES ASSUME NEW i \in 1 .. Len(global), NEW u \in Threads
             PROVE  ~Responsible(u, global[i])'
  OBVIOUS
<1>1. PICK p \in Queues : p = global[i]
  BY DEF TypeOK
<1>2. ~Responsible(u, p)
  BY <1>1 DEF Tokens
<1>3. ~Responsible(u, p)'
  BY <1>2
<1>4. global'[i] = p
  BY <1>1
<1> QED BY <1>3, <1>4 DEF Responsible

LEMMA TakeOrPassTokens ==
  ASSUME TypeOK, Shape, Tokens, NEW t \in Threads, TakeOrPass(t),
         NEW q, q = OwnerOf[pushing[t].job]
  PROVE  Tokens'
<1>1. q \in Queues /\ q # NoQueue
  BY TakeOrPassFacts, JobQueueAssumption
<1>2. /\ pushing[t].on = TRUE /\ pushing[t].stored = TRUE
      /\ pushing'[t].on = FALSE
      /\ \A u \in Threads \ {t} : pushing'[u] = pushing[u]
      /\ count' = count
  BY TakeOrPassFacts
<1>3. PushHolds(t, q)
  BY <1>2 DEF Shape, PushHolds
<1>4. \A u \in Threads, p \in Queues : PushHolds(u, p)' <=> PushHolds(u, p) /\ u # t
  BY <1>2 DEF PushHolds
<1>5. \A p \in Queues : PushHolds(t, p) => p = q
  BY DEF PushHolds
<1>6. CASE current[t] = NoQueue /\ ~pushing[t].pushOnly
  <2>1. /\ current'[t] = q /\ current[t] = NoQueue
        /\ \A u \in Threads \ {t} : current'[u] = current[u]
        /\ global' = global
    BY <1>1, <1>6 DEF TakeOrPass, TypeOK
  <2>2. \A u \in Threads, p \in Queues : Responsible(u, p)' <=> Responsible(u, p)
    <3>1. \A p \in Queues : Responsible(t, p) <=> p = q
      BY <1>3, <1>5, <2>1, JobQueueAssumption DEF Responsible, PushHolds
    <3>2. \A p \in Queues : Responsible(t, p)' <=> p = q
      BY <1>2, <2>1 DEF Responsible
    <3>3. \A u \in Threads \ {t}, p \in Queues :
            Responsible(u, p)' <=> Responsible(u, p)
      BY <1>2, <2>1 DEF Responsible
    <3> QED BY <3>1, <3>2, <3>3
  <2>3. \A u \in Threads : current[u] # q
    BY <1>1, <1>3 DEF Tokens
  <2>4. OneExecutor'
    BY <1>1, <2>1, <2>3 DEF Tokens, OneExecutor
  <2>5. \A u, v \in Threads, p \in Queues : PushHolds(u, p)' /\ PushHolds(v, p)' => u = v
    BY <1>4 DEF Tokens
  <2>6. \A u \in Threads : ~PushHolds(u, q)'
    BY <1>1, <1>3, <1>4 DEF Tokens
  <2>7. \A u, v \in Threads : \A p \in Queues : current'[u] = p => ~PushHolds(v, p)'
    BY <1>4, <2>1, <2>6 DEF Tokens
  <2>8. \A i \in 1 .. Len(global), u \in Threads : ~Responsible(u, global[i])'
    BY <2>1, <2>2, GlobalStays
  <2>9. \A p \in Queues : count'[p] > 0 <=> Owned(p)'
    BY <1>2, <2>1, <2>2 DEF Tokens, Owned, InGlobal
  <2> QED BY <2>1, <2>4, <2>5, <2>7, <2>8, <2>9 DEF Tokens
<1>7. CASE ~(current[t] = NoQueue /\ ~pushing[t].pushOnly)
  <2>1. global' = Append(global, q) /\ current' = current
    BY <1>7 DEF TakeOrPass
  <2>2. Responsible(t, q)
    BY <1>3 DEF Responsible, PushHolds
  <2>3. \A u \in Threads, p \in Queues :
          /\ Responsible(u, p) <=> current[u] = p \/ PushHolds(u, p)
          /\ Responsible(u, p)' <=> current'[u] = p \/ PushHolds(u, p)'
    BY DEF Responsible, PushHolds
  <2>4. current[t] # q
    BY <1>1, <1>3 DEF Tokens
  <2>5. \A u \in Threads, p \in Queues :
          Responsible(u, p)' <=> Responsible(u, p) /\ ~(u = t /\ p = q)
    BY <1>3, <1>4, <1>5, <2>1, <2>3, <2>4
  <2>6. current' \in [Threads -> Queues \cup {NoQueue}]
    BY <2>1 DEF TypeOK
  <2> QED BY <1>1, <1>2, <1>4, <2>1, <2>2, <2>5, <2>6, TokenToGlobal
<1> QED BY <1>6, <1>7

(***************************************************************************)
(* The thread either keeps the token, and the count stays positive, or     *)
(* gives it up with the count at zero.                                     *)
(***************************************************************************)
LEMMA SubtractTokens ==
  ASSUME TypeOK, Shape, Counted, Tokens, NEW t \in Threads, Subtract(t),
         NEW q, q = current[t]
  PROVE  Tokens'
<1>1. /\ q \in Queues /\ count[q] \in Nat /\ taken[t] \in Nat
      /\ count[q] = Len(jobs[q]) + taken[t] + Cardinality(Announced(q))
      /\ count'[q] = count[q] - taken[t]
      /\ \A p \in Queues \ {q} : count'[p] = count[p]
      /\ UNCHANGED <<global, pushing>>
  BY SubtractFacts DEF TypeOK
<1>2. count[q] >= taken[t]
  <2>1. Len(jobs[q]) \in Nat /\ Cardinality(Announced(q)) \in Nat
    BY <1>1, AnnouncedFinite DEF TypeOK
  <2> QED BY <1>1, <2>1
<1>3. \A u \in Threads, p \in Queues : PushHolds(u, p)' <=> PushHolds(u, p)
  BY <1>1, SamePush
<1>4. CASE count[q] # taken[t]
  <2>1. current' = current
    BY <1>4, SubtractFacts
  <2>2. count'[q] > 0 /\ count[q] > 0
    BY <1>1, <1>2, <1>4
  <2>3. \A u \in Threads, p \in Queues : Responsible(u, p)' <=> Responsible(u, p)
    BY <1>3, <2>1 DEF Responsible, PushHolds
  <2>4. \A p \in Queues : Owned(p)' <=> Owned(p)
    BY <1>1, <2>3 DEF Owned, InGlobal
  <2>5. \A p \in Queues : count'[p] > 0 <=> Owned(p)'
    BY <1>1, <2>2, <2>4 DEF Tokens
  <2>6. OneExecutor'
    BY <2>1 DEF Tokens, OneExecutor
  <2>7. \A u, v \in Threads, p \in Queues : PushHolds(u, p)' /\ PushHolds(v, p)' => u = v
    BY <1>3 DEF Tokens
  <2>8. \A u, v \in Threads : \A p \in Queues : current'[u] = p => ~PushHolds(v, p)'
    BY <1>3, <2>1 DEF Tokens
  <2>9. \A i \in 1 .. Len(global), u \in Threads : ~Responsible(u, global[i])'
    BY <1>1, <2>3, GlobalStays
  <2> QED BY <1>1, <2>5, <2>6, <2>7, <2>8, <2>9 DEF Tokens
<1>5. CASE count[q] = taken[t]
  <2>1. current' = [current EXCEPT ![t] = NoQueue]
    BY <1>5, SubtractFacts
  <2>2. current'[t] = NoQueue /\ \A u \in Threads \ {t} : current'[u] = current[u]
    BY <2>1 DEF TypeOK
  <2>3. count'[q] = 0
    BY <1>1, <1>5
  <2>4. \A u \in Threads : ~PushHolds(u, q) /\ (current[u] = q => u = t)
    <3>1. \A u \in Threads : ~PushHolds(u, q)
      BY <1>1 DEF Tokens
    <3>2. \A u \in Threads : current[u] = q => u = t
      BY <1>1, JobQueueAssumption DEF Tokens, OneExecutor
    <3> QED BY <3>1, <3>2
  <2>5. \A u \in Threads, p \in Queues :
          Responsible(u, p)' <=> Responsible(u, p) /\ p # q
    <3>1. \A u \in Threads : ~Responsible(u, q)'
      BY <1>1, <2>2, <2>4, <1>3, JobQueueAssumption DEF Responsible, PushHolds
    <3>2. \A u \in Threads, p \in Queues \ {q} :
            Responsible(u, p)' <=> Responsible(u, p)
      BY <1>1, <2>2, JobQueueAssumption DEF Responsible
    <3> QED BY <3>1, <3>2
  <2>6. \A i \in 1 .. Len(global) : global[i] # q /\ global[i] \in Queues
    BY DEF Tokens, Responsible, TypeOK
  <2>7. \A p \in Queues : Owned(p)' <=> Owned(p) /\ p # q
    BY <1>1, <2>5, <2>6 DEF Owned, InGlobal
  <2>8. \A p \in Queues : count'[p] > 0 <=> Owned(p)'
    BY <1>1, <2>3, <2>7 DEF Tokens
  <2>9. OneExecutor'
    BY <2>2 DEF Tokens, OneExecutor
  <2>10. \A u, v \in Threads, p \in Queues : PushHolds(u, p)' /\ PushHolds(v, p)' => u = v
    BY <1>3 DEF Tokens
  <2>11. \A u, v \in Threads : \A p \in Queues : current'[u] = p => ~PushHolds(v, p)'
    BY <1>3, <2>2, JobQueueAssumption DEF Tokens
  <2>12. \A i \in 1 .. Len(global), u \in Threads : ~Responsible(u, global[i])'
    BY <1>1, <2>5, <2>6 DEF Tokens
  <2> QED BY <1>1, <2>8, <2>9, <2>10, <2>11, <2>12 DEF Tokens
<1> QED BY <1>4, <1>5

LEMMA HandOverTokens ==
  ASSUME TypeOK, Shape, Tokens, NEW t \in Threads, HandOver(t)
  PROVE  Tokens'
<1> DEFINE q == current[t]
<1>1. q \in Queues /\ q # NoQueue
  BY JobQueueAssumption DEF HandOver, Shape, TypeOK
<1>2. /\ current' = [current EXCEPT ![t] = NoQueue]
      /\ global' = Append(global, q)
      /\ UNCHANGED <<count, pushing>>
  BY DEF HandOver
<1>3. current'[t] = NoQueue /\ \A u \in Threads \ {t} : current'[u] = current[u]
  BY <1>2 DEF TypeOK
<1>4. current' \in [Threads -> Queues \cup {NoQueue}]
  BY <1>2 DEF TypeOK
<1>5. \A u \in Threads, p \in Queues : PushHolds(u, p)' <=> PushHolds(u, p)
  BY <1>2, SamePush
<1>6. ~PushHolds(t, q)
  BY <1>1 DEF Tokens
<1>7. \A u \in Threads, p \in Queues :
        /\ Responsible(u, p) <=> current[u] = p \/ PushHolds(u, p)
        /\ Responsible(u, p)' <=> current'[u] = p \/ PushHolds(u, p)'
  BY DEF Responsible, PushHolds
<1>8. \A u \in Threads, p \in Queues :
        Responsible(u, p)' <=> Responsible(u, p) /\ ~(u = t /\ p = q)
  BY <1>3, <1>5, <1>6, <1>7, JobQueueAssumption
<1>9. Responsible(t, q)
  BY DEF Responsible
<1>10. \A u \in Threads, p \in Queues : current'[u] = p => current[u] = p
  BY <1>3, JobQueueAssumption
<1> HIDE DEF q
<1> QED BY <1>1, <1>2, <1>4, <1>5, <1>8, <1>9, <1>10, TokenToGlobal

LEMMA TakeGlobalTokens ==
  ASSUME TypeOK, Shape, Tokens, NEW t \in Threads, TakeGlobal(t)
  PROVE  Tokens'
<1> DEFINE q == Head(global)
<1>1. /\ global # <<>> /\ global' = Tail(global)
      /\ current' = [current EXCEPT ![t] = q]
      /\ step[t] = "idle" /\ pushing[t] = NoPush
      /\ UNCHANGED <<count, pushing>>
  BY DEF TakeGlobal
<1>2. /\ Len(global) \in Nat \ {0} /\ q = global[1] /\ q \in Queues
      /\ Len(global') = Len(global) - 1
      /\ \A i \in 1 .. Len(global') : /\ global'[i] = global[i + 1]
                                      /\ i + 1 \in 1 .. Len(global)
      /\ \A i \in 1 .. Len(global) : global[i] \in Queues
  <2>1. global \in Seq(Queues) /\ Len(global) \in Nat /\ global # <<>>
    BY <1>1 DEF TypeOK
  <2> QED BY <1>1, <2>1
<1>3. current[t] = NoQueue
  BY <1>1 DEF Shape
<1>4. current'[t] = q /\ \A u \in Threads \ {t} : current'[u] = current[u]
  BY <1>1 DEF TypeOK
<1>5. \A u \in Threads, p \in Queues : PushHolds(u, p)' <=> PushHolds(u, p)
  BY <1>1, SamePush
<1>6. \A u \in Threads : ~Responsible(u, q)
  BY <1>2 DEF Tokens
<1>7. \A u \in Threads : current[u] # q /\ ~PushHolds(u, q)
  BY <1>6 DEF Responsible, PushHolds
<1>8. \A u \in Threads, p \in Queues :
        Responsible(u, p)' <=> Responsible(u, p) \/ (u = t /\ p = q)
  <2>1. \A u \in Threads \ {t}, p \in Queues : Responsible(u, p)' <=> Responsible(u, p)
    BY <1>1, <1>4 DEF Responsible
  <2>2. \A p \in Queues : ~Responsible(t, p)
    BY <1>1, <1>3, JobQueueAssumption DEF Responsible, NoPush
  <2>3. \A p \in Queues : Responsible(t, p)' <=> p = q
    BY <1>1, <1>4 DEF Responsible, NoPush
  <2> QED BY <2>1, <2>2, <2>3
<1>9. \A i \in 1 .. Len(global') : global'[i] # q
  BY <1>2 DEF Tokens
<1>10. \A p \in Queues : InGlobal(p) <=> InGlobal(p)' \/ p = q
  <2> SUFFICES ASSUME NEW p \in Queues
               PROVE  InGlobal(p) <=> InGlobal(p)' \/ p = q
    OBVIOUS
  <2>1. ASSUME NEW i \in 1 .. Len(global), global[i] = p, p # q
        PROVE  i - 1 \in 1 .. Len(global') /\ global'[i - 1] = p
    BY <1>2, <2>1
  <2>2. InGlobal(p) /\ p # q => InGlobal(p)'
    BY <2>1 DEF InGlobal
  <2>3. InGlobal(p)' => InGlobal(p)
    BY <1>2 DEF InGlobal
  <2>4. p = q => InGlobal(p)
    BY <1>2 DEF InGlobal
  <2> QED BY <2>2, <2>3, <2>4
<1>11. \A p \in Queues : Owned(p)' <=> Owned(p)
  BY <1>8, <1>10 DEF Owned
<1>12. \A p \in Queues : count'[p] > 0 <=> Owned(p)'
  BY <1>1, <1>11 DEF Tokens
<1>13. OneExecutor'
  BY <1>4, <1>7 DEF Tokens, OneExecutor
<1>14. \A u, v \in Threads, p \in Queues : PushHolds(u, p)' /\ PushHolds(v, p)' => u = v
  BY <1>5 DEF Tokens
<1>15. \A u, v \in Threads : \A p \in Queues : current'[u] = p => ~PushHolds(v, p)'
  BY <1>4, <1>5, <1>7 DEF Tokens
<1>16. \A i, k \in 1 .. Len(global') : global'[i] = global'[k] => i = k
  <2> SUFFICES ASSUME NEW i \in 1 .. Len(global'), NEW k \in 1 .. Len(global'),
                      global'[i] = global'[k]
               PROVE  i = k
    OBVIOUS
  <2>1. i + 1 = k + 1
    BY <1>2 DEF Tokens
  <2> QED BY <1>2, <2>1
<1>17. \A i \in 1 .. Len(global'), u \in Threads : \A p \in Queues :
         global'[i] = p => ~Responsible(u, p)'
  BY <1>2, <1>8, <1>9 DEF Tokens
<1>18. \A i \in 1 .. Len(global'), u \in Threads : ~Responsible(u, global[i])'
  BY <1>2, <1>17
<1> QED BY <1>12, <1>13, <1>14, <1>15, <1>16, <1>18 DEF Tokens
-----------------------------------------------------------------------------
(* The counts *)

LEMMA SameAnnounced ==
  ASSUME UNCHANGED pushing
  PROVE  \A p : Announced(p)' = Announced(p)
BY DEF Announced

LEMMA CountCounted ==
  ASSUME TypeOK, Counted, NEW t \in Threads, NEW j \in Jobs, Raises(t, j),
         UNCHANGED <<current, taken>>
  PROVE  Counted'
<1> DEFINE q == OwnerOf[j]
<1>1. /\ q \in Queues /\ jobs' = jobs
      /\ count'[q] = count[q] + 1
      /\ \A p \in Queues \ {q} : count'[p] = count[p]
  BY DEF Raises
<1>2. \A p \in Queues : p = q =>
        Announced(p)' = Announced(p) \cup {t} /\ t \notin Announced(p)
  BY DEF Raises, Announced
<1>3. \A p \in Queues \ {q} : Announced(p)' = Announced(p)
  BY DEF Raises, Announced
<1>4. \A p \in Queues : p = q =>
        /\ Cardinality(Announced(p))' = Cardinality(Announced(p)) + 1
        /\ Cardinality(Announced(p)) \in Nat
  BY <1>2, AnnouncedFinite, FS_AddElement
<1>5. \A p \in Queues \ {q} : Cardinality(Announced(p))' = Cardinality(Announced(p))
  BY <1>3
<1>6. \A p \in Queues, u \in Threads :
        Len(jobs[p]) \in Nat /\ taken[u] \in Nat /\ count[p] \in Nat
  BY DEF TypeOK
<1>7. \A p \in Queues : \A u \in Threads :
        current'[u] = p =>
          count'[p] = Len(jobs'[p]) + taken'[u] + Cardinality(Announced(p))'
  <2> SUFFICES ASSUME NEW p \in Queues, NEW u \in Threads, current'[u] = p
               PROVE  count'[p] = Len(jobs'[p]) + taken'[u] + Cardinality(Announced(p))'
    OBVIOUS
  <2>1. count[p] = Len(jobs[p]) + taken[u] + Cardinality(Announced(p))
    BY <1>1 DEF Counted
  <2>2. CASE p = q
    <3>1. count'[p] = count[p] + 1 /\ Len(jobs'[p]) = Len(jobs[p])
      BY <1>1, <2>2
    <3>2. Cardinality(Announced(p))' = Cardinality(Announced(p)) + 1
          /\ Cardinality(Announced(p)) \in Nat
      BY <1>4, <2>2
    <3>3. taken'[u] = taken[u] /\ taken[u] \in Nat /\ Len(jobs[p]) \in Nat
      BY <1>1, <1>6
    <3> QED BY <2>1, <3>1, <3>2, <3>3
  <2>3. CASE p # q
    BY <1>1, <1>5, <2>1, <2>3
  <2> QED BY <2>2, <2>3
<1>8. \A p \in Queues :
        (\A u \in Threads : current'[u] # p) =>
          count'[p] = Len(jobs'[p]) + Cardinality(Announced(p))'
  <2> SUFFICES ASSUME NEW p \in Queues, \A u \in Threads : current'[u] # p
               PROVE  count'[p] = Len(jobs'[p]) + Cardinality(Announced(p))'
    OBVIOUS
  <2>1. count[p] = Len(jobs[p]) + Cardinality(Announced(p))
    BY <1>1 DEF Counted
  <2>2. CASE p = q
    BY <1>1, <1>4, <1>6, <2>1, <2>2
  <2>3. CASE p # q
    BY <1>1, <1>5, <2>1, <2>3
  <2> QED BY <2>2, <2>3
<1> QED BY <1>7, <1>8 DEF Counted

LEMMA StoreCounted ==
  ASSUME TypeOK, Counted, NEW t \in Threads, Store(t),
         NEW q, q = OwnerOf[pushing[t].job]
  PROVE  Counted'
<1>1. /\ q \in Queues
      /\ pushing[t].on = TRUE /\ pushing[t].stored = FALSE
      /\ pushing'[t].on = FALSE \/ pushing'[t].stored = TRUE
      /\ \A u \in Threads \ {t} : pushing'[u] = pushing[u]
      /\ Len(jobs'[q]) = Len(jobs[q]) + 1
      /\ \A p \in Queues \ {q} : jobs'[p] = jobs[p]
      /\ UNCHANGED <<count, execVars>>
  BY StoreFacts, PushType
<1>2. \A p \in Queues : p = q =>
        Announced(p)' = Announced(p) \ {t} /\ t \in Announced(p)
  BY <1>1 DEF Announced
<1>3. \A p \in Queues \ {q} : Announced(p)' = Announced(p)
  BY <1>1 DEF Announced
<1>4. \A p \in Queues : p = q =>
        /\ Cardinality(Announced(p))' = Cardinality(Announced(p)) - 1
        /\ Cardinality(Announced(p)) \in Nat
  <2> SUFFICES ASSUME NEW p \in Queues, p = q
               PROVE  /\ Cardinality(Announced(p))' = Cardinality(Announced(p)) - 1
                      /\ Cardinality(Announced(p)) \in Nat
    OBVIOUS
  <2>1. IsFiniteSet(Announced(p)) /\ Cardinality(Announced(p)) \in Nat
    BY AnnouncedFinite
  <2>2. Cardinality(Announced(p) \ {t}) = Cardinality(Announced(p)) - 1
    BY <1>2, <2>1, FS_RemoveElement
  <2> QED BY <1>2, <2>1, <2>2
<1>5. \A p \in Queues \ {q} : Cardinality(Announced(p))' = Cardinality(Announced(p))
  BY <1>3
<1>6. \A p \in Queues, u \in Threads :
        Len(jobs[p]) \in Nat /\ taken[u] \in Nat /\ count[p] \in Nat
  BY DEF TypeOK
<1>7. \A p \in Queues : \A u \in Threads :
        current'[u] = p =>
          count'[p] = Len(jobs'[p]) + taken'[u] + Cardinality(Announced(p))'
  <2> SUFFICES ASSUME NEW p \in Queues, NEW u \in Threads, current'[u] = p
               PROVE  count'[p] = Len(jobs'[p]) + taken'[u] + Cardinality(Announced(p))'
    OBVIOUS
  <2>1. count[p] = Len(jobs[p]) + taken[u] + Cardinality(Announced(p))
    BY <1>1 DEF Counted, execVars
  <2>2. CASE p = q
    <3>1. count'[p] = count[p] /\ Len(jobs'[p]) = Len(jobs[p]) + 1
      BY <1>1, <2>2
    <3>2. Cardinality(Announced(p))' = Cardinality(Announced(p)) - 1
          /\ Cardinality(Announced(p)) \in Nat
      BY <1>4, <2>2
    <3>3. taken'[u] = taken[u] /\ taken[u] \in Nat /\ Len(jobs[p]) \in Nat
      BY <1>1, <1>6 DEF execVars
    <3> QED BY <2>1, <3>1, <3>2, <3>3
  <2>3. CASE p # q
    BY <1>1, <1>5, <2>1, <2>3 DEF execVars
  <2> QED BY <2>2, <2>3
<1>8. \A p \in Queues :
        (\A u \in Threads : current'[u] # p) =>
          count'[p] = Len(jobs'[p]) + Cardinality(Announced(p))'
  <2> SUFFICES ASSUME NEW p \in Queues, \A u \in Threads : current'[u] # p
               PROVE  count'[p] = Len(jobs'[p]) + Cardinality(Announced(p))'
    OBVIOUS
  <2>1. count[p] = Len(jobs[p]) + Cardinality(Announced(p))
    BY <1>1 DEF Counted, execVars
  <2>2. CASE p = q
    <3>1. count'[p] = count[p] /\ Len(jobs'[p]) = Len(jobs[p]) + 1
      BY <1>1, <2>2
    <3>2. Cardinality(Announced(p))' = Cardinality(Announced(p)) - 1
          /\ Cardinality(Announced(p)) \in Nat
      BY <1>4, <2>2
    <3>3. Len(jobs[p]) \in Nat
      BY DEF TypeOK
    <3> QED BY <2>1, <3>1, <3>2, <3>3
  <2>3. CASE p # q
    BY <1>1, <1>5, <2>1, <2>3 DEF execVars
  <2> QED BY <2>2, <2>3
<1> QED BY <1>7, <1>8 DEF Counted

(* A thread that holds no taken jobs may enter or leave a queue.           *)
LEMMA MoveCounted ==
  ASSUME TypeOK, Counted, NEW t \in Threads, taken[t] = 0,
         UNCHANGED <<jobs, count, taken>>,
         \A p \in Queues : Announced(p)' = Announced(p),
         \A u \in Threads \ {t} : current'[u] = current[u],
         \A u \in Threads : current[u] = current'[t] => u = t \/ current'[t] = NoQueue
  PROVE  Counted'
<1>1. \A p \in Queues : p # NoQueue
  BY JobQueueAssumption
<1>2. \A p \in Queues, u \in Threads :
        Len(jobs[p]) \in Nat /\ taken[u] \in Nat /\ Cardinality(Announced(p)) \in Nat
  BY AnnouncedFinite DEF TypeOK
<1>3. \A p \in Queues : Cardinality(Announced(p))' = Cardinality(Announced(p))
  OBVIOUS
<1>4. ASSUME NEW p \in Queues, NEW u \in Threads, current'[u] = p
      PROVE  count'[p] = Len(jobs'[p]) + taken'[u] + Cardinality(Announced(p))'
  <2>1. CASE u # t
    BY <1>3, <1>4, <2>1 DEF Counted
  <2>2. CASE u = t
    <3>1. \A v \in Threads : current[v] = p => v = t
      BY <1>1, <1>4, <2>2
    <3>2. count[p] = Len(jobs[p]) + Cardinality(Announced(p))
      BY <1>2, <3>1 DEF Counted
    <3> QED BY <1>2, <1>3, <2>2, <3>2
  <2> QED BY <2>1, <2>2
<1>5. ASSUME NEW p \in Queues, \A u \in Threads : current'[u] # p
      PROVE  count'[p] = Len(jobs'[p]) + Cardinality(Announced(p))'
  <2>1. count[p] = Len(jobs[p]) + Cardinality(Announced(p))
    BY <1>2, <1>5 DEF Counted
  <2> QED BY <1>3, <2>1
<1> QED BY <1>4, <1>5 DEF Counted

LEMMA TakeOrPassCounted ==
  ASSUME TypeOK, Shape, Tokens, Counted, NEW t \in Threads, TakeOrPass(t),
         NEW q, q = OwnerOf[pushing[t].job]
  PROVE  Counted'
<1>1. /\ q \in Queues
      /\ pushing[t].on = TRUE /\ pushing[t].stored = TRUE
      /\ pushing'[t].on = FALSE
      /\ \A u \in Threads \ {t} : pushing'[u] = pushing[u]
      /\ UNCHANGED <<jobs, count, taken>>
  BY TakeOrPassFacts
<1>2. \A p \in Queues : Announced(p)' = Announced(p)
  BY <1>1 DEF Announced
<1>3. PushHolds(t, q)
  BY <1>1 DEF Shape, PushHolds
<1>4. \A u \in Threads : current[u] # q
  BY <1>1, <1>3 DEF Tokens
<1>5. CASE current[t] = NoQueue /\ ~pushing[t].pushOnly
  <2>1. current'[t] = q /\ \A u \in Threads \ {t} : current'[u] = current[u]
    BY <1>5 DEF TakeOrPass, TypeOK
  <2>2. taken[t] = 0
    BY <1>5 DEF Shape
  <2> QED BY <1>1, <1>2, <1>4, <2>1, <2>2, MoveCounted
<1>6. CASE ~(current[t] = NoQueue /\ ~pushing[t].pushOnly)
  <2>1. current' = current
    BY <1>6 DEF TakeOrPass
  <2>2. \A p \in Queues : Cardinality(Announced(p))' = Cardinality(Announced(p))
    BY <1>2
  <2> QED BY <1>1, <2>1, <2>2 DEF Counted
<1> QED BY <1>5, <1>6

LEMMA PopAllCounted ==
  ASSUME TypeOK, Shape, Tokens, Counted, NEW t \in Threads, PopAll(t),
         NEW q, q = current[t]
  PROVE  Counted'
<1>1. /\ q \in Queues /\ q # NoQueue /\ taken[t] = 0
      /\ taken'[t] = Len(jobs[q])
      /\ \A u \in Threads \ {t} : taken'[u] = taken[u]
      /\ Len(jobs'[q]) = 0
      /\ \A p \in Queues \ {q} : jobs'[p] = jobs[p]
      /\ UNCHANGED <<count, current, pushing>>
  BY PopAllFacts, JobQueueAssumption
<1>2. \A p \in Queues : Cardinality(Announced(p))' = Cardinality(Announced(p))
  BY <1>1, SameAnnounced
<1>3. \A u \in Threads : current[u] = q => u = t
  BY <1>1 DEF Tokens, OneExecutor
<1>4. \A p \in Queues, u \in Threads :
        Len(jobs[p]) \in Nat /\ taken[u] \in Nat /\ Cardinality(Announced(p)) \in Nat
  BY AnnouncedFinite DEF TypeOK
<1>5. count[q] = Len(jobs[q]) + Cardinality(Announced(q))
  BY <1>1, <1>4 DEF Counted
<1>6. \A p \in Queues : \A u \in Threads :
        current'[u] = p =>
          count'[p] = Len(jobs'[p]) + taken'[u] + Cardinality(Announced(p))'
  <2> SUFFICES ASSUME NEW p \in Queues, NEW u \in Threads, current[u] = p
               PROVE  count'[p] = Len(jobs'[p]) + taken'[u] + Cardinality(Announced(p))'
    BY <1>1
  <2>1. CASE p = q
    <3>1. u = t
      BY <1>3, <2>1
    <3> QED BY <1>1, <1>2, <1>4, <1>5, <2>1, <3>1
  <2>2. CASE p # q
    BY <1>1, <1>2, <2>2 DEF Counted
  <2> QED BY <2>1, <2>2
<1>7. \A p \in Queues :
        (\A u \in Threads : current'[u] # p) =>
          count'[p] = Len(jobs'[p]) + Cardinality(Announced(p))'
  BY <1>1, <1>2 DEF Counted
<1> QED BY <1>6, <1>7 DEF Counted

LEMMA SubtractCounted ==
  ASSUME TypeOK, Shape, Tokens, Counted, NEW t \in Threads, Subtract(t),
         NEW q, q = current[t]
  PROVE  Counted'
<1>1. /\ q \in Queues /\ q # NoQueue
      /\ count[q] = Len(jobs[q]) + taken[t] + Cardinality(Announced(q))
      /\ count'[q] = count[q] - taken[t]
      /\ \A p \in Queues \ {q} : count'[p] = count[p]
      /\ taken'[t] = 0
      /\ \A u \in Threads \ {t} : taken'[u] = taken[u]
      /\ UNCHANGED <<jobs, pushing>>
  BY SubtractFacts, JobQueueAssumption
<1>2. \A u \in Threads \ {t} : current'[u] = current[u]
  BY SubtractFacts DEF TypeOK
<1>3. current'[t] = NoQueue \/ current'[t] = q
  BY SubtractFacts DEF TypeOK
<1>4. \A p \in Queues : Cardinality(Announced(p))' = Cardinality(Announced(p))
  BY <1>1, SameAnnounced
<1>5. \A u \in Threads : current[u] = q => u = t
  BY <1>1 DEF Tokens, OneExecutor
<1>6. \A p \in Queues, u \in Threads :
        /\ Len(jobs[p]) \in Nat /\ taken[u] \in Nat
        /\ Cardinality(Announced(p)) \in Nat /\ p # NoQueue
  BY AnnouncedFinite, JobQueueAssumption DEF TypeOK
<1>7. count'[q] = Len(jobs'[q]) + Cardinality(Announced(q))'
  BY <1>1, <1>4, <1>6
<1>8. ASSUME NEW p \in Queues, NEW u \in Threads, current'[u] = p
      PROVE  count'[p] = Len(jobs'[p]) + taken'[u] + Cardinality(Announced(p))'
  <2>1. CASE p = q
    <3>1. u = t
      BY <1>2, <1>5, <1>8, <2>1
    <3> QED BY <1>1, <1>4, <1>6, <1>7, <2>1, <3>1
  <2>2. CASE p # q
    <3>1. u # t
      BY <1>3, <1>6, <1>8, <2>2
    <3> QED BY <1>1, <1>2, <1>4, <1>8, <2>2, <3>1 DEF Counted
  <2> QED BY <2>1, <2>2
<1>9. ASSUME NEW p \in Queues, \A u \in Threads : current'[u] # p
      PROVE  count'[p] = Len(jobs'[p]) + Cardinality(Announced(p))'
  <2>1. CASE p = q
    BY <1>7, <2>1
  <2>2. CASE p # q
    <3>1. \A u \in Threads : current[u] # p
      BY <1>2, <1>9, <2>2
    <3> QED BY <1>1, <1>4, <2>2, <3>1 DEF Counted
  <2> QED BY <2>1, <2>2
<1> QED BY <1>8, <1>9 DEF Counted

LEMMA CountedStays ==
  ASSUME Counted, UNCHANGED <<jobs, count, current, taken, pushing>>
  PROVE  Counted'
BY SameAnnounced DEF Counted
-----------------------------------------------------------------------------
(* The invariant *)

LEMMA InitIInv == Init => IInv
<1> SUFFICES ASSUME Init PROVE IInv
  OBVIOUS
<1>1. TypeOK
  <2>1. <<>> \in Seq(Jobs) /\ <<>> \in Seq(Queues)
    OBVIOUS
  <2> QED BY <2>1 DEF Init, TypeOK, Steps
<1>2. Shape
  BY DEF Init, Shape, NoPush
<1>3. \A q \in Queues : Announced(q) = {}
  BY DEF Init, Announced, NoPush
<1>4. Counted
  <2>1. \A q \in Queues : Cardinality(Announced(q)) = 0
    BY <1>3, FS_EmptySet
  <2>2. \A q \in Queues : count[q] = 0 /\ Len(jobs[q]) = 0
    BY DEF Init
  <2>3. \A t \in Threads : taken[t] = 0
    BY DEF Init
  <2> QED BY <2>1, <2>2, <2>3 DEF Counted
<1>5. \A t \in Threads, q \in Queues :
        current[t] # q /\ ~PushHolds(t, q) /\ ~Responsible(t, q) /\ ~InGlobal(q)
  BY JobQueueAssumption DEF Init, PushHolds, Responsible, InGlobal, NoPush
<1>6. Tokens
  <2>1. \A q \in Queues : ~InGlobal(q)
    BY DEF Init, InGlobal
  <2> QED BY <1>5, <2>1 DEF Init, Tokens, OneExecutor, Owned
<1> QED BY <1>1, <1>2, <1>4, <1>6 DEF IInv

LEMMA NextOwners == IInv /\ [Next]_vars => Tokens' /\ Counted'
<1> SUFFICES ASSUME TypeOK, Shape, Tokens, Counted, [Next]_vars
             PROVE  Tokens' /\ Counted'
  BY DEF IInv
<1>a. ASSUME UNCHANGED <<jobs, count, global, current, taken, pushing>>
      PROVE  Tokens' /\ Counted'
  BY <1>a, TokensStay, SamePush, CountedStays
<1>1. ASSUME NEW t \in Threads, Store(t) PROVE Tokens' /\ Counted'
  BY <1>1, StoreTokens, StoreCounted
<1>2. ASSUME NEW t \in Threads, TakeOrPass(t) PROVE Tokens' /\ Counted'
  BY <1>2, TakeOrPassTokens, TakeOrPassCounted
<1>3. ASSUME NEW t \in Threads, PopAll(t) PROVE Tokens' /\ Counted'
  <2>1. UNCHANGED <<count, global, current, pushing>>
    BY <1>3 DEF PopAll
  <2> QED BY <1>3, <2>1, TokensStay, SamePush, PopAllCounted
<1>4. ASSUME NEW t \in Threads, FinishJob(t) PROVE Tokens' /\ Counted'
  BY <1>4, <1>a DEF FinishJob, queueVars
<1>5. ASSUME NEW t \in Threads, Subtract(t) PROVE Tokens' /\ Counted'
  BY <1>5, SubtractTokens, SubtractCounted
<1>6. ASSUME NEW t \in Threads, KeepGoing(t) PROVE Tokens' /\ Counted'
  BY <1>6, <1>a DEF KeepGoing, queueVars
<1>7. ASSUME NEW t \in Threads, HandOver(t) PROVE Tokens' /\ Counted'
  <2>1. /\ taken[t] = 0 /\ UNCHANGED <<jobs, count, taken, pushing>>
        /\ current'[t] = NoQueue
        /\ \A u \in Threads \ {t} : current'[u] = current[u]
    BY <1>7 DEF HandOver, Shape, TypeOK
  <2>2. \A p \in Queues : Announced(p)' = Announced(p)
    BY <2>1, SameAnnounced
  <2>3. Counted'
    BY <2>1, <2>2, MoveCounted
  <2> QED BY <1>7, <2>3, HandOverTokens
<1>8. ASSUME NEW t \in Threads, NEW j \in Jobs, Raises(t, j),
             UNCHANGED <<current, taken>>
      PROVE  Tokens' /\ Counted'
  BY <1>8, CountTokens, CountCounted
<1>9. ASSUME NEW t \in Threads, NEW j \in Jobs, PushDue(t, j)
      PROVE  Tokens' /\ Counted'
  BY <1>8, <1>9, CountFacts DEF PushDue, execVars
<1>10. ASSUME NEW t \in Threads, EndDistribute(t) PROVE Tokens' /\ Counted'
  BY <1>10, <1>a DEF EndDistribute, queueVars
<1>11. ASSUME NEW t \in Threads, NEW j \in Jobs, DoAsync(t, j)
       PROVE  Tokens' /\ Counted'
  BY <1>8, <1>11, CountFacts DEF DoAsync, execVars
<1>12. ASSUME NEW t \in Threads, NEW j \in Jobs, DoTimer(t, j)
       PROVE  Tokens' /\ Counted'
  BY <1>12, <1>a DEF DoTimer, queueVars, execVars
<1>13. ASSUME NEW t \in Threads, TakeGlobal(t) PROVE Tokens' /\ Counted'
  <2>1. /\ taken[t] = 0 /\ UNCHANGED <<jobs, count, taken, pushing>>
        /\ global # <<>>
        /\ current'[t] = Head(global)
        /\ \A u \in Threads \ {t} : current'[u] = current[u]
    BY <1>13 DEF TakeGlobal, Shape, TypeOK
  <2>2. \A p \in Queues : Announced(p)' = Announced(p)
    BY <2>1, SameAnnounced
  <2>3. 1 \in 1 .. Len(global) /\ Head(global) = global[1]
    BY <2>1 DEF TypeOK
  <2>4. \A u \in Threads : current[u] # Head(global)
    BY <2>3 DEF Tokens, Responsible
  <2>5. Counted'
    BY <2>1, <2>2, <2>4, MoveCounted
  <2> QED BY <1>13, <2>5, TakeGlobalTokens
<1>14. ASSUME NEW t \in Threads, NEW items, TakeDue(t, items)
       PROVE  Tokens' /\ Counted'
  BY <1>14, <1>a DEF TakeDue, queueVars
<1>15. CASE UNCHANGED vars
  BY <1>15, <1>a DEF vars, queueVars, execVars
<1>16. ASSUME NEW t \in Threads, GoOn(t) PROVE Tokens' /\ Counted'
  BY <1>1, <1>2, <1>3, <1>4, <1>5, <1>6, <1>7, <1>9, <1>10, <1>16 DEF GoOn
<1>17. ASSUME NEW t \in Workers, TakeGlobal(t) PROVE Tokens' /\ Counted'
  BY <1>13, <1>17, JobQueueAssumption
<1>18. CASE TimersFire
  <2>1. PICK t \in Workers, items \in (SUBSET reserved) \ {{}} : TakeDue(t, items)
    BY <1>18 DEF TimersFire
  <2>2. t \in Threads
    BY JobQueueAssumption
  <2> QED BY <1>14, <2>1, <2>2
<1>19. CASE \E t \in Threads, j \in Jobs : DoAsync(t, j) \/ DoTimer(t, j)
  BY <1>11, <1>12, <1>19
<1> QED BY <1>15, <1>16, <1>17, <1>18, <1>19 DEF Next

LEMMA Inductive == Spec => []IInv
<1>1. IInv /\ [Next]_vars => IInv'
  BY NextTypes, NextShape, NextOwners DEF IInv
<1> QED BY InitIInv, <1>1, PTL DEF Spec

(***************************************************************************)
(* Every variable keeps its type, and no count is ever negative.           *)
(***************************************************************************)
THEOREM JobQueueTypes == Spec => []TypeOK
<1>1. IInv => TypeOK
  BY DEF IInv
<1> QED BY <1>1, Inductive, PTL

(***************************************************************************)
(* JobQueue::Execute never runs on two threads for one queue.              *)
(***************************************************************************)
THEOREM SingleExecutor == Spec => []OneExecutor
<1>1. IInv => OneExecutor
  BY DEF IInv, Tokens
<1> QED BY <1>1, Inductive, PTL

(***************************************************************************)
(* A queue that holds jobs is being executed, about to be, or in the       *)
(* GlobalQueue.                                                            *)
(***************************************************************************)
THEOREM WorkAlwaysOwned == Spec => []WorkIsOwned
<1>1. IInv => WorkIsOwned
  <2> SUFFICES ASSUME TypeOK, Tokens, Counted, NEW q \in Queues, jobs[q] # <<>>
               PROVE  Owned(q)
    BY DEF IInv, WorkIsOwned, Owned
  <2>1. Len(jobs[q]) > 0 /\ Len(jobs[q]) \in Nat
    BY DEF TypeOK
  <2>2. Cardinality(Announced(q)) \in Nat
    BY AnnouncedFinite
  <2>3. CASE \A t \in Threads : current[t] # q
    <3>1. count[q] = Len(jobs[q]) + Cardinality(Announced(q))
      BY <2>3 DEF Counted
    <3> QED BY <2>1, <2>2, <3>1 DEF Tokens
  <2>4. CASE \E t \in Threads : current[t] = q
    BY <2>4 DEF Owned, Responsible
  <2> QED BY <2>3, <2>4
<1> QED BY <1>1, Inductive, PTL
-----------------------------------------------------------------------------
(* Every queue is a line *)

LEMMA AppendBehind ==
  ASSUME NEW s \in Seq(Jobs), NEW r \in Seq(Jobs), NEW j \in Jobs
  PROVE  s \o Append(r, j) = Append(s \o r, j)
<1>1. <<j>> \in Seq(Jobs) /\ s \o r \in Seq(Jobs)
  BY ConcatProperties
<1>2. Append(r, j) = r \o <<j>> /\ Append(s \o r, j) = (s \o r) \o <<j>>
  BY <1>1, AppendIsConcat
<1> QED BY <1>1, <1>2, ConcatAssociative

LEMMA FirstOfLine ==
  ASSUME NEW s \in Seq(Jobs), NEW r \in Seq(Jobs), s # <<>>
  PROVE  /\ s \o r # <<>>
         /\ Head(s \o r) = Head(s)
         /\ Tail(s \o r) = Tail(s) \o r
<1>1. Len(s) \in Nat \ {0} /\ Len(r) \in Nat
  BY EmptySeq, LenProperties
<1>2. /\ s \o r \in Seq(Jobs) /\ Len(s \o r) = Len(s) + Len(r)
      /\ \A i \in 1 .. Len(s) + Len(r) :
           (s \o r)[i] = IF i <= Len(s) THEN s[i] ELSE r[i - Len(s)]
  BY ConcatProperties
<1>3. s \o r # <<>>
  BY <1>1, <1>2
<1>4. Head(s \o r) = Head(s)
  BY <1>1, <1>2
<1>5. /\ Tail(s) \in Seq(Jobs) /\ Len(Tail(s)) = Len(s) - 1
      /\ \A i \in 1 .. Len(Tail(s)) : Tail(s)[i] = s[i + 1]
  BY HeadTailProperties
<1>6. /\ Tail(s \o r) \in Seq(Jobs) /\ Len(Tail(s \o r)) = Len(s \o r) - 1
      /\ \A i \in 1 .. Len(Tail(s \o r)) : Tail(s \o r)[i] = (s \o r)[i + 1]
  BY <1>2, <1>3, HeadTailProperties
<1>7. /\ Tail(s) \o r \in Seq(Jobs)
      /\ Len(Tail(s) \o r) = Len(Tail(s)) + Len(r)
      /\ \A i \in 1 .. Len(Tail(s)) + Len(r) :
           (Tail(s) \o r)[i] =
             IF i <= Len(Tail(s)) THEN Tail(s)[i] ELSE r[i - Len(Tail(s))]
  BY <1>5, ConcatProperties
<1>8. Len(Tail(s \o r)) = Len(Tail(s) \o r)
  BY <1>1, <1>2, <1>5, <1>6, <1>7
<1>9. ASSUME NEW i \in 1 .. Len(Tail(s \o r))
      PROVE  Tail(s \o r)[i] = (Tail(s) \o r)[i]
  <2>1. i + 1 \in 1 .. Len(s) + Len(r) /\ i \in 1 .. Len(Tail(s)) + Len(r)
    BY <1>1, <1>2, <1>5, <1>6
  <2>2. CASE i <= Len(Tail(s))
    BY <1>1, <1>2, <1>5, <1>6, <1>7, <2>1, <2>2
  <2>3. CASE i > Len(Tail(s))
    <3>1. (s \o r)[i + 1] = r[i + 1 - Len(s)]
      BY <1>1, <1>2, <1>5, <2>1, <2>3
    <3>2. (Tail(s) \o r)[i] = r[i - Len(Tail(s))]
      BY <1>1, <1>5, <1>7, <2>1, <2>3
    <3>3. i + 1 - Len(s) = i - Len(Tail(s))
      BY <1>1, <1>5
    <3> QED BY <1>6, <3>1, <3>2, <3>3
  <2> QED BY <1>1, <1>5, <2>2, <2>3
<1> QED BY <1>3, <1>4, <1>6, <1>7, <1>8, <1>9, SeqEqual

(* The line of a queue, read from the thread that executes it.             *)
LEMMA LineServed ==
  ASSUME OneExecutor, NEW t \in Threads, NEW q \in Queues, current[t] = q
  PROVE  Line(q) = batch[t] \o jobs[q]
<1> DEFINE c == CHOOSE u \in Threads : current[u] = q
<1>1. c \in Threads /\ current[c] = q
  OBVIOUS
<1>2. c = t
  BY <1>1, JobQueueAssumption DEF OneExecutor
<1> QED BY <1>2 DEF Line

LEMMA LineServedNext ==
  ASSUME OneExecutor', NEW t \in Threads, NEW q \in Queues, current'[t] = q
  PROVE  Line(q)' = batch'[t] \o jobs'[q]
<1> DEFINE c == CHOOSE u \in Threads : current'[u] = q
<1>1. c \in Threads /\ current'[c] = q
  OBVIOUS
<1>2. c = t
  BY <1>1, JobQueueAssumption DEF OneExecutor
<1> QED BY <1>2 DEF Line

LEMMA LineAlone ==
  ASSUME NEW q \in Queues
  PROVE  /\ (\A t \in Threads : current[t] # q) => Line(q) = jobs[q]
         /\ (\A t \in Threads : current'[t] # q) => Line(q)' = jobs'[q]
BY DEF Line

(* Taking or leaving a queue between two batches does not touch its line.  *)
LEMMA LineStays ==
  ASSUME TypeOK, OneExecutor, OneExecutor', NEW t \in Threads, batch[t] = <<>>,
         UNCHANGED <<batch, jobs>>,
         \A u \in Threads \ {t} : current'[u] = current[u],
         NEW q \in Queues
  PROVE  Line(q)' = Line(q)
<1>1. <<>> \o jobs[q] = jobs[q]
  BY ConcatEmptySeq DEF TypeOK
<1>2. CASE \E u \in Threads \ {t} : current[u] = q
  BY <1>2, LineServed, LineServedNext
<1>3. CASE \A u \in Threads \ {t} : current[u] # q
  <2>1. Line(q) = jobs[q]
    BY <1>1, <1>3, LineServed, LineAlone
  <2>2. Line(q)' = jobs[q]
    BY <1>1, <1>3, LineServedNext, LineAlone
  <2> QED BY <2>1, <2>2
<1> QED BY <1>2, <1>3

Stutters == ran' = ran /\ \A q \in Queues : Line(q)' = Line(q)

Joins ==
  \E j \in Jobs :
    /\ ran' = ran
    /\ \A q \in Queues :
         Line(q)' = IF q = OwnerOf[j] THEN Append(Line(q), j) ELSE Line(q)

Serves ==
  \E q \in Queues :
    /\ Line(q) # <<>>
    /\ Line(q)' = Tail(Line(q))
    /\ \A p \in Queues \ {q} : Line(p)' = Line(p)
    /\ ran' = [ran EXCEPT ![q] = Append(ran[q], Head(Line(q)))]

LEMMA StoreJoins ==
  ASSUME TypeOK, OneExecutor, OneExecutor', NEW t \in Threads, Store(t)
  PROVE  Joins
<1>0. PICK j : j = pushing[t].job
  OBVIOUS
<1>1. PICK p : p = OwnerOf[j]
  OBVIOUS
<1>2. /\ j \in Jobs /\ p \in Queues
      /\ jobs'[p] = Append(jobs[p], j)
      /\ \A q \in Queues \ {p} : jobs'[q] = jobs[q]
      /\ UNCHANGED execVars
  BY <1>0, <1>1, StoreFacts
<1>3. ran' = ran /\ current' = current /\ batch' = batch
  BY <1>2 DEF Store, execVars
<1>4. \A q \in Queues \ {p} : Line(q)' = Line(q)
  BY <1>2, <1>3 DEF Line
<1>5. Line(p)' = Append(Line(p), j)
  <2>1. CASE \A u \in Threads : current[u] # p
    BY <1>2, <1>3, <2>1, LineAlone
  <2>2. CASE \E u \in Threads : current[u] = p
    <3>1. PICK u \in Threads : current[u] = p
      BY <2>2
    <3>2. batch[u] \in Seq(Jobs) /\ jobs[p] \in Seq(Jobs)
      BY <1>2 DEF TypeOK
    <3>3. Line(p) = batch[u] \o jobs[p]
      BY <1>2, <3>1, LineServed
    <3>4. Line(p)' = batch[u] \o Append(jobs[p], j)
      BY <1>2, <1>3, <3>1, LineServedNext
    <3> QED BY <1>2, <3>2, <3>3, <3>4, AppendBehind
  <2> QED BY <2>1, <2>2
<1>6. \A q \in Queues : Line(q)' = IF q = p THEN Append(Line(q), j) ELSE Line(q)
  BY <1>4, <1>5
<1> QED BY <1>1, <1>2, <1>3, <1>6 DEF Joins

LEMMA FinishServes ==
  ASSUME TypeOK, Shape, OneExecutor, OneExecutor', NEW t \in Threads, FinishJob(t)
  PROVE  Serves
<1>0. PICK q : q = current[t]
  OBVIOUS
<1>1. /\ q \in Queues /\ batch[t] \in Seq(Jobs) /\ batch[t] # <<>>
      /\ batch' = [batch EXCEPT ![t] = Tail(batch[t])]
      /\ ran' = [ran EXCEPT ![q] = Append(ran[q], Head(batch[t]))]
      /\ jobs' = jobs /\ current' = current
  BY <1>0, FinishFacts DEF queueVars
<1>2. batch'[t] = Tail(batch[t]) /\ \A u \in Threads \ {t} : batch'[u] = batch[u]
  BY <1>1 DEF TypeOK
<1>3. jobs[q] \in Seq(Jobs)
  BY <1>1 DEF TypeOK
<1>4. Line(q) = batch[t] \o jobs[q]
  BY <1>0, <1>1, LineServed
<1>5. Line(q)' = Tail(batch[t]) \o jobs[q]
  BY <1>0, <1>1, <1>2, LineServedNext
<1>6. Line(q) # <<>> /\ Line(q)' = Tail(Line(q)) /\ Head(Line(q)) = Head(batch[t])
  BY <1>1, <1>3, <1>4, <1>5, FirstOfLine
<1>7. \A p \in Queues \ {q} : Line(p)' = Line(p)
  <2> SUFFICES ASSUME NEW p \in Queues \ {q} PROVE Line(p)' = Line(p)
    OBVIOUS
  <2>1. CASE \A u \in Threads : current[u] # p
    BY <1>1, <2>1, LineAlone
  <2>2. CASE \E u \in Threads : current[u] = p
    <3>1. PICK u \in Threads : current[u] = p
      BY <2>2
    <3>2. u # t
      BY <1>0, <3>1
    <3>3. current'[u] = p /\ batch'[u] = batch[u] /\ jobs'[p] = jobs[p]
      BY <1>1, <1>2, <3>1, <3>2
    <3>4. Line(p) = batch[u] \o jobs[p]
      BY <3>1, LineServed
    <3>5. Line(p)' = batch'[u] \o jobs'[p]
      BY <3>3, LineServedNext
    <3> QED BY <3>3, <3>4, <3>5
  <2> QED BY <2>1, <2>2
<1> QED BY <1>1, <1>6, <1>7 DEF Serves

LEMMA PopAllStutters ==
  ASSUME TypeOK, Shape, OneExecutor, OneExecutor', NEW t \in Threads, PopAll(t)
  PROVE  Stutters
<1>0. PICK q : q = current[t]
  OBVIOUS
<1>1. /\ q \in Queues /\ batch[t] = <<>>
      /\ batch' = [batch EXCEPT ![t] = jobs[q]]
      /\ jobs'[q] = <<>>
      /\ \A p \in Queues \ {q} : jobs'[p] = jobs[p]
      /\ current' = current
  BY <1>0, PopAllFacts
<1>2. ran' = ran
  BY DEF PopAll
<1>3. batch'[t] = jobs[q] /\ \A u \in Threads \ {t} : batch'[u] = batch[u]
  BY <1>1 DEF TypeOK
<1>4. jobs[q] \in Seq(Jobs)
  BY <1>1 DEF TypeOK
<1>5. Line(q)' = Line(q)
  <2>1. Line(q) = <<>> \o jobs[q]
    BY <1>0, <1>1, LineServed
  <2>2. Line(q)' = jobs[q] \o <<>>
    BY <1>0, <1>1, <1>3, LineServedNext
  <2> QED BY <1>4, <2>1, <2>2, ConcatEmptySeq
<1>6. ASSUME NEW p \in Queues \ {q} PROVE Line(p)' = Line(p)
  <2>1. CASE \A u \in Threads : current[u] # p
    BY <1>1, <2>1, LineAlone
  <2>2. CASE \E u \in Threads : current[u] = p
    <3>1. PICK u \in Threads : current[u] = p
      BY <2>2
    <3>2. u # t
      BY <1>0, <3>1
    <3>3. current'[u] = p /\ batch'[u] = batch[u] /\ jobs'[p] = jobs[p]
      BY <1>1, <1>3, <3>1, <3>2
    <3>4. Line(p) = batch[u] \o jobs[p]
      BY <3>1, LineServed
    <3>5. Line(p)' = batch'[u] \o jobs'[p]
      BY <3>3, LineServedNext
    <3> QED BY <3>3, <3>4, <3>5
  <2> QED BY <2>1, <2>2
<1> QED BY <1>2, <1>5, <1>6 DEF Stutters

(***************************************************************************)
(* Every step either leaves all lines alone, or puts a job at the end of   *)
(* one, or ends the first job of one.                                      *)
(***************************************************************************)
LEMMA StepOfALine == IInv /\ IInv' /\ [Next]_vars => Stutters \/ Joins \/ Serves
<1> SUFFICES ASSUME TypeOK, Shape, OneExecutor, OneExecutor', [Next]_vars
             PROVE  Stutters \/ Joins \/ Serves
  BY DEF IInv, Tokens
<1>a. ASSUME UNCHANGED <<jobs, current, batch, ran>> PROVE Stutters
  BY <1>a DEF Stutters, Line
<1>b. ASSUME NEW t \in Threads, batch[t] = <<>>, UNCHANGED <<batch, jobs, ran>>,
             \A u \in Threads \ {t} : current'[u] = current[u]
      PROVE  Stutters
  BY <1>b, LineStays DEF Stutters
<1>1. ASSUME NEW t \in Threads, TakeOrPass(t) PROVE Stutters
  <2>1. UNCHANGED <<batch, jobs, ran>>
    BY <1>1 DEF TakeOrPass
  <2>2. CASE current[t] = NoQueue
    <3>1. batch[t] = <<>>
      BY <2>2 DEF Shape
    <3>2. \A u \in Threads \ {t} : current'[u] = current[u]
      BY <1>1 DEF TakeOrPass, TypeOK
    <3> QED BY <1>b, <2>1, <3>1, <3>2
  <2>3. CASE current[t] # NoQueue
    <3>1. current' = current
      BY <1>1, <2>3 DEF TakeOrPass
    <3> QED BY <1>a, <2>1, <3>1
  <2> QED BY <2>2, <2>3
<1>2. ASSUME NEW t \in Threads, Subtract(t) PROVE Stutters
  <2>1. batch[t] = <<>> /\ UNCHANGED <<batch, jobs, ran>>
    BY <1>2 DEF Subtract
  <2>2. \A u \in Threads \ {t} : current'[u] = current[u]
    BY <1>2 DEF Subtract, TypeOK
  <2> QED BY <1>b, <2>1, <2>2
<1>3. ASSUME NEW t \in Threads, HandOver(t) PROVE Stutters
  <2>1. batch[t] = <<>> /\ UNCHANGED <<batch, jobs, ran>>
    BY <1>3 DEF HandOver, Shape
  <2>2. \A u \in Threads \ {t} : current'[u] = current[u]
    BY <1>3 DEF HandOver, TypeOK
  <2> QED BY <1>b, <2>1, <2>2
<1>4. ASSUME NEW t \in Threads, TakeGlobal(t) PROVE Stutters
  <2>1. batch[t] = <<>> /\ UNCHANGED <<batch, jobs, ran>>
    BY <1>4 DEF TakeGlobal, Shape
  <2>2. \A u \in Threads \ {t} : current'[u] = current[u]
    BY <1>4 DEF TakeGlobal, TypeOK
  <2> QED BY <1>b, <2>1, <2>2
<1>5. ASSUME NEW t \in Threads, NEW j \in Jobs, DoAsync(t, j) PROVE Stutters
  BY <1>5, <1>a, CountFacts DEF DoAsync, execVars, Raises
<1>6. ASSUME NEW t \in Threads, NEW j \in Jobs, PushDue(t, j) PROVE Stutters
  BY <1>6, <1>a, CountFacts DEF PushDue, execVars, Raises
<1>7. ASSUME NEW t \in Threads, NEW j \in Jobs, DoTimer(t, j) PROVE Stutters
  BY <1>7, <1>a DEF DoTimer, queueVars, execVars
<1>8. ASSUME NEW t \in Threads, KeepGoing(t) PROVE Stutters
  BY <1>8, <1>a DEF KeepGoing, queueVars
<1>9. ASSUME NEW t \in Threads, EndDistribute(t) PROVE Stutters
  BY <1>9, <1>a DEF EndDistribute, queueVars
<1>10. ASSUME NEW t \in Threads, NEW items, TakeDue(t, items) PROVE Stutters
  BY <1>10, <1>a DEF TakeDue, queueVars
<1>11. ASSUME UNCHANGED vars PROVE Stutters
  BY <1>11, <1>a DEF vars, queueVars, execVars
<1>12. ASSUME NEW t \in Threads, GoOn(t) PROVE Stutters \/ Joins \/ Serves
  BY <1>1, <1>2, <1>3, <1>6, <1>8, <1>9, <1>12, StoreJoins, FinishServes,
     PopAllStutters DEF GoOn
<1>13. ASSUME NEW t \in Workers, TakeGlobal(t) PROVE Stutters
  BY <1>4, <1>13, JobQueueAssumption
<1>14. ASSUME TimersFire PROVE Stutters
  <2>1. PICK t \in Workers, items \in (SUBSET reserved) \ {{}} : TakeDue(t, items)
    BY <1>14 DEF TimersFire
  <2>2. t \in Threads
    BY JobQueueAssumption
  <2> QED BY <1>10, <2>1, <2>2
<1>15. ASSUME \E t \in Threads, j \in Jobs : DoAsync(t, j) \/ DoTimer(t, j)
       PROVE  Stutters
  BY <1>5, <1>7, <1>15
<1> QED BY <1>11, <1>12, <1>13, <1>14, <1>15 DEF Next

(***************************************************************************)
(* The job queues implement SerialQueue: whatever the threads do, a queue  *)
(* is a line whose jobs end one at a time in the order they were stored.   *)
(***************************************************************************)
THEOREM QueueIsALine == Spec => ImplementsSerialQueue
<1> DEFINE W == [q \in Queues |-> Line(q)]
<1>1. Init => Serial!Init
  <2> SUFFICES ASSUME Init PROVE Serial!Init
    OBVIOUS
  <2>1. \A q \in Queues : Line(q) = <<>>
    BY LineAlone, JobQueueAssumption DEF Init
  <2> QED BY <2>1 DEF Init, Serial!Init
<1>2. IInv /\ IInv' /\ [Next]_vars => [Serial!Next]_(Serial!lineVars)
  <2> SUFFICES ASSUME IInv, IInv', [Next]_vars
               PROVE  [Serial!Next]_(Serial!lineVars)
    OBVIOUS
  <2>1. W' = [q \in Queues |-> Line(q)']
    OBVIOUS
  <2>2. CASE Stutters
    <3>1. W' = W /\ ran' = ran
      BY <2>1, <2>2 DEF Stutters
    <3> QED BY <3>1 DEF Serial!lineVars
  <2>3. CASE Joins
    <3>1. PICK j \in Jobs :
            /\ ran' = ran
            /\ \A q \in Queues :
                 Line(q)' = IF q = OwnerOf[j] THEN Append(Line(q), j) ELSE Line(q)
      BY <2>3 DEF Joins
    <3>2. OwnerOf[j] \in Queues
      BY JobQueueAssumption
    <3>3. W' = [W EXCEPT ![OwnerOf[j]] = Append(W[OwnerOf[j]], j)]
      BY <2>1, <3>1, <3>2
    <3>4. Serial!Join(j)
      BY <3>1, <3>3 DEF Serial!Join
    <3> QED BY <3>4 DEF Serial!Next
  <2>4. CASE Serves
    <3>1. PICK q \in Queues :
            /\ Line(q) # <<>>
            /\ Line(q)' = Tail(Line(q))
            /\ \A p \in Queues \ {q} : Line(p)' = Line(p)
            /\ ran' = [ran EXCEPT ![q] = Append(ran[q], Head(Line(q)))]
      BY <2>4 DEF Serves
    <3>2. W[q] = Line(q)
      OBVIOUS
    <3>3. W' = [W EXCEPT ![q] = Tail(W[q])]
      BY <2>1, <3>1, <3>2
    <3>4. Serial!RunFirst(q)
      BY <3>1, <3>2, <3>3 DEF Serial!RunFirst
    <3> QED BY <3>4 DEF Serial!Next
  <2> QED BY <2>2, <2>3, <2>4, StepOfALine
<1> QED BY <1>1, <1>2, Inductive, PTL DEF Spec, ImplementsSerialQueue, Serial!Spec
=============================================================================
