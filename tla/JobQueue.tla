------------------------------ MODULE JobQueue ------------------------------
(***************************************************************************)
(* ServerCore/Job: the queues that serialise the work of a room.           *)
(*                                                                         *)
(* A JobQueue has no thread of its own.  A push first counts the job, then *)
(* stores it.  The thread that raised the count from zero is responsible   *)
(* for the queue: it executes the queue itself, or leaves it in the        *)
(* GlobalQueue for a worker.  An execution takes all stored jobs, runs      *)
(* them, and subtracts them from the count; it ends when nothing is left,  *)
(* and otherwise goes on, or, when the time of its thread is over, hands   *)
(* the queue to the GlobalQueue.                                           *)
(*                                                                         *)
(* Threads are the workers (GameServer.cpp DoWorkerJob), which also take   *)
(* queues from the GlobalQueue and distribute due timers, and the others   *)
(* (DB threads, the main thread), which only push.  A thread pushes from   *)
(* its own handler, or from inside a job it is running.                    *)
(*                                                                         *)
(* Every job is pushed at most once, so `Jobs' bounds a behaviour.  The    *)
(* queues outlive the run: the rooms and the session queue are created     *)
(* once, and the weak reference of a timer can always be locked.           *)
(***************************************************************************)
EXTENDS Integers, Sequences, FiniteSets

CONSTANTS
  Threads,
  Workers,    \* the threads that run DoWorkerJob
  Queues,     \* JobQueue objects: rooms, the session queue
  NoQueue,    \* nullptr
  Jobs,
  OwnerOf     \* the queue a job is pushed to

ASSUME JobQueueAssumption ==
  /\ IsFiniteSet(Threads)
  /\ Workers \subseteq Threads
  /\ NoQueue \notin Queues
  /\ OwnerOf \in [Jobs -> Queues]

VARIABLES
  jobs,         \* JobQueue::_jobs
  count,        \* JobQueue::_jobCount
  global,       \* GlobalQueue::_jobQueues
  current,      \* LCurrentJobQueue of each thread
  step,         \* where a thread is in Execute or in Distribute
  batch,        \* Execute: the jobs it took out and has not finished
  taken,        \* Execute: jobCount
  pushing,      \* the push a thread is in
  fresh,        \* jobs not yet pushed nor reserved
  reserved,     \* JobTimer::_items
  distributing, \* JobTimer::_distributing
  due,          \* Distribute: the items it took out and has not pushed
  ran           \* history: the jobs that have ended, per queue

queueVars == <<jobs, count, global>>
execVars == <<current, step, batch, taken>>
timerVars == <<reserved, distributing, due>>
vars == <<queueVars, execVars, pushing, fresh, timerVars, ran>>

Steps == {"idle", "pop", "run", "clock", "distribute"}

NoPush == [on |-> FALSE]

(***************************************************************************)
(* A push in progress: `first' says that it raised the count from zero,    *)
(* `stored' that the job is in _jobs.                                      *)
(***************************************************************************)
AnyPush == [on : {TRUE}, job : Jobs, first : BOOLEAN, pushOnly : BOOLEAN,
            stored : BOOLEAN]

(* Every variable has its type; in particular no count is ever negative.   *)
TypeOK ==
  /\ jobs \in [Queues -> Seq(Jobs)]
  /\ count \in [Queues -> Nat]
  /\ global \in Seq(Queues)
  /\ current \in [Threads -> Queues \cup {NoQueue}]
  /\ step \in [Threads -> Steps]
  /\ batch \in [Threads -> Seq(Jobs)]
  /\ taken \in [Threads -> Nat]
  /\ pushing \in [Threads -> AnyPush \cup {NoPush}]
  /\ fresh \subseteq Jobs
  /\ reserved \subseteq Jobs
  /\ distributing \in BOOLEAN
  /\ due \in [Threads -> SUBSET Jobs]
  /\ ran \in [Queues -> Seq(Jobs)]

Init ==
  /\ jobs = [q \in Queues |-> <<>>]
  /\ count = [q \in Queues |-> 0]
  /\ global = <<>>
  /\ current = [t \in Threads |-> NoQueue]
  /\ step = [t \in Threads |-> "idle"]
  /\ batch = [t \in Threads |-> <<>>]
  /\ taken = [t \in Threads |-> 0]
  /\ pushing = [t \in Threads |-> NoPush]
  /\ fresh = Jobs
  /\ reserved = {}
  /\ distributing = FALSE
  /\ due = [t \in Threads |-> {}]
  /\ ran = [q \in Queues |-> <<>>]

Goto(t, label) == step' = [step EXCEPT ![t] = label]

-----------------------------------------------------------------------------
(* JobQueue::Push *)

(***************************************************************************)
(* _jobCount.fetch_add(1): the job is counted before it can be seen.       *)
(***************************************************************************)
Count(t, j, pushOnly) ==
  LET q == OwnerOf[j] IN
  /\ pushing[t] = NoPush
  /\ count' = [count EXCEPT ![q] = @ + 1]
  /\ pushing' = [pushing EXCEPT ![t] =
       [on |-> TRUE, job |-> j, first |-> count[q] = 0,
        pushOnly |-> pushOnly, stored |-> FALSE]]
  /\ UNCHANGED <<jobs, global>>

(* Deviation: a stack.                                                     *)
Store_Newest(t) ==
  LET q == OwnerOf[pushing[t].job] IN
  /\ pushing[t].on /\ ~pushing[t].stored
  /\ jobs' = [jobs EXCEPT ![q] = <<pushing[t].job>> \o @]
  /\ pushing' = [pushing EXCEPT ![t] =
       IF @.first THEN [@ EXCEPT !.stored = TRUE] ELSE NoPush]
  /\ UNCHANGED <<count, global, execVars, fresh, timerVars, ran>>

(***************************************************************************)
(* _jobs.Push(job).  A push that did not raise the count from zero is done.*)
(***************************************************************************)
Store(t) ==
  LET q == OwnerOf[pushing[t].job] IN
  /\ pushing[t].on /\ ~pushing[t].stored
  /\ jobs' = [jobs EXCEPT ![q] = Append(@, pushing[t].job)]
  /\ pushing' = [pushing EXCEPT ![t] =
       IF @.first THEN [@ EXCEPT !.stored = TRUE] ELSE NoPush]
  /\ UNCHANGED <<count, global, execVars, fresh, timerVars, ran>>

(* Deviation: a push that must not execute leaves the queue to nobody.     *)
TakeOrPass_Dropping(t) ==
  LET q == OwnerOf[pushing[t].job] IN
  /\ pushing[t].on /\ pushing[t].stored
  /\ pushing' = [pushing EXCEPT ![t] = NoPush]
  /\ IF current[t] = NoQueue /\ ~pushing[t].pushOnly
     THEN /\ current' = [current EXCEPT ![t] = q]
          /\ Goto(t, "pop")
     ELSE UNCHANGED <<current, step>>
  /\ UNCHANGED <<queueVars, batch, taken, fresh, timerVars, ran>>

(***************************************************************************)
(* The responsible thread: it calls Execute unless it is already in one or *)
(* the push must not execute, and otherwise passes the queue on.           *)
(***************************************************************************)
TakeOrPass(t) ==
  LET q == OwnerOf[pushing[t].job] IN
  /\ pushing[t].on /\ pushing[t].stored
  /\ pushing' = [pushing EXCEPT ![t] = NoPush]
  /\ IF current[t] = NoQueue /\ ~pushing[t].pushOnly
     THEN /\ current' = [current EXCEPT ![t] = q]
          /\ Goto(t, "pop")
          /\ UNCHANGED global
     ELSE /\ global' = Append(global, q)
          /\ UNCHANGED <<current, step>>
  /\ UNCHANGED <<jobs, count, batch, taken, fresh, timerVars, ran>>

-----------------------------------------------------------------------------
(* The callers of Push and Reserve *)

(***************************************************************************)
(* A thread runs code that may push: its own handler, or the job at the    *)
(* head of its batch.                                                      *)
(***************************************************************************)
InHandler(t) ==
  \/ step[t] = "idle"
  \/ step[t] = "run" /\ batch[t] # <<>>

DoAsync(t, j) ==
  /\ InHandler(t)
  /\ j \in fresh
  /\ fresh' = fresh \ {j}
  /\ Count(t, j, FALSE)
  /\ UNCHANGED <<execVars, timerVars, ran>>

DoTimer(t, j) ==
  /\ InHandler(t)
  /\ pushing[t] = NoPush
  /\ j \in fresh
  /\ fresh' = fresh \ {j}
  /\ reserved' = reserved \cup {j}
  /\ UNCHANGED <<queueVars, execVars, pushing, distributing, due, ran>>

-----------------------------------------------------------------------------
(* JobQueue::Execute *)

PopAll(t) ==
  LET q == current[t] IN
  /\ step[t] = "pop"
  /\ batch' = [batch EXCEPT ![t] = jobs[q]]
  /\ taken' = [taken EXCEPT ![t] = Len(jobs[q])]
  /\ jobs' = [jobs EXCEPT ![q] = <<>>]
  /\ Goto(t, "run")
  /\ UNCHANGED <<count, global, current, pushing, fresh, timerVars, ran>>

(* The job at the head of the batch returns.                               *)
FinishJob(t) ==
  /\ step[t] = "run" /\ batch[t] # <<>>
  /\ pushing[t] = NoPush
  /\ ran' = [ran EXCEPT ![current[t]] = Append(@, Head(batch[t]))]
  /\ batch' = [batch EXCEPT ![t] = Tail(@)]
  /\ UNCHANGED <<queueVars, current, step, taken, pushing, fresh, timerVars>>

(* Deviation: the execution ends when _jobs is empty, whatever is counted. *)
Subtract_WhenEmpty(t) ==
  LET q == current[t] IN
  /\ step[t] = "run" /\ batch[t] = <<>>
  /\ taken' = [taken EXCEPT ![t] = 0]
  /\ IF jobs[q] = <<>>
     THEN /\ count' = [count EXCEPT ![q] = 0]
          /\ current' = [current EXCEPT ![t] = NoQueue]
          /\ Goto(t, "idle")
     ELSE /\ count' = [count EXCEPT ![q] = @ - taken[t]]
          /\ UNCHANGED current
          /\ Goto(t, "clock")
  /\ UNCHANGED <<jobs, global, batch, pushing, fresh, timerVars, ran>>

(***************************************************************************)
(* _jobCount.fetch_sub(jobCount): the execution ends only when everything  *)
(* counted has run, a job that is counted and not yet stored included.     *)
(***************************************************************************)
Subtract(t) ==
  LET q == current[t] IN
  /\ step[t] = "run" /\ batch[t] = <<>>
  /\ count' = [count EXCEPT ![q] = @ - taken[t]]
  /\ taken' = [taken EXCEPT ![t] = 0]
  /\ IF count[q] = taken[t]
     THEN /\ current' = [current EXCEPT ![t] = NoQueue]
          /\ Goto(t, "idle")
     ELSE /\ UNCHANGED current
          /\ Goto(t, "clock")
  /\ UNCHANGED <<jobs, global, batch, pushing, fresh, timerVars, ran>>

(***************************************************************************)
(* now < LEndTickCount.  Only workers set LEndTickCount; it is 0 in every  *)
(* other thread, which hands the queue over after one batch.               *)
(***************************************************************************)
KeepGoing(t) ==
  /\ step[t] = "clock" /\ t \in Workers
  /\ Goto(t, "pop")
  /\ UNCHANGED <<queueVars, current, batch, taken, pushing, fresh, timerVars, ran>>

(* Deviation: the thread goes on with the queue it has passed on.          *)
HandOver_GoingOn(t) ==
  /\ step[t] = "clock"
  /\ Goto(t, "pop")
  /\ global' = Append(global, current[t])
  /\ UNCHANGED <<jobs, count, current, batch, taken, pushing, fresh, timerVars, ran>>

HandOver(t) ==
  /\ step[t] = "clock"
  /\ current' = [current EXCEPT ![t] = NoQueue]
  /\ Goto(t, "idle")
  /\ global' = Append(global, current[t])
  /\ UNCHANGED <<jobs, count, batch, taken, pushing, fresh, timerVars, ran>>

-----------------------------------------------------------------------------
(* The worker's loop *)

(***************************************************************************)
(* ThreadManager::DoGlobalQueueWork                                        *)
(***************************************************************************)
TakeGlobal(t) ==
  /\ t \in Workers
  /\ step[t] = "idle" /\ pushing[t] = NoPush
  /\ global # <<>>
  /\ current' = [current EXCEPT ![t] = Head(global)]
  /\ global' = Tail(global)
  /\ Goto(t, "pop")
  /\ UNCHANGED <<jobs, count, batch, taken, pushing, fresh, timerVars, ran>>

(***************************************************************************)
(* JobTimer::Distribute up to the pushes: one thread passes, and takes out *)
(* the items whose time has come.  Which ones have is up to the clock.     *)
(***************************************************************************)
TakeDue(t, items) ==
  /\ t \in Workers
  /\ step[t] = "idle" /\ pushing[t] = NoPush
  /\ ~distributing
  /\ distributing' = TRUE
  /\ reserved' = reserved \ items
  /\ due' = [due EXCEPT ![t] = items]
  /\ Goto(t, "distribute")
  /\ UNCHANGED <<queueVars, current, batch, taken, pushing, fresh, ran>>

PushDue(t, j) ==
  /\ step[t] = "distribute"
  /\ j \in due[t]
  /\ due' = [due EXCEPT ![t] = @ \ {j}]
  /\ Count(t, j, TRUE)
  /\ UNCHANGED <<execVars, fresh, reserved, distributing, ran>>

EndDistribute(t) ==
  /\ step[t] = "distribute" /\ due[t] = {} /\ pushing[t] = NoPush
  /\ distributing' = FALSE
  /\ Goto(t, "idle")
  /\ UNCHANGED <<queueVars, current, batch, taken, pushing, fresh, reserved, due, ran>>

-----------------------------------------------------------------------------

(* What a thread goes on with once it has begun it.                        *)
GoOn(t) ==
  \/ Store(t) \/ TakeOrPass(t)
  \/ PopAll(t) \/ FinishJob(t) \/ Subtract(t) \/ KeepGoing(t) \/ HandOver(t)
  \/ \E j \in Jobs : PushDue(t, j)
  \/ EndDistribute(t)

TimersFire == \E t \in Workers, items \in (SUBSET reserved) \ {{}} : TakeDue(t, items)

Next ==
  \/ \E t \in Threads : GoOn(t)
  \/ \E t \in Threads, j \in Jobs : DoAsync(t, j) \/ DoTimer(t, j)
  \/ \E t \in Workers : TakeGlobal(t)
  \/ TimersFire

Spec == Init /\ [][Next]_vars

(***************************************************************************)
(* Every thread is scheduled and every job returns; some worker keeps      *)
(* going round its loop (DoWorkerJob runs until shutdown), so it looks     *)
(* into the GlobalQueue and at the timers, and time passes.                *)
(***************************************************************************)
FairSpec ==
  /\ Spec
  /\ \A t \in Threads : WF_vars(GoOn(t))
  /\ WF_vars(\E t \in Workers : TakeGlobal(t))
  /\ WF_vars(TimersFire)

-----------------------------------------------------------------------------
(* Properties *)

(***************************************************************************)
(* No queue is executed by two threads: the state of a room needs no lock. *)
(***************************************************************************)
OneExecutor ==
  \A t, u \in Threads :
    current[t] = current[u] /\ current[t] # NoQueue => t = u

(* The thread, or the place in the GlobalQueue, responsible for a queue.   *)
Responsible(t, q) ==
  \/ current[t] = q
  \/ pushing[t].on /\ pushing[t].first /\ OwnerOf[pushing[t].job] = q

InGlobal(q) == \E i \in 1 .. Len(global) : global[i] = q

(***************************************************************************)
(* A queue with jobs in it is never left alone: a thread is executing it   *)
(* or about to, or it is in the GlobalQueue.                               *)
(***************************************************************************)
WorkIsOwned ==
  \A q \in Queues :
    jobs[q] # <<>> => InGlobal(q) \/ \E t \in Threads : Responsible(t, q)

(* The jobs of the thread that executes the queue, then those in the queue.*)
Line(q) ==
  IF \E t \in Threads : current[t] = q
  THEN batch[CHOOSE t \in Threads : current[t] = q] \o jobs[q]
  ELSE jobs[q]

Serial == INSTANCE SerialQueue WITH waiting <- [q \in Queues |-> Line(q)]

(***************************************************************************)
(* Every queue is a line: its jobs end one after the other in the order    *)
(* they were stored, none lost and none twice, whichever threads run them. *)
(***************************************************************************)
ImplementsSerialQueue == Serial!Spec

(***************************************************************************)
(* Every job that was pushed or reserved is run.                           *)
(***************************************************************************)
EveryJobRuns ==
  \A j \in Jobs :
    (j \notin fresh) ~> \E i \in 1 .. Len(ran[OwnerOf[j]]) : ran[OwnerOf[j]][i] = j
=============================================================================
