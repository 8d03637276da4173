--------------------------- MODULE SocketSessions ---------------------------
(***************************************************************************)
(* The connections of the server (ServerCore/Network/Session.cpp,          *)
(* Service.cpp): a send queue behind a lock, one send in flight, a         *)
(* connected flag that any thread may take down, DisconnectAfterSend, and  *)
(* the time limits that end what a client never answers.                   *)
(*                                                                         *)
(* Sockets are outcomes: an I/O request is accepted, refused or completes. *)
(* Packets are counted, since a send takes all that is queued.             *)
(*                                                                         *)
(* Most of what a thread does under a session's lock is one action.  The   *)
(* exception is a refused send: Disconnect then runs under the lock, and   *)
(* if the disconnection is refused too, so does OnDisconnected, which may  *)
(* run the room's jobs on this thread and send to other sessions.          *)
(***************************************************************************)
EXTENDS Naturals, FiniteSets

CONSTANTS
  Sessions,
  Workers,          \* the threads that call into sessions
  MaxSessionCount,  \* Service::_maxSessionCount
  MaxSends,         \* bound: how many sends begin
  NoWorker, NoSession

ASSUME NetAssumption ==
  /\ IsFiniteSet(Sessions)
  /\ MaxSessionCount \in Nat
  /\ MaxSends \in Nat
  /\ NoWorker \notin Workers
  /\ NoSession \notin Sessions

VARIABLES
  conn,       \* the fields of each Session
  lock,       \* the worker that keeps a session's lock over several actions
  worker,     \* where each worker is
  served,     \* Service::_sessions
  sends,      \* how many sends have begun
  farewells,  \* history: OnDisconnected calls of each session
  debt        \* history: what the first DisconnectAfterSend has still to wait for

netVars == <<conn, lock, worker, served, sends, farewells, debt>>

Conn ==
  [connected : BOOLEAN,     \* _connected
   queue : Nat,             \* _sendQueue
   inFlight : Nat,          \* _sendEvent.sendBuffers of a send that will complete
   registered : BOOLEAN,    \* _sendRegistered
   cause : BOOLEAN,         \* _disconnectAfterSendCause
   ending : {"no", "pending", "done"},  \* DisconnectEx, _disconnectCompleted
   closed : BOOLEAN,        \* _socketClosed
   kicked : BOOLEAN]        \* the one-second timer of SendPacketAndDisconnect

NewConn ==
  [connected |-> FALSE, queue |-> 0, inFlight |-> 0, registered |-> FALSE,
   cause |-> FALSE, ending |-> "no", closed |-> FALSE, kicked |-> FALSE]

\* "send" and "reason": checked the flag, wants the lock to push a packet; after
\* "reason" comes "kick", DisconnectAfterSend.  "drop": about to disconnect, without
\* the lock.  "leave": in OnDisconnected of s, `rest' are the sessions it has still
\* to tell; "tell": checked the flag of `other', wants its lock.
Steps == {"idle", "send", "reason", "kick", "drop", "leave", "tell"}
Target == Sessions \cup {NoSession}
Worker == [step : Steps, s : Target, other : Target, rest : SUBSET Sessions]
Resting == [step |-> "idle", s |-> NoSession, other |-> NoSession, rest |-> {}]

NetTypeOK ==
  /\ conn \in [Sessions -> Conn]
  /\ lock \in [Sessions -> Workers \cup {NoWorker}]
  /\ worker \in [Workers -> Worker]
  /\ served \subseteq Sessions
  /\ sends \in 0 .. MaxSends
  /\ farewells \in [Sessions -> Nat]
  /\ debt \in [Sessions -> Nat]

NetInit ==
  /\ conn = [s \in Sessions |-> NewConn]
  /\ lock = [s \in Sessions |-> NoWorker]
  /\ worker = [t \in Workers |-> Resting]
  /\ served = {}
  /\ sends = 0
  /\ farewells = [s \in Sessions |-> 0]
  /\ debt = [s \in Sessions |-> 0]

Idle(t) == worker[t].step = "idle"
Free(s) == lock[s] = NoWorker
Goto(t, step, s) == worker' = [worker EXCEPT ![t].step = step, ![t].s = s]
Then(t, then) == worker' = [worker EXCEPT ![t] = IF then = "idle" THEN Resting
                                                 ELSE [@ EXCEPT !.step = then]]
Rest(t) == worker' = [worker EXCEPT ![t] = Resting]

(***************************************************************************)
(* Session::Disconnect of a connected session, the fields c given, by a    *)
(* worker that keeps its lock or not.  The disconnection is registered, or *)
(* refused: then the socket is closed and ProcessDisconnect runs here.     *)
(* OnDisconnected pushes the departure to the player's room; a worker that *)
(* is in no job queue may run it, and tells the players around.            *)
(***************************************************************************)

ProcessDisconnect(t, s, c, held) ==
  /\ conn' = [conn EXCEPT ![s] = [c EXCEPT !.connected = FALSE, !.ending = "done"]]
  /\ farewells' = [farewells EXCEPT ![s] = @ + 1]
  /\ \E around \in SUBSET (served \ {s}) :
       worker' = [worker EXCEPT ![t] = [@ EXCEPT !.step = "leave", !.s = s, !.rest = around]]
  /\ lock' = IF held THEN [lock EXCEPT ![s] = t] ELSE lock

Disconnect(t, s, c, held) ==
  \/ /\ conn' = [conn EXCEPT ![s] =
                   [c EXCEPT !.connected = FALSE, !.ending = "pending",
                             !.registered = IF held THEN FALSE ELSE @]]
     /\ Rest(t)
     /\ UNCHANGED <<lock, farewells>>
  \/ ProcessDisconnect(t, s, [c EXCEPT !.closed = TRUE], held)

\* Deviation: the flag is not looked at.
DisconnectOnce_Again(t, s) == Disconnect(t, s, conn[s], FALSE)

\* Nobody who called Disconnect second does anything.
DisconnectOnce(t, s) ==
  IF conn[s].connected THEN Disconnect(t, s, conn[s], FALSE)
  ELSE Rest(t) /\ UNCHANGED <<conn, lock, farewells>>

\* Session::RegisterSend under the lock, the fields c given: all that is queued goes
\* into one send; or the session is no longer connected and everything stays; or
\* the send is refused and what was taken is lost.
RegisterSend(t, s, c, then) ==
  \/ /\ conn' = [conn EXCEPT ![s] =
                   IF c.connected THEN [c EXCEPT !.inFlight = c.queue, !.queue = 0] ELSE c]
     /\ Then(t, then)
     /\ UNCHANGED <<lock, farewells>>
  \/ /\ c.connected
     /\ Disconnect(t, s, [c EXCEPT !.queue = 0], TRUE)

(***************************************************************************)
(* Connecting                                                              *)
(***************************************************************************)

\* Session::ProcessConnect with Service::AddSession: refused above the limit.
ProcessConnect(s) ==
  /\ conn[s] = NewConn
  /\ Cardinality(served) < MaxSessionCount
  /\ served' = served \cup {s}
  /\ conn' = [conn EXCEPT ![s].connected = TRUE]
  /\ UNCHANGED <<lock, worker, sends, farewells, debt>>

(***************************************************************************)
(* Sending                                                                 *)
(***************************************************************************)

\* Session::Send up to its lock: the flag is read without it.
BeginSend(t, s) ==
  /\ Idle(t)
  /\ sends < MaxSends
  /\ conn[s].connected
  /\ sends' = sends + 1
  /\ Goto(t, "send", s)
  /\ UNCHANGED <<conn, lock, served, farewells, debt>>

\* SendPacketAndDisconnect up to the lock of its Send.
BeginKick(t, s) ==
  /\ Idle(t)
  /\ sends < MaxSends
  /\ conn[s] # NewConn
  /\ sends' = sends + 1
  /\ Goto(t, IF conn[s].connected THEN "reason" ELSE "kick", s)
  /\ UNCHANGED <<conn, lock, served, farewells, debt>>

\* The rest of Session::Send, under the lock.  Who loses the connection here has
\* nothing more to do for it.
Send(t) ==
  LET s == worker[t].s
      pushed == [conn[s] EXCEPT !.queue = @ + 1, !.registered = TRUE]
      then == IF worker[t].step = "reason" THEN "kick" ELSE "idle"
  IN
  /\ worker[t].step \in {"send", "reason"}
  /\ Free(s)
  /\ IF conn[s].cause THEN Then(t, then) /\ UNCHANGED <<conn, lock, farewells>>
     ELSE IF ~ conn[s].registered THEN RegisterSend(t, s, pushed, then)
     ELSE /\ conn' = [conn EXCEPT ![s] = pushed]
          /\ Then(t, then)
          /\ UNCHANGED <<lock, farewells>>
  /\ UNCHANGED <<served, sends, debt>>

\* Deviation: what was queued meanwhile is left to the next Send.
ProcessSend_QueueLeft(t, s) ==
  /\ Idle(t)
  /\ conn[s].inFlight > 0
  /\ Free(s)
  /\ conn' = [conn EXCEPT ![s].inFlight = 0, ![s].registered = FALSE]
  /\ IF conn[s].cause THEN Goto(t, "drop", s) ELSE UNCHANGED worker
  /\ UNCHANGED <<lock, served, sends, farewells, debt>>

\* Session::ProcessSend of a completed send.
ProcessSend(t, s) ==
  /\ Idle(t)
  /\ conn[s].inFlight > 0
  /\ Free(s)
  /\ LET sent == [conn[s] EXCEPT !.inFlight = 0] IN
     IF sent.queue > 0 THEN RegisterSend(t, s, sent, "idle")
     ELSE /\ conn' = [conn EXCEPT ![s] = [sent EXCEPT !.registered = FALSE]]
          /\ IF sent.cause THEN Goto(t, "drop", s) ELSE UNCHANGED worker
          /\ UNCHANGED <<lock, farewells>>
  /\ debt' = [debt EXCEPT ![s] = IF @ < conn[s].inFlight THEN 0 ELSE @ - conn[s].inFlight]
  /\ UNCHANGED <<served, sends>>

\* A send that completes with nothing sent: it stays registered.
SendFails(t, s) ==
  /\ Idle(t)
  /\ conn[s].inFlight > 0
  /\ LET failed == [conn[s] EXCEPT !.inFlight = 0] IN
     IF failed.connected THEN Disconnect(t, s, failed, FALSE)
     ELSE /\ conn' = [conn EXCEPT ![s] = failed]
          /\ UNCHANGED <<worker, lock, farewells>>
  /\ UNCHANGED <<served, sends, debt>>

(***************************************************************************)
(* Disconnecting                                                           *)
(***************************************************************************)

\* Deviation: it disconnects at once.
DisconnectAfterSend_AtOnce(t) ==
  LET s == worker[t].s IN
  /\ worker[t].step = "kick"
  /\ Free(s)
  /\ conn' = [conn EXCEPT ![s].kicked = TRUE, ![s].cause = TRUE]
  /\ Goto(t, "drop", s)
  /\ debt' = [debt EXCEPT ![s] = conn[s].queue + conn[s].inFlight]
  /\ UNCHANGED <<lock, served, sends, farewells>>

\* With a send registered, the completion that empties the queue disconnects;
\* otherwise this thread does, after the lock.  Then SendPacketAndDisconnect sets its
\* time limit.
DisconnectAfterSend(t) ==
  LET s == worker[t].s
      c == conn[s]
  IN
  /\ worker[t].step = "kick"
  /\ Free(s)
  /\ conn' = [conn EXCEPT ![s].kicked = TRUE, ![s].cause = @ \/ c.registered]
  /\ IF c.cause \/ c.registered THEN Rest(t) ELSE Goto(t, "drop", s)
  /\ debt' = [debt EXCEPT ![s] = IF c.kicked THEN @ ELSE c.queue + c.inFlight]
  /\ UNCHANGED <<lock, served, sends, farewells>>

Drop(t) ==
  /\ worker[t].step = "drop"
  /\ DisconnectOnce(t, worker[t].s)
  /\ UNCHANGED <<served, sends, debt>>

\* The limit of SendPacketAndDisconnect.
KickTimeout(t, s) ==
  /\ Idle(t)
  /\ conn[s].kicked /\ conn[s].connected
  /\ Disconnect(t, s, conn[s], FALSE)
  /\ UNCHANGED <<served, sends, debt>>

\* A receive that ends, overflows or cannot be registered (ProcessRecv,
\* RegisterRecv), or the shutdown: Disconnect at any time.
Hangup(t, s) ==
  /\ Idle(t)
  /\ conn[s].connected
  /\ Disconnect(t, s, conn[s], FALSE)
  /\ UNCHANGED <<served, sends, debt>>

\* DisconnectEx completes: the client closed too, or the socket was closed.
DisconnectCompletes(t, s) ==
  /\ Idle(t)
  /\ conn[s].ending = "pending"
  /\ ProcessDisconnect(t, s, conn[s], FALSE)
  /\ UNCHANGED <<served, sends, debt>>

\* Deviation: the time limit leaves alone a session that is disconnected already.
DisconnectTimeout_IfConnected(s) ==
  /\ conn[s].ending = "pending"
  /\ conn[s].connected
  /\ ~ conn[s].closed
  /\ conn' = [conn EXCEPT ![s].closed = TRUE]
  /\ UNCHANGED <<lock, worker, served, sends, farewells, debt>>

\* The limit of Disconnect: DISCONNECT_TIMEOUT_MS.
DisconnectTimeout(s) ==
  /\ conn[s].ending = "pending"
  /\ ~ conn[s].closed
  /\ conn' = [conn EXCEPT ![s].closed = TRUE]
  /\ UNCHANGED <<lock, worker, served, sends, farewells, debt>>

(***************************************************************************)
(* The departure that OnDisconnected runs on the same thread               *)
(***************************************************************************)

\* Deviation: a disconnected session is waited for like any other.
Tell_Unchecked(t, n) ==
  /\ worker[t].step = "leave"
  /\ n \in worker[t].rest
  /\ worker' = [worker EXCEPT ![t].step = "tell", ![t].other = n, ![t].rest = @ \ {n}]
  /\ UNCHANGED <<conn, lock, served, sends, farewells, debt>>

\* Session::Send to a session around reads its flag before it wants its lock.
Tell(t, n) ==
  /\ worker[t].step = "leave"
  /\ n \in worker[t].rest
  /\ worker' = [worker EXCEPT ![t].rest = @ \ {n},
                               ![t].step = IF conn[n].connected THEN "tell" ELSE @,
                               ![t].other = IF conn[n].connected THEN n ELSE @]
  /\ UNCHANGED <<conn, lock, served, sends, farewells, debt>>

\* The rest of that Send.  The thread is in a room's queue now: if this send is
\* refused as well, the departure of `other' is only pushed.
Told(t) ==
  LET n == worker[t].other
      pushed == [conn[n] EXCEPT !.queue = @ + 1, !.registered = TRUE]
      taken == [pushed EXCEPT !.inFlight = @ + pushed.queue, !.queue = 0]
      refused == [pushed EXCEPT !.queue = 0, !.registered = FALSE, !.connected = FALSE]
  IN
  /\ worker[t].step = "tell"
  /\ Free(n)
  /\ worker' = [worker EXCEPT ![t].step = "leave", ![t].other = NoSession]
  /\ IF conn[n].cause THEN UNCHANGED <<conn, served, farewells>>
     ELSE IF conn[n].registered \/ ~ conn[n].connected
     THEN conn' = [conn EXCEPT ![n] = pushed] /\ UNCHANGED <<served, farewells>>
     ELSE \/ conn' = [conn EXCEPT ![n] = taken] /\ UNCHANGED <<served, farewells>>
          \/ /\ conn' = [conn EXCEPT ![n] = [refused EXCEPT !.ending = "pending"]]
             /\ UNCHANGED <<served, farewells>>
          \/ /\ conn' = [conn EXCEPT ![n] =
                           [refused EXCEPT !.ending = "done", !.closed = TRUE]]
             /\ farewells' = [farewells EXCEPT ![n] = @ + 1]
             /\ served' = served \ {n}
  /\ UNCHANGED <<lock, sends, debt>>

\* OnDisconnected is over: RemoveSession, and the end of the refused send if this
\* thread came from one.
Left(t) ==
  LET s == worker[t].s IN
  /\ worker[t].step = "leave"
  /\ worker[t].rest = {}
  /\ served' = served \ {s}
  /\ Rest(t)
  /\ lock' = [lock EXCEPT ![s] = IF @ = t THEN NoWorker ELSE @]
  /\ conn' = [conn EXCEPT ![s].registered = IF lock[s] = t THEN FALSE ELSE @]
  /\ UNCHANGED <<sends, farewells, debt>>

(***************************************************************************)
(* All of it                                                               *)
(***************************************************************************)

WorkerStep(t) ==
  \/ Send(t) \/ DisconnectAfterSend(t) \/ Drop(t) \/ Told(t) \/ Left(t)
  \/ \E n \in Sessions : Tell(t, n)

SessionStep(t, s) ==
  \/ BeginSend(t, s) \/ BeginKick(t, s) \/ ProcessSend(t, s) \/ SendFails(t, s)
  \/ KickTimeout(t, s) \/ Hangup(t, s) \/ DisconnectCompletes(t, s)

NetNext ==
  \/ \E s \in Sessions : ProcessConnect(s) \/ DisconnectTimeout(s)
  \/ \E t \in Workers : WorkerStep(t)
  \/ \E t \in Workers, s \in Sessions : SessionStep(t, s)

NetSpec == NetInit /\ [][NetNext]_netVars

\* A thread goes on with what it began, the two time limits run out, and a closed
\* socket completes its DisconnectEx.
NetFairness ==
  /\ \A t \in Workers : WF_netVars(WorkerStep(t))
  /\ \A s \in Sessions :
       /\ WF_netVars(DisconnectTimeout(s))
       /\ WF_netVars(\E t \in Workers : KickTimeout(t, s))
       /\ WF_netVars(conn[s].closed /\ \E t \in Workers : DisconnectCompletes(t, s))

(***************************************************************************)
(* Properties                                                              *)
(***************************************************************************)

Leaving(t) == worker[t].step \in {"leave", "tell"}

\* OnDisconnected runs once for a connection, whoever disconnects it and however
\* the disconnection ends, and the session is still registered then: the assertion
\* in Service::RemoveSession holds.
OneFarewell ==
  /\ \A s \in Sessions : farewells[s] <= 1
  /\ \A t \in Workers : Leaving(t) => worker[t].s \in served

\* A packet in the queue of a connection has a send in flight whose completion will
\* take it along: no order of sends and completions leaves it behind.
NoStuckSend ==
  \A s \in Sessions : conn[s].connected /\ conn[s].queue > 0 => conn[s].inFlight > 0

\* A thread that is about to disconnect after a send has nothing of it left to wait
\* for: the reason for the disconnection was sent first (Session.h on
\* DisconnectAfterSend).
KickSendsFirst ==
  \A t \in Workers :
    worker[t].step = "drop" /\ conn[worker[t].s].connected => debt[worker[t].s] = 0

\* t waits, in the middle of a departure, for a lock that u keeps.
WaitsFor(t, u) == worker[t].step = "tell" /\ lock[worker[t].other] = u

\* Threads that run a departure under a session's lock never all wait for each
\* other: Send reads the flag before the lock, and who keeps a lock took the flag
\* down first.
NoLockCycle ==
  \A W \in (SUBSET Workers) \ {{}} : \E t \in W : \A u \in W : ~ WaitsFor(t, u)

\* A connection that was told to go is gone some time: OnDisconnected runs, although
\* its client never reads and never closes.
KickedConnectionEnds ==
  \A s \in Sessions : conn[s].kicked ~> farewells[s] > 0
=============================================================================
