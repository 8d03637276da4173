--------------------------- MODULE ServerShutdown ---------------------------
(***************************************************************************)
(* The end of the game server (GameServer.cpp, Shutdown): no new           *)
(* connections, every session disconnected, the rooms' queues drained, the *)
(* DB queues stopped, the threads joined.  What a departure does in its    *)
(* room is in PlayerRooms; here it is a job that hands the save to a DB    *)
(* queue, or follows a player that moved on into the queue of another room.*)
(***************************************************************************)
EXTENDS Naturals, Sequences

CONSTANTS
  Clients,
  Rooms,
  Stores,     \* the DB queues, each with its thread
  StoreOf,    \* DBManager::GetDBQueueFromId
  Rounds,     \* ROOM_DRAIN_ROUNDS
  MaxHops,    \* how many rooms a departure follows its player through
  NoClient

ASSUME ShutdownAssumption ==
  /\ StoreOf \in [Clients -> Stores]
  /\ Rounds \in Nat \ {0}
  /\ MaxHops \in 0 .. Rounds - 1
  /\ NoClient \notin Clients

VARIABLES
  main,      \* where the main thread is
  round,     \* the drain round
  toCut,     \* DisconnectAllSessions: sessions of its copy still to disconnect
  link,      \* each client's session
  playing,   \* clients whose player has been in a room
  roomJobs,  \* JobQueue of each room: departures and drain markers
  saves,     \* DBQueue::jobs, the save of a client each
  stopped,   \* DBQueue::stopFlag
  saved,
  warned     \* the log says that some player may not be saved

downVars == <<main, round, toCut, link, playing, roomJobs, saves, stopped, saved, warned>>

Stages == {"serving", "closed", "cutting", "waiting", "draining", "stopping",
           "joining", "exit"}
Links == {"away", "up", "cut", "leaving", "gone"}

\* A departure that will follow its player through n more rooms, or the marker of
\* drain round n.
RoomJob == [who : Clients \cup {NoClient}, n : Nat]

\* No round of DrainRoomQueues beyond the last, no marker or departure in a save queue,
\* nothing but clients and markers in the queue of a room.
ShutdownTypeOK ==
  /\ main \in Stages
  /\ round \in 0 .. Rounds
  /\ toCut \subseteq Clients
  /\ link \in [Clients -> Links]
  /\ playing \subseteq Clients
  /\ roomJobs \in [Rooms -> Seq(RoomJob)]
  /\ saves \in [Stores -> Seq(Clients)]
  /\ stopped \subseteq Stores
  /\ saved \subseteq Clients
  /\ warned \in BOOLEAN

ShutdownInit ==
  /\ main = "serving"
  /\ round = 0
  /\ toCut = {}
  /\ link = [c \in Clients |-> "away"]
  /\ playing = {}
  /\ roomJobs = [r \in Rooms |-> <<>>]
  /\ saves = [q \in Stores |-> <<>>]
  /\ stopped = {}
  /\ saved = {}
  /\ warned = FALSE

(***************************************************************************)
(* The clients                                                             *)
(***************************************************************************)

\* Listener::ProcessAccept.  An accept that passed the test of _closed may connect its
\* session after DisconnectAllSessions took its copy; the assumption is that it does
\* before the wait for the sessions ends.
Accept(c) ==
  /\ main \in {"serving", "closed", "cutting", "waiting"}
  /\ link[c] = "away"
  /\ link' = [link EXCEPT ![c] = "up"]
  /\ UNCHANGED <<main, round, toCut, playing, roomJobs, saves, stopped, saved, warned>>

\* A player is put into a room for the first time.
EnterGame(c) ==
  /\ link[c] = "up"
  /\ playing' = playing \cup {c}
  /\ UNCHANGED <<main, round, toCut, link, roomJobs, saves, stopped, saved, warned>>

\* Session::Disconnect before the shutdown does it.
LoseClient(c) ==
  /\ link[c] = "up"
  /\ link' = [link EXCEPT ![c] = "cut"]
  /\ UNCHANGED <<main, round, toCut, playing, roomJobs, saves, stopped, saved, warned>>

\* Session::ProcessDisconnect, its two calls: OnDisconnected puts the departure into
\* the queue of the player's room, then RemoveSession.
OnDisconnected(c) ==
  /\ link[c] = "cut"
  /\ link' = [link EXCEPT ![c] = "leaving"]
  /\ IF c \in playing
     THEN \E r \in Rooms, n \in 0 .. MaxHops :
            roomJobs' = [roomJobs EXCEPT ![r] = Append(@, [who |-> c, n |-> n])]
     ELSE UNCHANGED roomJobs
  /\ UNCHANGED <<main, round, toCut, playing, saves, stopped, saved, warned>>

RemoveSession(c) ==
  /\ link[c] = "leaving"
  /\ link' = [link EXCEPT ![c] = "gone"]
  /\ UNCHANGED <<main, round, toCut, playing, roomJobs, saves, stopped, saved, warned>>

(***************************************************************************)
(* The workers and the DB threads                                          *)
(***************************************************************************)

\* DBQueue::Push: nothing is taken after Stop.
PushSave(c) ==
  saves' = IF StoreOf[c] \in stopped THEN saves
           ELSE [saves EXCEPT ![StoreOf[c]] = Append(@, c)]

\* ProgressCoordinator::LeaveRoomAndSave, or the marker of DrainRoomQueues.
RunRoomJob(r) ==
  LET job == Head(roomJobs[r])
      popped == [roomJobs EXCEPT ![r] = Tail(@)]
  IN
  /\ main # "exit"
  /\ roomJobs[r] # <<>>
  /\ \/ job.who = NoClient /\ roomJobs' = popped /\ UNCHANGED saves
     \/ job.who # NoClient /\ job.n = 0 /\ roomJobs' = popped /\ PushSave(job.who)
     \/ /\ job.who # NoClient /\ job.n > 0
        /\ \E next \in Rooms \ {r} :
             roomJobs' = [popped EXCEPT ![next] = Append(@, [job EXCEPT !.n = @ - 1])]
        /\ UNCHANGED saves
  /\ UNCHANGED <<main, round, toCut, link, playing, stopped, saved, warned>>

\* WaitForSingleJob and the job; a save that fails is logged.
RunSave(q, done) ==
  /\ saves[q] # <<>>
  /\ saves' = [saves EXCEPT ![q] = Tail(@)]
  /\ saved' = IF done THEN saved \cup {Head(saves[q])} ELSE saved
  /\ warned' = (warned \/ ~ done)
  /\ UNCHANGED <<main, round, toCut, link, playing, roomJobs, stopped>>

(***************************************************************************)
(* The main thread                                                         *)
(***************************************************************************)

CloseService ==
  /\ main = "serving"
  /\ main' = "closed"
  /\ UNCHANGED <<round, toCut, link, playing, roomJobs, saves, stopped, saved, warned>>

SessionSet == {c \in Clients : link[c] \in {"up", "cut", "leaving"}}

\* Service::DisconnectAllSessions: a copy of the set, then each of the copy.
CopySessions ==
  /\ main = "closed"
  /\ main' = "cutting"
  /\ toCut' = SessionSet
  /\ UNCHANGED <<round, link, playing, roomJobs, saves, stopped, saved, warned>>

CutNext(c) ==
  /\ main = "cutting"
  /\ c \in toCut
  /\ toCut' = toCut \ {c}
  /\ link' = [link EXCEPT ![c] = IF @ = "up" THEN "cut" ELSE @]
  /\ main' = IF toCut = {c} THEN "waiting" ELSE main
  /\ UNCHANGED <<round, playing, roomJobs, saves, stopped, saved, warned>>

NothingToCut ==
  /\ main = "cutting"
  /\ toCut = {}
  /\ main' = "waiting"
  /\ UNCHANGED <<round, toCut, link, playing, roomJobs, saves, stopped, saved, warned>>

Marker(n) == [who |-> NoClient, n |-> n]

\* DrainRoomQueues up to its wait: a marker behind all that each queue holds.
StartRound(n) ==
  /\ main' = "draining"
  /\ round' = n
  /\ roomJobs' = [r \in Rooms |-> Append(roomJobs[r], Marker(n))]

\* The wait for the sessions ends, in time or not.
EndOfSessions(inTime) ==
  /\ main = "waiting"
  /\ inTime <=> SessionSet = {}
  /\ StartRound(1)
  /\ warned' = (warned \/ ~ inTime)
  /\ UNCHANGED <<toCut, link, playing, saves, stopped, saved>>

Drained ==
  \A r \in Rooms : \A i \in DOMAIN roomJobs[r] : roomJobs[r][i] # Marker(round)

\* Deviation: one round is taken to be enough.
EndOfRound_First(inTime) ==
  /\ main = "draining"
  /\ inTime <=> Drained
  /\ main' = "stopping"
  /\ warned' = (warned \/ ~ inTime)
  /\ UNCHANGED <<round, toCut, link, playing, roomJobs, saves, stopped, saved>>

EndOfRound(inTime) ==
  /\ main = "draining"
  /\ inTime <=> Drained
  /\ IF round < Rounds THEN StartRound(round + 1)
     ELSE main' = "stopping" /\ UNCHANGED <<round, roomJobs>>
  /\ warned' = (warned \/ ~ inTime)
  /\ UNCHANGED <<toCut, link, playing, saves, stopped, saved>>

\* DBQueue::Stop, one queue after the other; then the workers are told to stop.
Stop(q) ==
  /\ main = "stopping"
  /\ q \notin stopped
  /\ stopped' = stopped \cup {q}
  /\ main' = IF stopped' = Stores THEN "joining" ELSE main
  /\ UNCHANGED <<round, toCut, link, playing, roomJobs, saves, saved, warned>>

\* ThreadManager::Join: a stopped DB thread ends when its queue is empty, a worker
\* after the round of its loop that it is in.
Exit ==
  /\ main = "joining"
  /\ \A q \in Stores : saves[q] = <<>>
  /\ main' = "exit"
  /\ UNCHANGED <<round, toCut, link, playing, roomJobs, saves, stopped, saved, warned>>

MainStep ==
  \/ CloseService \/ CopySessions \/ NothingToCut \/ Exit
  \/ \E c \in Clients : CutNext(c)
  \/ \E inTime \in BOOLEAN : EndOfSessions(inTime) \/ EndOfRound(inTime)
  \/ \E q \in Stores : Stop(q)

ShutdownNext ==
  \/ MainStep
  \/ \E c \in Clients :
       Accept(c) \/ EnterGame(c) \/ LoseClient(c) \/ OnDisconnected(c) \/ RemoveSession(c)
  \/ \E r \in Rooms : RunRoomJob(r)
  \/ \E q \in Stores, done \in BOOLEAN : RunSave(q, done)

ShutdownSpec == ShutdownInit /\ [][ShutdownNext]_downVars

(***************************************************************************)
(* Properties                                                              *)
(***************************************************************************)

\* When the server exits and its log does not say otherwise, everyone who ever
\* played is saved ("so every save of a disconnection is finished", the comment in
\* Shutdown): also a player that was moving between rooms when it was disconnected.
SavedAtExit == main = "exit" /\ ~ warned => playing \subseteq saved
=============================================================================
