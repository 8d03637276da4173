---------------------------- MODULE ProgressSave ----------------------------
(***************************************************************************)
(* The life of a player's progress between the database and the rooms:     *)
(* lobby connection and replacement of an older connection of the same     *)
(* account (GameSessionManager, ProgressCoordinator), game entry           *)
(* (GameEntry), return to the lobby (LobbyReturn), disconnection           *)
(* (GameSession::OnDisconnected) and the save that follows a departure.     *)
(*                                                                         *)
(* Who runs concurrently:                                                  *)
(*   <<"recv", s>>  the IOCP worker that handles the packets of s, one at  *)
(*                  a time (a session has one receive outstanding); it     *)
(*                  stops half-way only in the return to the lobby;        *)
(*   <<"disc", s>>  the IOCP worker that completes the disconnection of s; *)
(*   <<"bind", s>>  the DB worker that runs the lobby connection of s, on  *)
(*                  a queue picked at random, so beside the account queue; *)
(*   dbJobs[u]      the DB worker of the account queue, the job it runs at *)
(*                  the head;                                              *)
(*   roomJobs[r]    the worker that runs the queue of room r;              *)
(*   timers         the parked-load timers.                                *)
(*                                                                         *)
(* Three windows of a few instructions decide what the system promises.    *)
(* `Windows' names the ones an instance leaves open:                       *)
(*   "overlap"  a second login of an account is bound while an entry of    *)
(*              the first one is in flight (or starts after it);           *)
(*   "drop"     a session disconnects between the connection check of its  *)
(*              load and the registration of the loaded player;            *)
(*   "stall"    a thread is delayed before it takes the save mark for one  *)
(*              player, or before it releases it, until another player of  *)
(*              the account is held or leaving; or a login is bound before *)
(*              the one it replaces has taken the mark for its own.        *)
(***************************************************************************)
EXTENDS SaveGate, PlayerRooms

CONSTANTS
  Packets,    \* the in-game packets the clients of an instance send
  MaxPackets, \* bound: in-game packets of a session that are handled
  Windows     \* the race windows left open, see above

InGamePackets == {"mapLoaded", "channel", "portal", "return"}

ASSUME ProgressAssumption ==
  /\ Packets \subseteq InGamePackets
  /\ MaxPackets \in Nat
  /\ Windows \subseteq {"overlap", "drop", "stall"}
  /\ NoSession \notin Users \* so that it can stand for no borrower

VARIABLES
  conn,       \* Session::_connected
  phase,      \* GameSession::_phase
  player,     \* GameSession::_player
  kicked,     \* a disconnect-after-send was requested
  handled,    \* in-game packets handled so far, for the bound
  entries,    \* entry requests handled so far, for the bound
  registered, \* GameSessionManager::_userSessions
  replaced,   \* BindAccount: the session it replaced
  pc,         \* where a thread is in its handler
  arg,        \* the player reference a thread works with
  timers      \* parked-load timers that have not fired

sessionVars == <<conn, phase, player, kicked>>
clientVars == <<handled, entries>>
threadVars == <<pc, arg, replaced>>
vars == <<gateVars, playerVars, roomVars, dbJobs, saves, sessionVars,
          clientVars, registered, threadVars, timers>>

Phases == {"BEFORE_LOBBY", "CONNECTING_LOBBY", "LOBBY", "ENTERING_GAME",
           "IN_GAME", "RETURNING_TO_LOBBY"}

Threads == {"bind", "recv", "disc"} \X Sessions

Labels == {"idle", "register", "replace", "hold", "mark", "check", "release",
           "leave", "kick", "verify", "park", "read", "unregister"}

Timer == [user : Users, session : Sessions, token : Nat]

TypeOK ==
  /\ GateTypeOK
  /\ RoomsTypeOK
  /\ conn \in [Sessions -> BOOLEAN]
  /\ phase \in [Sessions -> Phases]
  /\ player \in [Sessions -> Players \cup {NoPlayer}]
  /\ kicked \in [Sessions -> BOOLEAN]
  /\ handled \in [Sessions -> Nat]
  /\ entries \in Nat
  /\ registered \in [Users -> Sessions \cup {NoSession}]
  /\ replaced \in [Sessions -> Sessions \cup {NoSession}]
  /\ pc \in [Threads -> Labels]
  /\ arg \in [Threads -> Players \cup {NoPlayer}]
  /\ timers \in SUBSET Timer

Init ==
  /\ GateInit
  /\ RoomsInit
  /\ conn = [s \in Sessions |-> TRUE]
  /\ phase = [s \in Sessions |-> "BEFORE_LOBBY"]
  /\ player = [s \in Sessions |-> NoPlayer]
  /\ kicked = [s \in Sessions |-> FALSE]
  /\ handled = [s \in Sessions |-> 0]
  /\ entries = 0
  /\ registered = [u \in Users |-> NoSession]
  /\ replaced = [s \in Sessions |-> NoSession]
  /\ pc = [t \in Threads |-> "idle"]
  /\ arg = [t \in Threads |-> NoPlayer]
  /\ timers = {}

-----------------------------------------------------------------------------
(* Helpers *)

ThreadUser(t) == UserOf[t[2]]

Goto(t, label) == pc' = [pc EXCEPT ![t] = label]

(* Where OnReturnToLobby and OnDisconnected go on after LeaveGameAndSave.  *)
AfterLeaving(t) == IF t[1] = "recv" THEN "park" ELSE "unregister"

(***************************************************************************)
(* GameSession::TryChangePhase: a compare-and-swap.                        *)
(***************************************************************************)
TryChangePhase(s, from, to) ==
  phase' = IF phase[s] = from THEN [phase EXCEPT ![s] = to] ELSE phase

CancelGameEntry(s) == TryChangePhase(s, "ENTERING_GAME", "LOBBY")

DbHead(u, kind) == dbJobs[u] # <<>> /\ Head(dbJobs[u]).kind = kind

PopDb(u) == [dbJobs EXCEPT ![u] = Tail(@)]

(* The job at the head goes on as `job': it has not ended.                 *)
ContinueDb(u, job) == [dbJobs EXCEPT ![u] = <<job>> \o Tail(@)]

PushDb(u, kind, s) ==
  dbJobs' = [dbJobs EXCEPT ![u] = Append(@, [kind |-> kind, session |-> s])]

(* Deviation: the queue is given the whole entry of the gate.              *)
ParkedJob_WithToken(u) == parked[u]

ParkedJob(u) == [kind |-> parked[u].kind, session |-> parked[u].session]

(***************************************************************************)
(* ProgressCoordinator::ReleaseHold: a load that was parked goes to the    *)
(* account queue.                                                          *)
(***************************************************************************)
ReleaseHold(u) ==
  /\ Release(u)
  /\ dbJobs' = IF parked[u] = NoLoad THEN dbJobs
               ELSE [dbJobs EXCEPT ![u] = Append(@, ParkedJob(u))]

(* An entry that can still end in a player: a load asks for the connection.*)
EntryInFlight(u) ==
  \E s \in Sessions : UserOf[s] = u /\ conn[s] /\ phase[s] = "ENTERING_GAME"

LoadRunning(s) ==
  DbHead(UserOf[s], "loading") /\ Head(dbJobs[UserOf[s]]).session = s

OthersOfAccount(t) ==
  {p \in Players \ {arg[t]} : presence[p] # "NONE" /\ UserOfPlayer(p) = ThreadUser(t)}

(* The mark of the account covers, or a thread is about to release it for, *)
(* another player.                                                         *)
HeldForAnother(t) ==
  \E p \in OthersOfAccount(t) :
    \/ ThreadUser(t) \in held /\ presence[p] \in {"LOADED", "IN_ROOM", "LEFT_IN_ROOM"}
    \/ \E t2 \in Threads : pc[t2] \in {"mark", "check", "release"} /\ arg[t2] = p

(* A replaced session's player is not held yet.                            *)
ReplacementPending(u) ==
  \E s \in Sessions : UserOf[s] = u /\ pc[<<"bind", s>>] \in {"replace", "hold"}

-----------------------------------------------------------------------------
(* Packet handlers, on the worker of the session's receive.  A packet that  *)
(* was received before the session went down may be handled long after,    *)
(* so no handler asks whether the session is connected.                    *)
(* GameSession::OnRecvPacket drops what the phase does not accept.         *)

Receive(s, accepting) ==
  /\ pc[<<"recv", s>>] = "idle"
  /\ phase[s] = accepting

HandleConnectLobby(s) ==
  /\ Receive(s, "BEFORE_LOBBY")
  /\ TryChangePhase(s, "BEFORE_LOBBY", "CONNECTING_LOBBY")
  /\ Goto(<<"bind", s>>, "register")
  /\ UNCHANGED <<arg, replaced, gateVars, playerVars, roomVars, dbJobs, saves,
                 conn, player, kicked, clientVars, registered, timers>>

HandleEnterGame(s) ==
  /\ Receive(s, "LOBBY")
  /\ entries < MaxPlayers
  /\ entries' = entries + 1
  /\ "overlap" \in Windows \/ registered[UserOf[s]] = s
  /\ TryChangePhase(s, "LOBBY", "ENTERING_GAME")
  /\ PushDb(UserOf[s], "select", s)
  /\ UNCHANGED <<handled, gateVars, playerVars, roomVars, saves, conn, player,
                 kicked, registered, threadVars, timers>>

ReceiveInGame(s) ==
  /\ Receive(s, "IN_GAME")
  /\ handled[s] < MaxPackets
  /\ handled' = [handled EXCEPT ![s] = @ + 1]
  /\ UNCHANGED entries

(* DispatchToPlayerRoom: the job goes to the queue of the player's room.   *)
HandleInGame(s, packet) ==
  LET p == player[s] IN
  /\ ReceiveInGame(s)
  /\ packet # "return"
  /\ roomJobs' = IF p = NoPlayer \/ room[p] = NoRoom THEN roomJobs
                 ELSE PushRoomJob(roomJobs, room[p], packet, p)
  /\ UNCHANGED <<gateVars, playerVars, entities, entering, dbJobs, saves,
                 sessionVars, registered, threadVars, timers>>

HandleReturnToLobby(s) ==
  /\ ReceiveInGame(s)
  /\ player[s] # NoPlayer
  /\ TryChangePhase(s, "IN_GAME", "RETURNING_TO_LOBBY")
  /\ arg' = [arg EXCEPT ![<<"recv", s>>] = player[s]]
  /\ Goto(<<"recv", s>>, "hold")
  /\ UNCHANGED <<replaced, gateVars, playerVars, roomVars, dbJobs, saves,
                 conn, player, kicked, registered, timers>>

Handle(s) ==
  \/ HandleConnectLobby(s)
  \/ HandleEnterGame(s)
  \/ \E packet \in Packets : HandleInGame(s, packet)
  \/ "return" \in Packets /\ HandleReturnToLobby(s)

-----------------------------------------------------------------------------
(* Lobby connection: Handle_C_CONNECT_LOBBY's job and BindAccount *)

(* The ticket is refused: answer and disconnect.                           *)
RejectLobbyConnect(s) ==
  /\ pc[<<"bind", s>>] = "register"
  /\ kicked' = [kicked EXCEPT ![s] = TRUE]
  /\ Goto(<<"bind", s>>, "idle")
  /\ UNCHANGED <<arg, replaced, gateVars, playerVars, roomVars, dbJobs, saves,
                 conn, phase, player, clientVars, registered, timers>>

(* GameSessionManager::RegisterUser, under its lock.                       *)
RegisterUser(s) ==
  LET u == UserOf[s] IN
  /\ pc[<<"bind", s>>] = "register"
  /\ "overlap" \in Windows \/ ~EntryInFlight(u)
  /\ "stall" \in Windows \/ ~ReplacementPending(u)
  /\ replaced' = [replaced EXCEPT ![s] = registered[u]]
  /\ registered' = [registered EXCEPT ![u] = s]
  /\ Goto(<<"bind", s>>, IF registered[u] = NoSession THEN "verify" ELSE "replace")
  /\ UNCHANGED <<arg, gateVars, playerVars, roomVars, dbJobs, saves,
                 sessionVars, clientVars, timers>>

(* Deviation: the account is not held for the replaced session.            *)
ReadReplaced_NoHold(s) ==
  /\ pc[<<"bind", s>>] = "replace"
  /\ Goto(<<"bind", s>>, "kick")
  /\ UNCHANGED <<arg, replaced, gateVars, playerVars, roomVars, dbJobs, saves,
                 sessionVars, clientVars, registered, timers>>

(* OnDuplicateConnection begins: no hold for a session without a player.   *)
ReadReplaced(s) ==
  LET p == player[replaced[s]] IN
  /\ pc[<<"bind", s>>] = "replace"
  /\ arg' = [arg EXCEPT ![<<"bind", s>>] = p]
  /\ Goto(<<"bind", s>>, IF p = NoPlayer THEN "kick" ELSE "hold")
  /\ UNCHANGED <<replaced, gateVars, playerVars, roomVars, dbJobs, saves,
                 sessionVars, clientVars, registered, timers>>

(* Deviation: the hold is left to the departure in every case.             *)
CheckPresence_NeverRelease(s) ==
  /\ pc[<<"bind", s>>] = "check"
  /\ Goto(<<"bind", s>>, "kick")
  /\ UNCHANGED <<arg, replaced, gateVars, playerVars, roomVars, dbJobs, saves,
                 sessionVars, clientVars, registered, timers>>

(* Deviation: a departure that has begun counts as ended.                  *)
CheckPresence_AnyDeparture(s) ==
  /\ pc[<<"bind", s>>] = "check"
  /\ Goto(<<"bind", s>>,
          IF presence[arg[<<"bind", s>>]] \in {"LOADED", "IN_ROOM"}
          THEN "kick" ELSE "release")
  /\ UNCHANGED <<arg, replaced, gateVars, playerVars, roomVars, dbJobs, saves,
                 sessionVars, clientVars, registered, timers>>

(* The presence is read after the hold: a departure that has ended will    *)
(* not release it.                                                         *)
CheckPresence(s) ==
  /\ pc[<<"bind", s>>] = "check"
  /\ Goto(<<"bind", s>>,
          IF presence[arg[<<"bind", s>>]] \in {"LEFT_BEFORE_ROOM", "SAVED"}
          THEN "release" ELSE "kick")
  /\ UNCHANGED <<arg, replaced, gateVars, playerVars, roomVars, dbJobs, saves,
                 sessionVars, clientVars, registered, timers>>

(* Deviation: a replaced session without a player is left alone.           *)
KickReplaced_InGameOnly(s) ==
  /\ pc[<<"bind", s>>] = "kick"
  /\ kicked' = [kicked EXCEPT ![replaced[s]] = player[replaced[s]] # NoPlayer]
  /\ replaced' = [replaced EXCEPT ![s] = NoSession]
  /\ arg' = [arg EXCEPT ![<<"bind", s>>] = NoPlayer]
  /\ Goto(<<"bind", s>>, "verify")
  /\ UNCHANGED <<gateVars, playerVars, roomVars, dbJobs, saves, conn, phase,
                 player, clientVars, registered, timers>>

KickReplaced(s) ==
  /\ pc[<<"bind", s>>] = "kick"
  /\ kicked' = [kicked EXCEPT ![replaced[s]] = TRUE]
  /\ replaced' = [replaced EXCEPT ![s] = NoSession]
  /\ arg' = [arg EXCEPT ![<<"bind", s>>] = NoPlayer]
  /\ Goto(<<"bind", s>>, "verify")
  /\ UNCHANGED <<gateVars, playerVars, roomVars, dbJobs, saves, conn, phase,
                 player, clientVars, registered, timers>>

(* EraseRegistration, under the manager's lock.                            *)
Unregister(s) ==
  registered' = IF registered[UserOf[s]] = s
                THEN [registered EXCEPT ![UserOf[s]] = NoSession]
                ELSE registered

(* Deviation: BindAccount does not look at the connection again.           *)
FinishLobbyConnect_Unchecked(s) ==
  /\ pc[<<"bind", s>>] = "verify"
  /\ TryChangePhase(s, "CONNECTING_LOBBY", "LOBBY")
  /\ Goto(<<"bind", s>>, "idle")
  /\ UNCHANGED <<arg, replaced, gateVars, playerVars, roomVars, dbJobs, saves,
                 conn, player, kicked, clientVars, registered, timers>>

(* The rest of BindAccount and of the job: a session that has gone is      *)
(* unregistered, a failed character list disconnects, success opens the    *)
(* lobby.                                                                  *)
FinishLobbyConnect(s) ==
  /\ pc[<<"bind", s>>] = "verify"
  /\ \/ /\ ~conn[s]
        /\ Unregister(s)
        /\ UNCHANGED <<phase, kicked>>
     \/ /\ conn[s]
        /\ kicked' = [kicked EXCEPT ![s] = TRUE]
        /\ UNCHANGED <<phase, registered>>
     \/ /\ conn[s]
        /\ TryChangePhase(s, "CONNECTING_LOBBY", "LOBBY")
        /\ UNCHANGED <<kicked, registered>>
  /\ Goto(<<"bind", s>>, "idle")
  /\ UNCHANGED <<arg, replaced, gateVars, playerVars, roomVars, dbJobs, saves,
                 conn, player, clientVars, timers>>

-----------------------------------------------------------------------------
(* Disconnection: the socket goes down, a worker runs OnDisconnected *)

Disconnect(s) ==
  /\ conn[s]
  /\ "drop" \in Windows \/ ~LoadRunning(s)
  /\ conn' = [conn EXCEPT ![s] = FALSE]
  /\ Goto(<<"disc", s>>, "read")
  /\ UNCHANGED <<arg, replaced, gateVars, playerVars, roomVars, dbJobs, saves,
                 phase, player, kicked, clientVars, registered, timers>>

ReadPlayer(s) ==
  /\ pc[<<"disc", s>>] = "read"
  /\ arg' = [arg EXCEPT ![<<"disc", s>>] = player[s]]
  /\ Goto(<<"disc", s>>, IF player[s] = NoPlayer THEN "unregister" ELSE "hold")
  /\ UNCHANGED <<replaced, gateVars, playerVars, roomVars, dbJobs, saves,
                 sessionVars, clientVars, registered, timers>>

UnregisterUser(s) ==
  /\ pc[<<"disc", s>>] = "unregister"
  /\ Unregister(s)
  /\ Goto(<<"disc", s>>, "idle")
  /\ arg' = [arg EXCEPT ![<<"disc", s>>] = NoPlayer]
  /\ UNCHANGED <<replaced, gateVars, playerVars, roomVars, dbJobs, saves,
                 sessionVars, clientVars, timers>>

-----------------------------------------------------------------------------
(* ProgressCoordinator::LeaveGameAndSave, step by step: hold, exchange the *)
(* presence, read the room and give it the departure, or release.          *)

TakeHold(t) ==
  /\ pc[t] = "hold"
  /\ "stall" \in Windows \/ ~HeldForAnother(t)
  /\ Hold(ThreadUser(t))
  /\ Goto(t, IF t[1] = "bind" THEN "check" ELSE "mark")
  /\ UNCHANGED <<arg, replaced, playerVars, roomVars, dbJobs, saves,
                 sessionVars, clientVars, registered, timers>>

MarkDisconnected(t) ==
  LET p == arg[t]
      mark == AfterDisconnect(presence[p]) IN
  /\ pc[t] = "mark"
  /\ presence' = [presence EXCEPT ![p] = mark]
  /\ Goto(t, IF mark = "LEFT_IN_ROOM" THEN "leave" ELSE "release")
  /\ UNCHANGED <<arg, replaced, gateVars, owner, room, mapLoad, roomVars,
                 dbJobs, saves, sessionVars, clientVars, registered, timers>>

(* A player that was in a room always has one: the error branch of the     *)
(* code, a missing room, releases the hold.                                *)
PushLeave(t) ==
  LET p == arg[t] IN
  /\ pc[t] = "leave"
  /\ IF room[p] = NoRoom
     THEN Goto(t, "release") /\ UNCHANGED roomJobs
     ELSE /\ roomJobs' = PushRoomJob(roomJobs, room[p], "leave", p)
          /\ Goto(t, AfterLeaving(t))
  /\ UNCHANGED <<arg, replaced, gateVars, playerVars, entities, entering,
                 dbJobs, saves, sessionVars, clientVars, registered, timers>>

DropHold(t) ==
  /\ pc[t] = "release"
  /\ ReleaseHold(ThreadUser(t))
  /\ Goto(t, IF t[1] = "bind" THEN "kick" ELSE AfterLeaving(t))
  /\ UNCHANGED <<arg, replaced, playerVars, roomVars, saves, sessionVars,
                 clientVars, registered, timers>>

(* Deviation: the list is left to a save even when none is pending.        *)
ParkReturn_NeverPush(s) ==
  /\ pc[<<"recv", s>>] = "park"
  /\ Park(UserOf[s], "accept", s)
  /\ Goto(<<"recv", s>>, "idle")
  /\ arg' = [arg EXCEPT ![<<"recv", s>>] = NoPlayer]
  /\ UNCHANGED <<replaced, playerVars, roomVars, dbJobs, saves, sessionVars,
                 clientVars, registered, timers>>

(* OnReturnToLobby: the character list waits for the save.  BUSY: another  *)
(* session of the account has parked its entry already.                    *)
ParkReturn(s) ==
  LET u == UserOf[s] IN
  /\ pc[<<"recv", s>>] = "park"
  /\ Park(u, "accept", s)
  /\ IF ParkResult(u) = "NOT_HELD" THEN PushDb(u, "accept", s) ELSE UNCHANGED dbJobs
  /\ Goto(<<"recv", s>>, "idle")
  /\ arg' = [arg EXCEPT ![<<"recv", s>>] = NoPlayer]
  /\ UNCHANGED <<replaced, playerVars, roomVars, saves, sessionVars,
                 clientVars, registered, timers>>

ThreadStep(t) ==
  \/ TakeHold(t)
  \/ MarkDisconnected(t)
  \/ PushLeave(t)
  \/ DropHold(t)

BindStep(s) ==
  \/ RejectLobbyConnect(s)
  \/ RegisterUser(s)
  \/ ReadReplaced(s)
  \/ CheckPresence(s)
  \/ KickReplaced(s)
  \/ FinishLobbyConnect(s)

-----------------------------------------------------------------------------
(* The jobs of an account's DB queue *)

(* Handle_C_ENTER_GAME's job: refuse the character, or RequestEnter, which *)
(* runs the load after the jobs already queued, parks it behind a save     *)
(* with a timer, or refuses it because one is parked.                      *)
SelectCharacter(u) ==
  LET s == Head(dbJobs[u]).session IN
  /\ DbHead(u, "select")
  /\ \/ /\ CancelGameEntry(s)
        /\ dbJobs' = PopDb(u)
        /\ UNCHANGED <<gateVars, timers>>
     \/ /\ Park(u, "load", s)
        /\ CASE ParkResult(u) = "NOT_HELD" ->
                  /\ dbJobs' = [dbJobs EXCEPT ![u] =
                                  Append(Tail(@), [kind |-> "load", session |-> s])]
                  /\ UNCHANGED <<timers, phase>>
             [] ParkResult(u) = "PARKED" ->
                  /\ dbJobs' = PopDb(u)
                  /\ timers' = timers \cup
                       {[user |-> u, session |-> s, token |-> nextToken]}
                  /\ UNCHANGED phase
             [] OTHER ->
                  /\ dbJobs' = PopDb(u)
                  /\ CancelGameEntry(s)
                  /\ UNCHANGED timers
  /\ UNCHANGED <<playerVars, roomVars, saves, conn, player, kicked, clientVars,
                 registered, threadVars>>

(* Deviation: the load does not ask whether the session is still there.    *)
CheckConnected_Not(u) ==
  /\ DbHead(u, "load")
  /\ dbJobs' = ContinueDb(u, [kind |-> "loading", session |-> Head(dbJobs[u]).session])
  /\ UNCHANGED <<gateVars, playerVars, roomVars, saves, sessionVars, clientVars,
                 registered, threadVars, timers>>

(* The load begins: not for a session that has gone meanwhile.             *)
CheckConnected(u) ==
  LET s == Head(dbJobs[u]).session IN
  /\ DbHead(u, "load")
  /\ dbJobs' = IF conn[s]
               THEN ContinueDb(u, [kind |-> "loading", session |-> s])
               ELSE PopDb(u)
  /\ UNCHANGED <<gateVars, playerVars, roomVars, saves, sessionVars, clientVars,
                 registered, threadVars, timers>>

(* GameEntry::Enter and FinishEnter: the progress cannot be loaded, or a   *)
(* new player waits for the map of a room and is registered in the session *)
(* if that has none.                                                       *)
Enter(u) ==
  LET s == Head(dbJobs[u]).session IN
  /\ DbHead(u, "loading")
  /\ \/ /\ CancelGameEntry(s)
        /\ UNCHANGED <<playerVars, player>>
     \/ \E p \in Players, r \in Rooms :
          /\ presence[p] = "NONE"
          /\ \A q \in Players : q < p => presence[q] # "NONE"
          /\ player[s] = NoPlayer
          /\ presence' = [presence EXCEPT ![p] = "LOADED"]
          /\ owner' = [owner EXCEPT ![p] = s]
          /\ room' = [room EXCEPT ![p] = r]
          /\ mapLoad' = [mapLoad EXCEPT ![p] = r]
          /\ player' = [player EXCEPT ![s] = p]
          /\ TryChangePhase(s, "ENTERING_GAME", "IN_GAME")
  /\ dbJobs' = PopDb(u)
  /\ UNCHANGED <<gateVars, roomVars, saves, conn, kicked, clientVars,
                 registered, threadVars, timers>>

(* LobbyReturn::Accept and Finish: a session that has gone is left alone,  *)
(* a failed character list disconnects, success empties the session's      *)
(* player before it opens the lobby.                                       *)
AcceptReturn(u) ==
  LET s == Head(dbJobs[u]).session IN
  /\ DbHead(u, "accept")
  /\ \/ ~conn[s] /\ UNCHANGED <<phase, player, kicked>>
     \/ /\ conn[s]
        /\ kicked' = [kicked EXCEPT ![s] = TRUE]
        /\ UNCHANGED <<phase, player>>
     \/ /\ conn[s]
        /\ phase[s] = "RETURNING_TO_LOBBY"
        /\ player' = [player EXCEPT ![s] = NoPlayer]
        /\ TryChangePhase(s, "RETURNING_TO_LOBBY", "LOBBY")
        /\ UNCHANGED kicked
  /\ dbJobs' = PopDb(u)
  /\ UNCHANGED <<gateVars, playerVars, roomVars, saves, conn, clientVars,
                 registered, threadVars, timers>>

(* SaveLeftPlayer's job: save, whatever the result, and mark the player,   *)
MarkSaved(u) ==
  LET p == Head(dbJobs[u]).player IN
  /\ DbHead(u, "save")
  /\ presence' = [presence EXCEPT ![p] = "SAVED"]
  /\ dbJobs' = ContinueDb(u, [kind |-> "saved", player |-> p])
  /\ UNCHANGED <<gateVars, owner, room, mapLoad, roomVars, saves, sessionVars,
                 clientVars, registered, threadVars, timers>>

(* Deviation: the parked load is dropped with the mark.                    *)
ReleaseSaved_Only(u) ==
  /\ DbHead(u, "saved")
  /\ Release(u)
  /\ dbJobs' = PopDb(u)
  /\ UNCHANGED <<playerVars, roomVars, saves, sessionVars, clientVars,
                 registered, threadVars, timers>>

(* then release the mark and run the parked load within the same job.      *)
ReleaseSaved(u) ==
  /\ DbHead(u, "saved")
  /\ Release(u)
  /\ dbJobs' = IF parked[u] = NoLoad THEN PopDb(u) ELSE ContinueDb(u, ParkedJob(u))
  /\ UNCHANGED <<playerVars, roomVars, saves, sessionVars, clientVars,
                 registered, threadVars, timers>>

DbStep(u) ==
  \/ SelectCharacter(u)
  \/ CheckConnected(u)
  \/ Enter(u)
  \/ AcceptReturn(u)
  \/ MarkSaved(u)
  \/ ReleaseSaved(u)

-----------------------------------------------------------------------------
(* The parked-load timer: refuse the entry if it is still the one parked.  *)
ExpireTimer(timer) ==
  /\ timers' = timers \ {timer}
  /\ Expire(timer.user, timer.token)
  /\ IF Expires(timer.user, timer.token)
     THEN CancelGameEntry(timer.session)
     ELSE UNCHANGED phase
  /\ UNCHANGED <<playerVars, roomVars, dbJobs, saves, conn, player, kicked,
                 clientVars, registered, threadVars>>

RunRoom(r) ==
  /\ RoomStep(r)
  /\ UNCHANGED <<gateVars, sessionVars, clientVars, registered, threadVars,
                 timers>>

DiscStep(s) == ReadPlayer(s) \/ UnregisterUser(s)

ServerStep ==
  \/ \E s \in Sessions : BindStep(s) \/ DiscStep(s) \/ ParkReturn(s)
  \/ \E t \in Threads : ThreadStep(t)
  \/ \E u \in Users : DbStep(u)
  \/ \E r \in Rooms : RunRoom(r)
  \/ \E timer \in timers : ExpireTimer(timer)

Next ==
  \/ \E s \in Sessions : Handle(s) \/ Disconnect(s)
  \/ ServerStep

Spec == Init /\ [][Next]_vars

-----------------------------------------------------------------------------
(* Fairness: the workers, the DB threads, the room queues and the timer    *)
(* thread run what they are given; a session that was told to go does go   *)
(* (its last send completes or fails).  Nothing is assumed of what clients *)
(* send, and of when a received packet is handled.                         *)

Fairness ==
  /\ \A s \in Sessions :
       /\ WF_vars(BindStep(s) \/ ThreadStep(<<"bind", s>>))
       /\ WF_vars(DiscStep(s) \/ ThreadStep(<<"disc", s>>))
       /\ WF_vars(ParkReturn(s) \/ ThreadStep(<<"recv", s>>))
       /\ WF_vars(kicked[s] /\ Disconnect(s))
  /\ \A u \in Users : WF_vars(DbStep(u))
  /\ \A r \in Rooms : WF_vars(RunRoom(r))
  /\ WF_vars(\E timer \in timers : ExpireTimer(timer))

FairSpec == Spec /\ Fairness
-----------------------------------------------------------------------------
(* What the system promises *)

(***************************************************************************)
(* A player object is saved at most once, and only after it has left the   *)
(* game: a second save would run after the first one released the account  *)
(* and overwrite what a new session has loaded since (LeaveGameAndSave is  *)
(* run by a return, a disconnection and a channel change for one player).  *)
(***************************************************************************)
SavedOnceAfterLeaving ==
  \A p \in Players :
    /\ saves[p] <= 1
    /\ saves[p] = 1 => presence[p] \in {"LEFT_IN_ROOM", "SAVED"}

EnterQueued(r, p) ==
  \E i \in 1 .. Len(roomJobs[r]) : roomJobs[r][i] = [kind |-> "enter", player |-> p]

(***************************************************************************)
(* A player is in one place: in the table of the room it points to, or     *)
(* waiting for that room's map, or on its way in one queued entry.  The    *)
(* hand-over of the departure between rooms (LeaveRoomAndSave, EnterPlayer) *)
(* rests on it.                                                            *)
(***************************************************************************)
OneCustodian ==
  \A p \in Players, r \in Rooms :
    /\ p \in entities[r] => room[p] = r /\ mapLoad[p] = NoRoom
    /\ p \in entities[r] \/ mapLoad[p] # NoRoom =>
         \A r2 \in Rooms : ~EnterQueued(r2, p)
    /\ mapLoad[p] # NoRoom => room[p] = mapLoad[p]

(***************************************************************************)
(* Once the save data of a player was copied, no room holds the player or  *)
(* will admit it: what a room changed afterwards would be lost.            *)
(***************************************************************************)
NothingAfterSave ==
  \A p \in Players : saves[p] > 0 =>
    /\ mapLoad[p] = NoRoom
    /\ \A r \in Rooms : p \notin entities[r] \/ entering[r] = p
    /\ \A r \in Rooms : ~EnterQueued(r, p)

(***************************************************************************)
(* An account has one session: a connected session past its lobby          *)
(* connection is the registered one, or it was told to go, or the lobby    *)
(* connection that replaced it is about to tell it (BindAccount).          *)
(***************************************************************************)
OneSessionPerAccount ==
  \A s \in Sessions :
    conn[s] /\ phase[s] \notin {"BEFORE_LOBBY", "CONNECTING_LOBBY"} =>
      \/ registered[UserOf[s]] = s
      \/ kicked[s]
      \/ \E s2 \in Sessions : replaced[s2] = s

(***************************************************************************)
(* A registration does not outlive its session: when it names a session    *)
(* that is gone, the disconnection or the lobby connection of that session *)
(* still has to erase it (OnDisconnected, BindAccount).                    *)
(***************************************************************************)
RegistrationEnds ==
  \A u \in Users : LET s == registered[u] IN
    s # NoSession /\ ~conn[s] =>
      pc[<<"disc", s>>] # "idle" \/ pc[<<"bind", s>>] # "idle"

(***************************************************************************)
(* While the progress of an account is being loaded, no player of the      *)
(* account holds newer progress that is still to be saved                  *)
(* (ProgressCoordinator: a load does not run before the save has ended).   *)
(***************************************************************************)
LoadsAfterSave ==
  \A u \in Users : DbHead(u, "loading") =>
    \A p \in Players : presence[p] # "NONE" /\ UserOfPlayer(p) = u => ~Unsaved(p)

(***************************************************************************)
(* From the moment a player's departure must be saved until it is, the     *)
(* account is held (LeaveGameAndSave holds before it marks).               *)
(***************************************************************************)
HoldCoversSave ==
  \A p \in Players : presence[p] = "LEFT_IN_ROOM" => UserOfPlayer(p) \in held

(***************************************************************************)
(* A session whose disconnection is complete leaves no player behind that  *)
(* plays on or waits to (OnDisconnected is the only one to end it).        *)
(***************************************************************************)
NoPlayerLeftBehind ==
  \A p \in Players : presence[p] \in {"LOADED", "IN_ROOM"} =>
    conn[owner[p]] \/ pc[<<"disc", owner[p]>>] # "idle"

(***************************************************************************)
(* The server lends an account's progress to one player at a time.         *)
(***************************************************************************)
Stage(mark) ==
  CASE mark = "NONE" -> "fresh"
    [] mark = "LOADED" -> "lent"
    [] mark \in {"IN_ROOM", "LEFT_IN_ROOM"} -> "played"
    [] mark = "LEFT_BEFORE_ROOM" -> "unplayed"
    [] mark = "SAVED" -> "saved"

Lease == INSTANCE ProgressLease WITH
  LeaseUsers <- Users,
  LeasePlayers <- Players,
  NoBorrower <- NoSession,
  stage <- [p \in Players |-> Stage(presence[p])],
  borrower <- [p \in Players |->
                 IF owner[p] = NoSession THEN NoSession ELSE UserOfPlayer(p)]

ImplementsLease == Lease!LeaseSpec

(* A session that goes down soon: its disconnection is to mark its player, *)
(* or it was told to go, or the lobby connection that replaced it is about *)
(* to tell it.                                                             *)
LeavesSoon(s) ==
  \/ pc[<<"disc", s>>] \in {"read", "hold", "mark"}
  \/ /\ conn[s]
     /\ kicked[s] \/ \E s2 \in Sessions : replaced[s2] = s /\ pc[<<"bind", s2>>] = "kick"

(* Who releases the mark of an account: a thread after its hold, the save  *)
(* job of a departure, a player that has left or soon will.                *)
Releaser(u) ==
  \/ \E t \in Threads : ThreadUser(t) = u /\ pc[t] \in {"mark", "check", "release"}
  \/ \E i \in 1 .. Len(dbJobs[u]) : dbJobs[u][i].kind \in {"save", "saved"}
  \/ \E p \in Players : presence[p] # "NONE" /\ UserOfPlayer(p) = u /\
       \/ presence[p] = "LEFT_IN_ROOM"
       \/ presence[p] \in {"LOADED", "IN_ROOM"} /\ LeavesSoon(owner[p])

(***************************************************************************)
(* A held account has somebody who will release it; a mark without one     *)
(* would never go (OnDuplicateConnection keeps its hold for the replaced   *)
(* session's departure only while that departure is still to come).        *)
(***************************************************************************)
HoldsHaveReleasers == \A u \in Users : u \in held => Releaser(u)

(* Where the save of a departed player waits: its departure is about to be *)
(* pushed or is queued in a room, the room it moves to is admitting it or  *)
(* is to admit it, or its save job is queued.                              *)
SaveUnderway(p) ==
  \/ \E t \in Threads : pc[t] = "leave" /\ arg[t] = p
  \/ \E r \in Rooms :
       \/ entering[r] = p
       \/ \E i \in 1 .. Len(roomJobs[r]) :
            roomJobs[r][i].kind \in {"leave", "enter"} /\ roomJobs[r][i].player = p
  \/ \E i \in 1 .. Len(dbJobs[UserOfPlayer(p)]) :
       dbJobs[UserOfPlayer(p)][i] = [kind |-> "save", player |-> p]

(***************************************************************************)
(* The save of a departed player is on its way at every moment, through    *)
(* the hand-over of the departure between rooms (LeaveRoomAndSave,         *)
(* EnterPlayer).                                                           *)
(***************************************************************************)
DeparturesUnderway ==
  \A p \in Players : presence[p] = "LEFT_IN_ROOM" => SaveUnderway(p)

(* Where an entry waits: in its account's queue, or parked with a timer    *)
(* that will refuse it.                                                    *)
EntryUnderway(s) ==
  LET u == UserOf[s] IN
  \/ \E i \in 1 .. Len(dbJobs[u]) :
       dbJobs[u][i].kind \in {"select", "load", "loading"} /\ dbJobs[u][i].session = s
  \/ /\ parked[u] # NoLoad /\ parked[u].kind = "load" /\ parked[u].session = s
     /\ [user |-> u, session |-> s, token |-> parked[u].token] \in timers

(***************************************************************************)
(* An entry that a connected client waits for is queued or parked: no      *)
(* interleaving of release, expiry and disconnections drops it without an  *)
(* answer (SaveGate, ProgressCoordinator::RequestEnter).                   *)
(***************************************************************************)
EntriesUnderway ==
  \A s \in Sessions : conn[s] /\ phase[s] = "ENTERING_GAME" => EntryUnderway(s)

(* Liveness: an account is not held for ever.  A hold that nobody releases *)
(* shuts the account out, as each later entry is parked and then refused.  *)
HoldsEnd == \A u \in Users : u \in held ~> u \notin held

(* Liveness: a player that left a room is saved, whichever rooms it was    *)
(* moving between (LeaveRoomAndSave follows it, EnterPlayer takes over).   *)
LeaverIsSaved ==
  \A p \in Players : presence[p] = "LEFT_IN_ROOM" ~> presence[p] = "SAVED"

(* Liveness: an entry request is answered, or its session goes: a parked   *)
(* load is run by the release, or refused by its timer.                    *)
EnterAnswered ==
  \A s \in Sessions :
    phase[s] = "ENTERING_GAME" ~> phase[s] # "ENTERING_GAME" \/ ~conn[s]

(* Liveness: a return to the lobby is answered, or its session goes.       *)
ReturnAnswered ==
  \A s \in Sessions :
    phase[s] = "RETURNING_TO_LOBBY" ~> phase[s] = "LOBBY" \/ ~conn[s]
=============================================================================
