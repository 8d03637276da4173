---------------------------- MODULE PlayerRooms ----------------------------
(***************************************************************************)
(* A player object among the rooms: its progress mark (Player::Presence),  *)
(* its room pointer (Entity::_room), its pending map load                  *)
(* (Player::_mapLoadRoomId), the entity table of every room and the jobs   *)
(* in every room's queue.                                                  *)
(*                                                                         *)
(* A room runs its jobs one at a time (JobQueue), so a job is one action   *)
(* except where it touches what other threads touch too: the entry of a    *)
(* player first writes _room (AddEntity) and then exchanges the presence   *)
(* mark (MarkEnteredRoom), while a disconnecting thread does the two in    *)
(* the opposite order.  That entry is two actions, with `entering' the     *)
(* player the room is in the middle of admitting.                          *)
(***************************************************************************)
EXTENDS ServerWorld

VARIABLES
  presence,   \* Player::_presence
  owner,      \* the session a player object was created for (_session, _userId)
  room,       \* Entity::_room, written by room jobs, read by any thread
  mapLoad,    \* Player::_mapLoadRoomId
  entities,   \* the players in Room::_entities
  roomJobs,   \* the job queue of each room
  entering,   \* the player a room is admitting (between the two steps)
  dbJobs,     \* the DB queue of each account
  saves       \* history: save jobs pushed for each player object

playerVars == <<presence, owner, room, mapLoad>>
roomVars == <<entities, roomJobs, entering>>

Presences ==
  {"NONE", "LOADED", "IN_ROOM", "LEFT_BEFORE_ROOM", "LEFT_IN_ROOM", "SAVED"}

RoomJob ==
  [kind : {"leave", "enter", "mapLoaded", "channel", "portal"}, player : Players]

SessionJob == [kind : {"select", "load", "loading", "accept"}, session : Sessions]
SaveJob == [kind : {"save", "saved"}, player : Players]
DbJob == SessionJob \cup SaveJob

RoomsTypeOK ==
  /\ presence \in [Players -> Presences]
  /\ owner \in [Players -> Sessions \cup {NoSession}]
  /\ room \in [Players -> Rooms \cup {NoRoom}]
  /\ mapLoad \in [Players -> Rooms \cup {NoRoom}]
  /\ entities \in [Rooms -> SUBSET Players]
  /\ roomJobs \in [Rooms -> Seq(RoomJob)]
  /\ entering \in [Rooms -> Players \cup {NoPlayer}]
  /\ dbJobs \in [Users -> Seq(DbJob)]
  /\ saves \in [Players -> Nat]

RoomsInit ==
  /\ presence = [p \in Players |-> "NONE"]
  /\ owner = [p \in Players |-> NoSession]
  /\ room = [p \in Players |-> NoRoom]
  /\ mapLoad = [p \in Players |-> NoRoom]
  /\ entities = [r \in Rooms |-> {}]
  /\ roomJobs = [r \in Rooms |-> <<>>]
  /\ entering = [r \in Rooms |-> NoPlayer]
  /\ dbJobs = [u \in Users |-> <<>>]
  /\ saves = [p \in Players |-> 0]

-----------------------------------------------------------------------------
(* Player *)

(***************************************************************************)
(* The exchange of MarkDisconnected, one compare-and-swap loop.  It returns *)
(* true when the player ends up LEFT_IN_ROOM.                              *)
(***************************************************************************)
AfterDisconnect(mark) ==
  CASE mark = "LOADED" -> "LEFT_BEFORE_ROOM"
    [] mark = "IN_ROOM" -> "LEFT_IN_ROOM"
    [] OTHER -> mark

(***************************************************************************)
(* The progress of a player that may differ from the database: it has been *)
(* in a room and its save has not ended.                                   *)
(***************************************************************************)
Unsaved(p) == presence[p] \in {"IN_ROOM", "LEFT_IN_ROOM"}

UserOfPlayer(p) == UserOf[owner[p]]

-----------------------------------------------------------------------------
(* Room jobs.  RunHead: the room is not in the middle of an entry and runs *)
(* the job at the head of its queue.                                       *)

RunHead(r, kind) ==
  /\ entering[r] = NoPlayer
  /\ roomJobs[r] # <<>>
  /\ Head(roomJobs[r]).kind = kind

HeadPlayer(r) == Head(roomJobs[r]).player

PopJob(r) == [roomJobs EXCEPT ![r] = Tail(@)]

PushRoomJob(jobs, r, kind, p) ==
  [jobs EXCEPT ![r] = Append(@, [kind |-> kind, player |-> p])]

(***************************************************************************)
(* SaveLeftPlayer: push the save job to the account's DB queue.            *)
(***************************************************************************)
SaveLeftPlayer(p) ==
  /\ dbJobs' = [dbJobs EXCEPT ![UserOfPlayer(p)] =
                  Append(@, [kind |-> "save", player |-> p])]
  /\ saves' = [saves EXCEPT ![p] = @ + 1]

NoSave == UNCHANGED <<dbJobs, saves>>

(* Deviation: the room pointer alone decides.                              *)
HasSaveData_ByPointer(r, p) == room[p] = r

(***************************************************************************)
(* Room::HandleDisconnect: the room has the player's save data when the    *)
(* player belongs to it, either waiting for the map load or as an entity.  *)
(***************************************************************************)
HasSaveData(r, p) ==
  /\ room[p] = r
  /\ mapLoad[p] = r \/ p \in entities[r]

(* Deviation: the pending map load is not ended.                           *)
DepartFrom_KeepingMapLoad(r, p) ==
  entities' = [entities EXCEPT ![r] = @ \ {p}] /\ UNCHANGED mapLoad

(***************************************************************************)
(* The exit half of HandleDisconnect: FinishMapLoad ends a wait in this    *)
(* room; a player that was not waiting is taken out of the entity table.   *)
(***************************************************************************)
DepartFrom(r, p) ==
  IF mapLoad[p] = r
  THEN mapLoad' = [mapLoad EXCEPT ![p] = NoRoom] /\ UNCHANGED entities
  ELSE entities' = [entities EXCEPT ![r] = @ \ {p}] /\ UNCHANGED mapLoad

(* Deviation: the job does not follow a player that has moved on.          *)
LeaveRoomAndSave_Here(r) ==
  /\ RunHead(r, "leave")
  /\ LET p == HeadPlayer(r) IN
       IF HasSaveData(r, p)
       THEN DepartFrom(r, p) /\ SaveLeftPlayer(p)
       ELSE NoSave /\ UNCHANGED <<entities, mapLoad>>
  /\ roomJobs' = PopJob(r)
  /\ UNCHANGED <<presence, owner, room, entering>>

(***************************************************************************)
(* ProgressCoordinator::LeaveRoomAndSave as a job of room r.  When the      *)
(* player has moved on, the job follows the room pointer; when the pointer *)
(* still names r, a channel change is under way and the entry job in the   *)
(* destination takes over.                                                 *)
(***************************************************************************)
LeaveRoomAndSave(r) ==
  /\ RunHead(r, "leave")
  /\ LET p == HeadPlayer(r) IN
       IF HasSaveData(r, p)
       THEN /\ DepartFrom(r, p)
            /\ SaveLeftPlayer(p)
            /\ roomJobs' = PopJob(r)
       ELSE /\ roomJobs' = IF room[p] \notin {NoRoom, r}
                           THEN PushRoomJob(PopJob(r), room[p], "leave", p)
                           ELSE PopJob(r)
            /\ NoSave
            /\ UNCHANGED <<entities, mapLoad>>
  /\ UNCHANGED <<presence, owner, room, entering>>

(***************************************************************************)
(* Room::EnterPlayer up to AddEntity and JoinRoom.  AddEntity refuses an   *)
(* entity that is in the table already; a player that disconnected during  *)
(* the move is then saved here.                                            *)
(***************************************************************************)
AdmitTo(r, p) ==
  IF p \in entities[r]
  THEN /\ IF presence[p] = "LEFT_IN_ROOM" THEN SaveLeftPlayer(p) ELSE NoSave
       /\ UNCHANGED <<entities, room, entering>>
  ELSE /\ entities' = [entities EXCEPT ![r] = @ \cup {p}]
       /\ room' = [room EXCEPT ![p] = r]
       /\ entering' = [entering EXCEPT ![r] = p]
       /\ NoSave

(* The entry job a channel change put into the destination's queue.        *)
EnterPlayer(r) ==
  /\ RunHead(r, "enter")
  /\ AdmitTo(r, HeadPlayer(r))
  /\ roomJobs' = PopJob(r)
  /\ UNCHANGED <<presence, owner, mapLoad>>

(***************************************************************************)
(* Room::C_HandleMapLoadComplete: dropped unless the player belongs to     *)
(* this room and waits for its map; FinishMapLoad ends the wait before the *)
(* entry starts.                                                           *)
(***************************************************************************)
MapLoadComplete(r) ==
  /\ RunHead(r, "mapLoaded")
  /\ LET p == HeadPlayer(r) IN
       IF room[p] = r /\ mapLoad[p] = r
       THEN /\ mapLoad' = [mapLoad EXCEPT ![p] = NoRoom]
            /\ AdmitTo(r, p)
       ELSE NoSave /\ UNCHANGED <<mapLoad, entities, room, entering>>
  /\ roomJobs' = PopJob(r)
  /\ UNCHANGED <<presence, owner>>

(* Deviation: the mark is stored, whatever a disconnection made of it.     *)
MarkEnteredRoom_Store(r) ==
  /\ entering[r] # NoPlayer
  /\ presence' = [presence EXCEPT ![entering[r]] = "IN_ROOM"]
  /\ entering' = [entering EXCEPT ![r] = NoPlayer]
  /\ NoSave
  /\ UNCHANGED <<owner, room, mapLoad, entities, roomJobs>>

(***************************************************************************)
(* The rest of Room::EnterPlayer, from the exchange of MarkEnteredRoom.    *)
(* A player that disconnected before its first entry is taken out and not  *)
(* saved; one that disconnected while changing rooms is saved here.        *)
(***************************************************************************)
MarkEnteredRoom(r) ==
  /\ entering[r] # NoPlayer
  /\ LET p == entering[r] IN
     /\ \/ /\ presence[p] = "LOADED"
           /\ presence' = [presence EXCEPT ![p] = "IN_ROOM"]
           /\ NoSave
           /\ UNCHANGED entities
        \/ /\ presence[p] = "LEFT_BEFORE_ROOM"
           /\ entities' = [entities EXCEPT ![r] = @ \ {p}]
           /\ NoSave
           /\ UNCHANGED presence
        \/ /\ presence[p] = "LEFT_IN_ROOM"
           /\ entities' = [entities EXCEPT ![r] = @ \ {p}]
           /\ SaveLeftPlayer(p)
           /\ UNCHANGED presence
        \/ /\ presence[p] \notin {"LOADED", "LEFT_BEFORE_ROOM", "LEFT_IN_ROOM"}
           /\ NoSave
           /\ UNCHANGED <<presence, entities>>
  /\ entering' = [entering EXCEPT ![r] = NoPlayer]
  /\ UNCHANGED <<owner, room, mapLoad, roomJobs>>

(* Deviation: the entity stays in the room that was left.                  *)
MovePlayer_KeepingEntity(r, p, dest) ==
  /\ MapOf[dest] = MapOf[r]
  /\ roomJobs' = PushRoomJob(PopJob(r), dest, "enter", p)
  /\ NoSave
  /\ UNCHANGED <<playerVars, entities, entering>>

(***************************************************************************)
(* Room::MovePlayer for two rooms.  Another map: the player belongs to the *)
(* destination from here on and waits for the client to open the map.      *)
(* Another channel: the destination's queue gets the entry, and the room   *)
(* pointer still names the room that was left.                             *)
(***************************************************************************)
MovePlayer(r, p, dest) ==
  /\ entities' = [entities EXCEPT ![r] = @ \ {p}]
  /\ IF MapOf[dest] # MapOf[r]
     THEN /\ room' = [room EXCEPT ![p] = dest]
          /\ mapLoad' = [mapLoad EXCEPT ![p] = dest]
          /\ roomJobs' = PopJob(r)
     ELSE /\ roomJobs' = PushRoomJob(PopJob(r), dest, "enter", p)
          /\ UNCHANGED <<room, mapLoad>>
  /\ NoSave
  /\ UNCHANGED <<presence, owner, entering>>

(* A request that is dropped or refused, or a move within the room.        *)
StayInRoom(r) ==
  /\ roomJobs' = PopJob(r)
  /\ NoSave
  /\ UNCHANGED <<playerVars, entities, entering>>

(***************************************************************************)
(* Room::C_HandleChangeChannel: to another room of the same map, unless    *)
(* the player belongs elsewhere, waits for a map, or is refused.           *)
(***************************************************************************)
ChangeChannel(r) ==
  /\ RunHead(r, "channel")
  /\ LET p == HeadPlayer(r) IN
       \/ /\ room[p] = r
          /\ mapLoad[p] = NoRoom
          /\ p \in entities[r]
          /\ \E dest \in Rooms \ {r} :
               MapOf[dest] = MapOf[r] /\ MovePlayer(r, p, dest)
       \/ StayInRoom(r)

(***************************************************************************)
(* Room::C_HandleUsePortal and C_HandleRespawn: to a room of another map,  *)
(* or within this room when the target is on the same map.                 *)
(***************************************************************************)
UsePortal(r) ==
  /\ RunHead(r, "portal")
  /\ LET p == HeadPlayer(r) IN
       \/ /\ p \in entities[r]
          /\ \E dest \in Rooms :
               MapOf[dest] # MapOf[r] /\ MovePlayer(r, p, dest)
       \/ StayInRoom(r)

RoomStep(r) ==
  \/ LeaveRoomAndSave(r)
  \/ EnterPlayer(r)
  \/ MapLoadComplete(r)
  \/ MarkEnteredRoom(r)
  \/ ChangeChannel(r)
  \/ UsePortal(r)
=============================================================================
