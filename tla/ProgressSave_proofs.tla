------------------------- MODULE ProgressSave_proofs -------------------------
(***************************************************************************)
(* Proofs about ProgressSave, for every value of its constants.  The first *)
(* part, down to RegistrationsEnd, holds with all three race windows open: *)
(* types, custody of departed players, registrations.  The second part,    *)
(* down to ProgressIsLent, proves what the gate promises where the windows *)
(* are closed.  The third proves the safety behind the liveness            *)
(* properties: what waits for an answer, a release or a save is held by    *)
(* somebody who will give it.  A theorem that needs a window closed names  *)
(* it; the others hold with all three open.                                *)
(***************************************************************************)
EXTENDS ProgressSave, TLAPS

(* What a thread knows at a label: the departure steps work on a player,   *)
(* the steps that replace a session know the session.                      *)
ThreadsOK ==
  /\ \A t \in Threads : pc[t] \in {"hold", "mark", "leave"} => arg[t] \in Players
  /\ \A s \in Sessions :
       \/ pc[<<"bind", s>>] \in {"idle", "register", "verify"}
       \/ /\ pc[<<"bind", s>>] \in {"replace", "hold", "check", "release", "kick"}
          /\ replaced[s] \in Sessions

Typed == TypeOK /\ ThreadsOK

-----------------------------------------------------------------------------
(* Queues *)

LEMMA TailFacts ==
  ASSUME NEW S, NEW q \in Seq(S), q # <<>>
  PROVE  /\ Head(q) \in S
         /\ Tail(q) \in Seq(S)
         /\ 1 \in 1 .. Len(q) /\ Head(q) = q[1]
         /\ \A i \in 1 .. Len(Tail(q)) : i + 1 \in 1 .. Len(q) /\ Tail(q)[i] = q[i + 1]
  OBVIOUS

LEMMA AppendFacts ==
  ASSUME NEW S, NEW q \in Seq(S), NEW e \in S
  PROVE  /\ Append(q, e) \in Seq(S)
         /\ Len(Append(q, e)) = Len(q) + 1
         /\ \A i \in 1 .. Len(q) : Append(q, e)[i] = q[i]
         /\ Append(q, e)[Len(q) + 1] = e
  OBVIOUS

LEMMA ContinueFacts ==
  ASSUME NEW S, NEW q \in Seq(S), q # <<>>, NEW e \in S
  PROVE  <<e>> \o Tail(q) \in Seq(S)
  OBVIOUS

LEMMA PushRoomTyped ==
  ASSUME NEW jobs \in [Rooms -> Seq(RoomJob)], NEW r \in Rooms,
         NEW kind \in {"leave", "enter", "mapLoaded", "channel", "portal"},
         NEW p \in Players
  PROVE  PushRoomJob(jobs, r, kind, p) \in [Rooms -> Seq(RoomJob)]
<1>1. [kind |-> kind, player |-> p] \in RoomJob
  BY DEF RoomJob
<1> QED
  BY <1>1, AppendFacts DEF PushRoomJob

LEMMA PushDbTyped ==
  ASSUME dbJobs \in [Users -> Seq(DbJob)], NEW u \in Users, NEW job \in DbJob
  PROVE  [dbJobs EXCEPT ![u] = Append(@, job)] \in [Users -> Seq(DbJob)]
  BY AppendFacts

LEMMA ParkTyped ==
  ASSUME GateTypeOK, NEW u \in Users, NEW kind \in {"load", "accept"},
         NEW s \in Sessions, Park(u, kind, s)
  PROVE  GateTypeOK'
  BY DEF GateTypeOK, Park, ParkResult, ParkedLoad, gateVars

LEMMA ParkedJobTyped ==
  ASSUME GateTypeOK, NEW u \in Users, parked[u] # NoLoad
  PROVE  ParkedJob(u) \in DbJob
  BY DEF GateTypeOK, ParkedJob, ParkedLoad, DbJob, SessionJob

LEMMA PhaseTyped ==
  ASSUME phase \in [Sessions -> Phases], NEW s \in Sessions, NEW from,
         NEW to \in Phases, TryChangePhase(s, from, to)
  PROVE  phase' \in [Sessions -> Phases]
  BY DEF TryChangePhase

LEMMA GotoTyped ==
  ASSUME pc \in [Threads -> Labels], NEW t \in Threads, NEW label \in Labels,
         Goto(t, label)
  PROVE  /\ pc' \in [Threads -> Labels]
         /\ pc'[t] = label
         /\ \A t2 \in Threads \ {t} : pc'[t2] = pc[t2]
  BY DEF Goto

LEMMA InitTyped == Init => Typed
  BY WorldAssumption, ProgressAssumption
  DEF Init, Typed, TypeOK, ThreadsOK, GateTypeOK, GateInit, RoomsTypeOK, RoomsInit,
      Presences, Phases, Labels, Threads, Players, NoPlayer, NoLoad, Timer

USE DEF vars, gateVars, playerVars, roomVars, sessionVars, clientVars, threadVars, NoSave

LEMMA HandleTyped ==
  ASSUME Typed, NEW s \in Sessions, Handle(s)
  PROVE  Typed'
<1> USE WorldAssumption DEF Typed, TypeOK, GateTypeOK, RoomsTypeOK, ThreadsOK, Receive,
      ReceiveInGame, TryChangePhase, Goto, Threads, Labels, Phases
<1>1. CASE HandleConnectLobby(s)
  BY <1>1 DEF HandleConnectLobby
<1>2. CASE HandleEnterGame(s)
  BY <1>2, AppendFacts DEF HandleEnterGame, PushDb, RoomsTypeOK, DbJob, SessionJob
<1>3. ASSUME NEW packet \in Packets, HandleInGame(s, packet)
      PROVE  Typed'
  <2>1. packet \in {"leave", "enter", "mapLoaded", "channel", "portal"}
    BY <1>3, ProgressAssumption DEF HandleInGame, InGamePackets
  <2>2. ASSUME player[s] # NoPlayer, room[player[s]] # NoRoom
        PROVE  PushRoomJob(roomJobs, room[player[s]], packet, player[s])
                 \in [Rooms -> Seq(RoomJob)]
    <3>1. player[s] \in Players /\ room[player[s]] \in Rooms
      BY <2>2
    <3> QED
      BY <2>1, <3>1, PushRoomTyped
  <2>3. roomJobs' \in [Rooms -> Seq(RoomJob)]
    BY <1>3, <2>2 DEF HandleInGame
  <2> QED
    BY <1>3, <2>3 DEF HandleInGame
<1>4. CASE HandleReturnToLobby(s)
  BY <1>4 DEF HandleReturnToLobby
<1> QED
  BY <1>1, <1>2, <1>3, <1>4 DEF Handle

LEMMA BindTyped ==
  ASSUME Typed, NEW s \in Sessions, BindStep(s)
  PROVE  Typed'
<1> USE WorldAssumption DEF Typed, TypeOK, GateTypeOK, RoomsTypeOK, ThreadsOK, Goto, Threads, Labels
<1>1. CASE RejectLobbyConnect(s)
  BY <1>1 DEF RejectLobbyConnect
<1>2. CASE RegisterUser(s)
  BY <1>2 DEF RegisterUser
<1>3. CASE ReadReplaced(s)
  BY <1>3 DEF ReadReplaced
<1>4. CASE CheckPresence(s)
  BY <1>4 DEF CheckPresence
<1>5. CASE KickReplaced(s)
  BY <1>5 DEF KickReplaced
<1>6. CASE FinishLobbyConnect(s)
  <2>1. phase' \in [Sessions -> Phases]
    BY <1>6, PhaseTyped DEF FinishLobbyConnect, Phases
  <2>2. registered' \in [Users -> Sessions \cup {NoSession}]
    BY <1>6 DEF FinishLobbyConnect, Unregister
  <2> QED
    BY <1>6, <2>1, <2>2 DEF FinishLobbyConnect
<1> QED
  BY <1>1, <1>2, <1>3, <1>4, <1>5, <1>6 DEF BindStep

LEMMA ThreadTyped ==
  ASSUME Typed, NEW t \in Threads, ThreadStep(t)
  PROVE  Typed'
<1> USE WorldAssumption DEF Typed, TypeOK, GateTypeOK, RoomsTypeOK, ThreadsOK, Goto, Threads, Labels, ThreadUser
<1>1. CASE TakeHold(t)
  BY <1>1 DEF TakeHold, Hold, GateTypeOK
<1>2. CASE MarkDisconnected(t)
  <2>1. \A mark \in Presences : AfterDisconnect(mark) \in Presences
    BY DEF AfterDisconnect, Presences
  <2>2. presence' \in [Players -> Presences]
    BY <1>2, <2>1 DEF MarkDisconnected
  <2> QED
    BY <1>2, <2>2 DEF MarkDisconnected
<1>3. CASE PushLeave(t)
  <2>1. ASSUME room[arg[t]] # NoRoom
        PROVE  PushRoomJob(roomJobs, room[arg[t]], "leave", arg[t])
                 \in [Rooms -> Seq(RoomJob)]
    <3>1. arg[t] \in Players /\ room[arg[t]] \in Rooms
      BY <1>3, <2>1 DEF PushLeave
    <3> QED
      BY <3>1, PushRoomTyped
  <2>2. roomJobs' \in [Rooms -> Seq(RoomJob)]
    BY <1>3, <2>1 DEF PushLeave
  <2>3. AfterLeaving(t) \in {"park", "unregister"}
    BY DEF AfterLeaving
  <2>4. \A s \in Sessions : <<"bind", s>> \in Threads /\ <<"bind", s>> # t
    BY <1>3 DEF PushLeave
  <2>5. pc' \in [Threads -> Labels] /\ pc'[t] \in {"release", "park", "unregister"}
    <3>1. Goto(t, "release") \/ Goto(t, AfterLeaving(t))
      BY <1>3 DEF PushLeave
    <3> QED
      BY <2>3, <3>1, GotoTyped
  <2>6. ThreadsOK'
    <3>1. \A t2 \in Threads \ {t} : pc'[t2] = pc[t2]
      BY <1>3 DEF PushLeave
    <3> QED
      BY <1>3, <2>4, <2>5, <3>1 DEF PushLeave
  <2> QED
    BY <1>3, <2>2, <2>5, <2>6 DEF PushLeave
<1>4. CASE DropHold(t)
  <2>1. dbJobs' \in [Users -> Seq(DbJob)]
    BY <1>4, ParkedJobTyped, PushDbTyped DEF DropHold, ReleaseHold
  <2> QED
    BY <1>4, <2>1 DEF DropHold, ReleaseHold, Release, AfterLeaving
<1> QED
  BY <1>1, <1>2, <1>3, <1>4 DEF ThreadStep

LEMMA SessionTyped ==
  ASSUME Typed, NEW s \in Sessions, Disconnect(s) \/ DiscStep(s) \/ ParkReturn(s)
  PROVE  Typed'
<1> USE WorldAssumption DEF Typed, TypeOK, GateTypeOK, RoomsTypeOK, ThreadsOK, Goto, Threads, Labels
<1>1. CASE Disconnect(s)
  BY <1>1 DEF Disconnect
<1>2. CASE ReadPlayer(s)
  BY <1>2 DEF ReadPlayer
<1>3. CASE UnregisterUser(s)
  BY <1>3 DEF UnregisterUser, Unregister
<1>4. CASE ParkReturn(s)
  <2>1. UserOf[s] \in Users /\ GateTypeOK'
    BY <1>4, ParkTyped DEF ParkReturn
  <2>2. [kind |-> "accept", session |-> s] \in DbJob
    BY DEF DbJob, SessionJob
  <2>3. dbJobs' \in [Users -> Seq(DbJob)]
    <3>1. [dbJobs EXCEPT ![UserOf[s]] = Append(@, [kind |-> "accept", session |-> s])]
            \in [Users -> Seq(DbJob)]
      BY <2>1, <2>2, PushDbTyped
    <3> QED
      BY <1>4, <3>1 DEF ParkReturn, PushDb
  <2> QED
    BY <1>4, <2>1, <2>3 DEF ParkReturn
<1> QED
  BY <1>1, <1>2, <1>3, <1>4 DEF DiscStep

LEMMA DbHeadFacts ==
  ASSUME Typed, NEW u \in Users, NEW kind, DbHead(u, kind)
  PROVE  /\ Head(dbJobs[u]) \in DbJob
         /\ Tail(dbJobs[u]) \in Seq(DbJob)
         /\ kind \in {"select", "load", "loading", "accept"} =>
              Head(dbJobs[u]).session \in Sessions
         /\ kind \in {"save", "saved"} => Head(dbJobs[u]).player \in Players
         /\ \A job \in DbJob : ContinueDb(u, job) \in [Users -> Seq(DbJob)]
         /\ PopDb(u) \in [Users -> Seq(DbJob)]
<1>1. dbJobs[u] \in Seq(DbJob) /\ dbJobs[u] # <<>>
  BY DEF Typed, TypeOK, RoomsTypeOK, DbHead
<1>2. Head(dbJobs[u]) \in DbJob /\ Tail(dbJobs[u]) \in Seq(DbJob)
  BY <1>1, TailFacts
<1>3. \A job \in DbJob : <<job>> \o Tail(dbJobs[u]) \in Seq(DbJob)
  BY <1>1, ContinueFacts
<1> QED
  BY <1>2, <1>3 DEF Typed, TypeOK, RoomsTypeOK, DbHead, ContinueDb, PopDb, DbJob,
      SessionJob, SaveJob

LEMMA DbTyped ==
  ASSUME Typed, NEW u \in Users, DbStep(u)
  PROVE  Typed'
<1> USE WorldAssumption DEF Typed, TypeOK, GateTypeOK, RoomsTypeOK, ThreadsOK, Threads
<1>1. CASE SelectCharacter(u)
  <2> DEFINE s == Head(dbJobs[u]).session
  <2>1. s \in Sessions /\ Tail(dbJobs[u]) \in Seq(DbJob) /\ PopDb(u) \in [Users -> Seq(DbJob)]
    BY <1>1, DbHeadFacts DEF SelectCharacter
  <2>2. [kind |-> "load", session |-> s] \in DbJob
    BY <2>1 DEF DbJob, SessionJob
  <2>3. Append(Tail(dbJobs[u]), [kind |-> "load", session |-> s]) \in Seq(DbJob)
    BY <2>1, <2>2, AppendFacts
  <2>4. dbJobs' \in [Users -> Seq(DbJob)]
    BY <1>1, <2>1, <2>3 DEF SelectCharacter
  <2>5. GateTypeOK'
    BY <1>1, <2>1, ParkTyped DEF SelectCharacter
  <2>6. timers' \in SUBSET Timer
    BY <1>1, <2>1 DEF SelectCharacter, Timer
  <2>7. phase' \in [Sessions -> Phases]
    <3>1. CancelGameEntry(s) => phase' \in [Sessions -> Phases]
      BY <2>1 DEF CancelGameEntry, TryChangePhase, Phases
    <3> QED
      BY <1>1, <3>1 DEF SelectCharacter
  <2> QED
    BY <1>1, <2>4, <2>5, <2>6, <2>7 DEF SelectCharacter
<1>2. CASE CheckConnected(u)
  BY <1>2, DbHeadFacts DEF CheckConnected, RoomsTypeOK, DbJob, SessionJob
<1>3. CASE Enter(u)
  <2> DEFINE s == Head(dbJobs[u]).session
  <2>1. s \in Sessions /\ dbJobs' \in [Users -> Seq(DbJob)]
    BY <1>3, DbHeadFacts DEF Enter
  <2>2. CASE CancelGameEntry(s) /\ UNCHANGED <<playerVars, player>>
    <3>1. phase' \in [Sessions -> Phases]
      BY <2>1, <2>2 DEF CancelGameEntry, TryChangePhase, Phases
    <3> QED
      BY <1>3, <2>1, <2>2, <3>1 DEF Enter
  <2>3. ASSUME NEW p \in Players, NEW r \in Rooms,
               presence' = [presence EXCEPT ![p] = "LOADED"],
               owner' = [owner EXCEPT ![p] = s],
               room' = [room EXCEPT ![p] = r],
               mapLoad' = [mapLoad EXCEPT ![p] = r],
               player' = [player EXCEPT ![s] = p],
               TryChangePhase(s, "ENTERING_GAME", "IN_GAME")
        PROVE  Typed'
    <3>1. phase' \in [Sessions -> Phases]
      BY <2>1, <2>3 DEF TryChangePhase, Phases
    <3>2. presence' \in [Players -> Presences]
      BY <2>3 DEF Presences
    <3> QED
      BY <1>3, <2>1, <2>3, <3>1, <3>2 DEF Enter
  <2> QED
    BY <1>3, <2>2, <2>3 DEF Enter
<1>4. CASE AcceptReturn(u)
  BY <1>4, DbHeadFacts DEF AcceptReturn, RoomsTypeOK, TryChangePhase, Phases
<1>5. CASE MarkSaved(u)
  BY <1>5, DbHeadFacts DEF MarkSaved, RoomsTypeOK, Presences, DbJob, SaveJob
<1>6. CASE ReleaseSaved(u)
  BY <1>6, DbHeadFacts DEF ReleaseSaved, Release, GateTypeOK, RoomsTypeOK, ParkedJob,
      ParkedLoad, DbJob, SessionJob
<1> QED
  BY <1>1, <1>2, <1>3, <1>4, <1>5, <1>6 DEF DbStep

LEMMA TimerTyped ==
  ASSUME Typed, NEW timer \in timers, ExpireTimer(timer)
  PROVE  Typed'
  BY WorldAssumption
  DEF ExpireTimer, Expire, CancelGameEntry, TryChangePhase, Typed, TypeOK, GateTypeOK,
      ThreadsOK, RoomsTypeOK, Phases, Timer

-----------------------------------------------------------------------------
(* Rooms *)

LEMMA RunHeadFacts ==
  ASSUME RoomsTypeOK, NEW r \in Rooms, NEW kind, RunHead(r, kind)
  PROVE  /\ HeadPlayer(r) \in Players
         /\ PopJob(r) \in [Rooms -> Seq(RoomJob)]
<1>1. roomJobs[r] \in Seq(RoomJob) /\ roomJobs[r] # <<>>
  BY DEF RoomsTypeOK, RunHead
<1>2. Head(roomJobs[r]) \in RoomJob /\ Tail(roomJobs[r]) \in Seq(RoomJob)
  BY <1>1, TailFacts
<1> QED
  BY <1>2 DEF RoomsTypeOK, HeadPlayer, PopJob, RoomJob

LEMMA SaveLeftTyped ==
  ASSUME RoomsTypeOK, NEW p \in Players, SaveLeftPlayer(p)
  PROVE  dbJobs' \in [Users -> Seq(DbJob)] /\ saves' \in [Players -> Nat]
<1>1. [kind |-> "save", player |-> p] \in DbJob
  BY DEF DbJob, SaveJob
<1>2. saves' \in [Players -> Nat]
  BY DEF SaveLeftPlayer, RoomsTypeOK
<1>3. CASE UserOfPlayer(p) \in Users
  BY <1>1, <1>2, <1>3, PushDbTyped DEF SaveLeftPlayer, RoomsTypeOK
<1>4. CASE UserOfPlayer(p) \notin Users
  <2>1. dbJobs' = dbJobs
    BY <1>4 DEF SaveLeftPlayer, RoomsTypeOK
  <2> QED
    BY <1>2, <2>1 DEF RoomsTypeOK
<1> QED
  BY <1>3, <1>4

LEMMA AdmitTyped ==
  ASSUME RoomsTypeOK, NEW r \in Rooms, NEW p \in Players, AdmitTo(r, p)
  PROVE  /\ entities' \in [Rooms -> SUBSET Players]
         /\ room' \in [Players -> Rooms \cup {NoRoom}]
         /\ entering' \in [Rooms -> Players \cup {NoPlayer}]
         /\ dbJobs' \in [Users -> Seq(DbJob)]
         /\ saves' \in [Players -> Nat]
<1>1. dbJobs' \in [Users -> Seq(DbJob)] /\ saves' \in [Players -> Nat]
  BY SaveLeftTyped DEF AdmitTo, RoomsTypeOK
<1>2. CASE p \in entities[r]
  BY <1>1, <1>2 DEF AdmitTo, RoomsTypeOK
<1>3. CASE p \notin entities[r]
  <2>1. entities' \in [Rooms -> SUBSET Players]
    <3>1. entities' = [entities EXCEPT ![r] = @ \cup {p}]
      BY <1>3 DEF AdmitTo
    <3>2. \A r2 \in Rooms : entities[r2] \subseteq Players
      BY DEF RoomsTypeOK
    <3> QED
      BY <3>1, <3>2 DEF RoomsTypeOK
  <2>2. room' \in [Players -> Rooms \cup {NoRoom}]
    BY <1>3 DEF AdmitTo, RoomsTypeOK
  <2>3. entering' \in [Rooms -> Players \cup {NoPlayer}]
    BY <1>3 DEF AdmitTo, RoomsTypeOK
  <2> QED
    BY <1>1, <2>1, <2>2, <2>3
<1> QED
  BY <1>2, <1>3

LEMMA DepartTyped ==
  ASSUME RoomsTypeOK, NEW r \in Rooms, NEW p \in Players, DepartFrom(r, p)
  PROVE  /\ entities' \in [Rooms -> SUBSET Players]
         /\ mapLoad' \in [Players -> Rooms \cup {NoRoom}]
  BY DEF DepartFrom, RoomsTypeOK

LEMMA MoveTyped ==
  ASSUME RoomsTypeOK, NEW r \in Rooms, NEW p \in Players, NEW dest \in Rooms,
         PopJob(r) \in [Rooms -> Seq(RoomJob)], MovePlayer(r, p, dest)
  PROVE  RoomsTypeOK'
<1>1. PushRoomJob(PopJob(r), dest, "enter", p) \in [Rooms -> Seq(RoomJob)]
  BY PushRoomTyped
<1> QED
  BY <1>1 DEF MovePlayer, RoomsTypeOK

LEMMA RoomStepTyped ==
  ASSUME RoomsTypeOK, NEW r \in Rooms, RoomStep(r)
  PROVE  RoomsTypeOK'
<1> DEFINE p == HeadPlayer(r)
<1>1. CASE LeaveRoomAndSave(r)
  <2>1. p \in Players /\ PopJob(r) \in [Rooms -> Seq(RoomJob)]
    BY <1>1, RunHeadFacts DEF LeaveRoomAndSave
  <2>2. CASE HasSaveData(r, p)
    BY <1>1, <2>1, <2>2, DepartTyped, SaveLeftTyped DEF LeaveRoomAndSave, RoomsTypeOK
  <2>3. CASE ~HasSaveData(r, p)
    <3>1. room[p] \notin {NoRoom, r} =>
            PushRoomJob(PopJob(r), room[p], "leave", p) \in [Rooms -> Seq(RoomJob)]
      <4>1. room[p] \in Rooms \cup {NoRoom}
        BY <2>1 DEF RoomsTypeOK
      <4> QED
        BY <2>1, <4>1, PushRoomTyped
    <3>2. roomJobs' \in [Rooms -> Seq(RoomJob)]
      BY <1>1, <2>1, <2>3, <3>1 DEF LeaveRoomAndSave
    <3> QED
      BY <1>1, <2>3, <3>2 DEF LeaveRoomAndSave, RoomsTypeOK
  <2> QED
    BY <2>2, <2>3
<1>2. CASE EnterPlayer(r)
  <2>1. p \in Players /\ roomJobs' \in [Rooms -> Seq(RoomJob)]
    BY <1>2, RunHeadFacts DEF EnterPlayer
  <2> QED
    BY <1>2, <2>1, AdmitTyped DEF EnterPlayer, RoomsTypeOK
<1>3. CASE MapLoadComplete(r)
  <2>1. p \in Players /\ roomJobs' \in [Rooms -> Seq(RoomJob)]
    BY <1>3, RunHeadFacts DEF MapLoadComplete
  <2>2. CASE room[p] = r /\ mapLoad[p] = r
    BY <1>3, <2>1, <2>2, AdmitTyped DEF MapLoadComplete, RoomsTypeOK
  <2>3. CASE ~(room[p] = r /\ mapLoad[p] = r)
    BY <1>3, <2>1, <2>3 DEF MapLoadComplete, RoomsTypeOK
  <2> QED
    BY <2>2, <2>3
<1>4. CASE MarkEnteredRoom(r)
  <2>1. entering[r] \in Players
    BY <1>4 DEF MarkEnteredRoom, RoomsTypeOK
  <2>2. dbJobs' \in [Users -> Seq(DbJob)] /\ saves' \in [Players -> Nat]
    BY <1>4, <2>1, SaveLeftTyped DEF MarkEnteredRoom, RoomsTypeOK
  <2>3. presence' \in [Players -> Presences]
    BY <1>4, <2>1 DEF MarkEnteredRoom, RoomsTypeOK, Presences
  <2> QED
    BY <1>4, <2>1, <2>2, <2>3 DEF MarkEnteredRoom, RoomsTypeOK
<1>5. CASE ChangeChannel(r) \/ UsePortal(r)
  <2>1. p \in Players /\ PopJob(r) \in [Rooms -> Seq(RoomJob)]
    BY <1>5, RunHeadFacts DEF ChangeChannel, UsePortal
  <2>2. CASE StayInRoom(r)
    BY <2>1, <2>2 DEF StayInRoom, RoomsTypeOK
  <2>3. CASE \E dest \in Rooms : MovePlayer(r, p, dest)
    BY <2>1, <2>3, MoveTyped
  <2> QED
    BY <1>5, <2>2, <2>3 DEF ChangeChannel, UsePortal
<1> QED
  BY <1>1, <1>2, <1>3, <1>4, <1>5 DEF RoomStep

LEMMA RoomTyped ==
  ASSUME Typed, NEW r \in Rooms, RunRoom(r)
  PROVE  Typed'
<1>1. RoomsTypeOK'
  BY RoomStepTyped DEF RunRoom, Typed, TypeOK
<1> QED
  BY <1>1 DEF RunRoom, Typed, TypeOK, GateTypeOK, ThreadsOK

LEMMA StutterTyped ==
  ASSUME Typed, UNCHANGED vars
  PROVE  Typed'
  BY DEF Typed, TypeOK, GateTypeOK, RoomsTypeOK, ThreadsOK

LEMMA NextTyped == Typed /\ [Next]_vars => Typed'
<1> SUFFICES ASSUME Typed, [Next]_vars PROVE Typed'
  OBVIOUS
<1>1. ASSUME NEW s \in Sessions, Handle(s) \/ Disconnect(s) PROVE Typed'
  BY <1>1, HandleTyped, SessionTyped
<1>2. CASE ServerStep
  <2>1. ASSUME NEW s \in Sessions, BindStep(s) \/ DiscStep(s) \/ ParkReturn(s)
        PROVE  Typed'
    BY <2>1, BindTyped, SessionTyped
  <2> QED
    BY <1>2, <2>1, ThreadTyped, DbTyped, RoomTyped, TimerTyped DEF ServerStep
<1> QED
  BY <1>1, <1>2, StutterTyped DEF Next

(* Every variable keeps its type, the queues and the gate included: a step *)
(* of the departure always has a player, and a job a player or a session.  *)
THEOREM TypeCorrect == Spec => []TypeOK
<1>1. Spec => []Typed
  BY InitTyped, NextTyped, PTL DEF Spec
<1>2. Typed => TypeOK
  BY DEF Typed
<1> QED
  BY <1>1, <1>2, PTL

-----------------------------------------------------------------------------
(* Custody of a player.  The three safety invariants of the rooms follow   *)
(* from one inductive invariant, stated per player: in a table, waiting for *)
(* a map, or on its way in one entry job, and in each case not saved; and  *)
(* whoever carries a departure does so for a player that has departed.     *)

Departed(p) == presence[p] \in {"LEFT_IN_ROOM", "SAVED"}

JobAt(r, i, kind, p) ==
  /\ i \in 1 .. Len(roomJobs[r])
  /\ roomJobs[r][i].kind = kind
  /\ roomJobs[r][i].player = p

JobKinds == {"leave", "enter", "mapLoaded", "channel", "portal"}

InNoJob(p) ==
  \A r \in Rooms : \A i \in Nat : \A kind \in JobKinds : ~JobAt(r, i, kind, p)

InNoTable(p) == \A r \in Rooms : p \notin entities[r]

(* Nothing refers to a player object before it is created.                 *)
Unborn(p) == presence[p] = "NONE" =>
  /\ saves[p] = 0 /\ mapLoad[p] = NoRoom /\ InNoTable(p) /\ InNoJob(p)
  /\ \A s \in Sessions : player[s] # p
  /\ \A t \in Threads : arg[t] # p

InTable(p) == \A r \in Rooms : p \in entities[r] =>
  room[p] = r /\ mapLoad[p] = NoRoom /\ saves[p] = 0

Waiting(p) == mapLoad[p] # NoRoom => room[p] = mapLoad[p] /\ saves[p] = 0

OnTheWay(p) == \A r \in Rooms : \A i \in Nat : JobAt(r, i, "enter", p) =>
  /\ mapLoad[p] = NoRoom /\ saves[p] = 0 /\ InNoTable(p)
  /\ \A r2 \in Rooms : \A j \in Nat : JobAt(r2, j, "enter", p) => r2 = r /\ j = i

Leaving(p) ==
  /\ saves[p] \in {0, 1}
  /\ saves[p] = 1 => Departed(p)
  /\ \A r \in Rooms : \A i \in Nat : JobAt(r, i, "leave", p) => Departed(p)
  /\ \A t \in Threads : pc[t] = "leave" /\ arg[t] = p => Departed(p)

Admitting == \A r \in Rooms : entering[r] # NoPlayer => entering[r] \in entities[r]

Custody ==
  /\ Admitting
  /\ \A p \in Players :
       Unborn(p) /\ InTable(p) /\ Waiting(p) /\ OnTheWay(p) /\ Leaving(p)

(* The place a job had before the head of r's queue was taken.             *)
Shift(r, r2, i) == IF r2 = r THEN i + 1 ELSE i

LEMMA HeadAt ==
  ASSUME RoomsTypeOK, NEW r \in Rooms, NEW kind, RunHead(r, kind)
  PROVE  JobAt(r, 1, kind, HeadPlayer(r))
<1>1. roomJobs[r] \in Seq(RoomJob) /\ roomJobs[r] # <<>>
  BY DEF RoomsTypeOK, RunHead
<1> QED
  BY <1>1, TailFacts DEF JobAt, HeadPlayer, RunHead

LEMMA PopAt ==
  ASSUME RoomsTypeOK, NEW r \in Rooms, NEW kind, RunHead(r, kind), roomJobs' = PopJob(r)
  PROVE  \A r2 \in Rooms : \A i \in Nat : \A k, p :
           JobAt(r2, i, k, p)' => JobAt(r2, Shift(r, r2, i), k, p)
<1>1. roomJobs[r] \in Seq(RoomJob) /\ roomJobs[r] # <<>>
  BY DEF RoomsTypeOK, RunHead
<1>2. \A i \in 1 .. Len(Tail(roomJobs[r])) :
        i + 1 \in 1 .. Len(roomJobs[r]) /\ Tail(roomJobs[r])[i] = roomJobs[r][i + 1]
  BY <1>1, TailFacts
<1> QED
  BY <1>2 DEF RoomsTypeOK, PopJob, JobAt, Shift

(* Every job after a push was there before, or is the one pushed.          *)
LEMMA PushedAt ==
  ASSUME RoomsTypeOK, NEW dest \in Rooms,
         NEW kind \in {"leave", "enter", "mapLoaded", "channel", "portal"},
         NEW p \in Players, roomJobs' = PushRoomJob(roomJobs, dest, kind, p)
  PROVE  \A r2 \in Rooms : \A i \in Nat : \A k, p2 : JobAt(r2, i, k, p2)' =>
           \/ JobAt(r2, i, k, p2)
           \/ r2 = dest /\ i = Len(roomJobs[dest]) + 1 /\ k = kind /\ p2 = p
<1>1. roomJobs \in [Rooms -> Seq(RoomJob)] /\ Len(roomJobs[dest]) \in Nat
  BY DEF RoomsTypeOK
<1> QED
  BY <1>1, AppendFacts DEF JobAt, PushRoomJob, RoomJob

(* The same for a job pushed after the head of r's queue was taken.        *)
LEMMA PopPushAt ==
  ASSUME RoomsTypeOK, NEW r \in Rooms, NEW head, RunHead(r, head), NEW dest \in Rooms,
         NEW kind \in {"leave", "enter", "mapLoaded", "channel", "portal"},
         NEW p \in Players, roomJobs' = PushRoomJob(PopJob(r), dest, kind, p)
  PROVE  \A r2 \in Rooms : \A i \in Nat : \A k, p2 : JobAt(r2, i, k, p2)' =>
           \/ JobAt(r2, Shift(r, r2, i), k, p2)
           \/ r2 = dest /\ i = Len(PopJob(r)[dest]) + 1 /\ k = kind /\ p2 = p
<1>1. PopJob(r) \in [Rooms -> Seq(RoomJob)]
  BY RunHeadFacts
<1>2. roomJobs[r] \in Seq(RoomJob) /\ roomJobs[r] # <<>>
  BY DEF RoomsTypeOK, RunHead
<1>3. \A i \in 1 .. Len(PopJob(r)[r]) :
        i + 1 \in 1 .. Len(roomJobs[r]) /\ PopJob(r)[r][i] = roomJobs[r][i + 1]
  BY <1>2, TailFacts DEF PopJob, RoomsTypeOK
<1>4. \A r2 \in Rooms \ {r} : PopJob(r)[r2] = roomJobs[r2]
  BY DEF PopJob, RoomsTypeOK
<1>5. Len(PopJob(r)[dest]) \in Nat
  BY <1>1
<1>6. \A r2 \in Rooms : \A i \in 1 .. Len(PopJob(r)[r2]) :
        /\ Shift(r, r2, i) \in 1 .. Len(roomJobs[r2])
        /\ PopJob(r)[r2][i] = roomJobs[r2][Shift(r, r2, i)]
  BY <1>3, <1>4 DEF Shift
<1> SUFFICES ASSUME NEW r2 \in Rooms, NEW i \in Nat, NEW k, NEW p2, JobAt(r2, i, k, p2)'
             PROVE  \/ JobAt(r2, Shift(r, r2, i), k, p2)
                    \/ r2 = dest /\ i = Len(PopJob(r)[dest]) + 1 /\ k = kind /\ p2 = p
  OBVIOUS
<1>7. /\ i \in 1 .. Len(roomJobs'[r2])
      /\ roomJobs'[r2][i].kind = k /\ roomJobs'[r2][i].player = p2
  BY DEF JobAt
<1>8. CASE r2 = dest /\ i = Len(PopJob(r)[dest]) + 1
  BY <1>1, <1>7, <1>8, AppendFacts DEF PushRoomJob, RoomJob
<1>9. CASE ~(r2 = dest /\ i = Len(PopJob(r)[dest]) + 1)
  <2>1. i \in 1 .. Len(PopJob(r)[r2]) /\ roomJobs'[r2][i] = PopJob(r)[r2][i]
    <3>1. /\ \A r3 \in Rooms \ {dest} : roomJobs'[r3] = PopJob(r)[r3]
          /\ Len(roomJobs'[dest]) = Len(PopJob(r)[dest]) + 1
          /\ \A j \in 1 .. Len(PopJob(r)[dest]) : roomJobs'[dest][j] = PopJob(r)[dest][j]
      BY <1>1, AppendFacts DEF PushRoomJob, RoomJob
    <3>2. CASE r2 = dest
      BY <1>5, <1>7, <1>9, <3>1, <3>2
    <3>3. CASE r2 # dest
      BY <1>7, <3>1, <3>3
    <3> QED
      BY <3>2, <3>3
  <2> QED
    BY <1>6, <1>7, <2>1 DEF JobAt
<1> QED
  BY <1>8, <1>9

custodyVars == <<presence, room, mapLoad, entities, entering, roomJobs, saves>>

(* A step that moves no player, no job and no mark: sessions and threads   *)
(* forget players, or a thread takes the player of a session.              *)
Quiet ==
  /\ UNCHANGED custodyVars
  /\ \A s \in Sessions : player'[s] \in {player[s], NoPlayer}
  /\ \A t \in Threads :
       arg'[t] \in {arg[t], NoPlayer} \/ \E s \in Sessions : arg'[t] = player[s]
  /\ \A t \in Threads : pc'[t] = "leave" => pc[t] = "leave" /\ arg'[t] = arg[t]

LEMMA QuietCustody ==
  ASSUME Typed, Custody, Quiet
  PROVE  Custody'
<1>1. \A p \in Players : p # NoPlayer
  BY DEF Players, NoPlayer
<1>2. Admitting'
  BY DEF Custody, Admitting, Quiet, custodyVars
<1>3. ASSUME NEW p \in Players
      PROVE  (InTable(p) /\ Waiting(p) /\ OnTheWay(p))'
  BY DEF Custody, Quiet, custodyVars, InTable, Waiting, OnTheWay, JobAt, InNoTable
<1>4. ASSUME NEW p \in Players PROVE Unborn(p)'
  BY <1>1 DEF Custody, Quiet, custodyVars, Unborn, InNoTable, InNoJob, JobAt
<1>5. ASSUME NEW p \in Players PROVE Leaving(p)'
  BY DEF Custody, Quiet, custodyVars, Leaving, JobAt, Departed
<1> QED
  BY <1>2, <1>3, <1>4, <1>5 DEF Custody

LEMMA InitCustody == Init => Custody
  BY DEF Init, RoomsInit, Custody, Admitting, Unborn, InTable, Waiting, OnTheWay, Leaving,
      JobAt, InNoTable, InNoJob, Players, NoPlayer

LEMMA QuietHandle ==
  ASSUME Typed, NEW s \in Sessions,
         HandleConnectLobby(s) \/ HandleEnterGame(s) \/ HandleReturnToLobby(s)
  PROVE  Quiet
<1> USE DEF Typed, TypeOK, Quiet, custodyVars, Goto, Threads
<1>1. CASE HandleConnectLobby(s)
  BY <1>1 DEF HandleConnectLobby
<1>2. CASE HandleEnterGame(s)
  BY <1>2 DEF HandleEnterGame
<1>3. CASE HandleReturnToLobby(s)
  BY <1>3 DEF HandleReturnToLobby
<1> QED
  BY <1>1, <1>2, <1>3

LEMMA QuietBind ==
  ASSUME Typed, NEW s \in Sessions, BindStep(s)
  PROVE  Quiet
<1> USE WorldAssumption DEF Typed, TypeOK, ThreadsOK, Quiet, custodyVars, Goto, Threads
<1>1. CASE RejectLobbyConnect(s)
  BY <1>1 DEF RejectLobbyConnect
<1>2. CASE RegisterUser(s)
  BY <1>2 DEF RegisterUser
<1>3. CASE ReadReplaced(s)
  BY <1>3 DEF ReadReplaced
<1>4. CASE CheckPresence(s)
  BY <1>4 DEF CheckPresence
<1>5. CASE KickReplaced(s)
  BY <1>5 DEF KickReplaced
<1>6. CASE FinishLobbyConnect(s)
  BY <1>6 DEF FinishLobbyConnect
<1> QED
  BY <1>1, <1>2, <1>3, <1>4, <1>5, <1>6 DEF BindStep

LEMMA QuietSession ==
  ASSUME Typed, NEW s \in Sessions, Disconnect(s) \/ DiscStep(s) \/ ParkReturn(s)
  PROVE  Quiet
<1> USE DEF Typed, TypeOK, Quiet, custodyVars, Goto, Threads
<1>1. CASE Disconnect(s)
  BY <1>1 DEF Disconnect
<1>2. CASE ReadPlayer(s)
  BY <1>2 DEF ReadPlayer
<1>3. CASE UnregisterUser(s)
  BY <1>3 DEF UnregisterUser
<1>4. CASE ParkReturn(s)
  BY <1>4 DEF ParkReturn
<1> QED
  BY <1>1, <1>2, <1>3, <1>4 DEF DiscStep

LEMMA QuietThread ==
  ASSUME Typed, NEW t \in Threads, TakeHold(t) \/ DropHold(t)
  PROVE  Quiet
<1> USE DEF Typed, TypeOK, Quiet, custodyVars, Goto
<1>1. CASE TakeHold(t)
  BY <1>1 DEF TakeHold
<1>2. CASE DropHold(t)
  BY <1>2 DEF DropHold, AfterLeaving
<1> QED
  BY <1>1, <1>2

LEMMA QuietDb ==
  ASSUME Typed, NEW u \in Users,
         SelectCharacter(u) \/ CheckConnected(u) \/ AcceptReturn(u) \/ ReleaseSaved(u)
  PROVE  Quiet
<1> USE DEF Typed, TypeOK, Quiet, custodyVars
<1>1. CASE SelectCharacter(u)
  BY <1>1 DEF SelectCharacter
<1>2. CASE CheckConnected(u)
  BY <1>2 DEF CheckConnected
<1>3. CASE AcceptReturn(u)
  BY <1>3 DEF AcceptReturn
<1>4. CASE ReleaseSaved(u)
  BY <1>4 DEF ReleaseSaved
<1> QED
  BY <1>1, <1>2, <1>3, <1>4

LEMMA QuietTimer ==
  ASSUME NEW timer \in timers, ExpireTimer(timer)
  PROVE  Quiet
  BY DEF ExpireTimer, Quiet, custodyVars

(* A packet for the room: its job concerns a player that exists, and is    *)
(* neither an entry nor a departure.                                       *)
LEMMA InGameCustody ==
  ASSUME Typed, Custody, NEW s \in Sessions, NEW packet \in Packets,
         HandleInGame(s, packet)
  PROVE  Custody'
<1> DEFINE p == player[s]
<1>1. /\ UNCHANGED <<presence, room, mapLoad, entities, entering, saves, player, arg, pc>>
      /\ packet \in {"mapLoaded", "channel", "portal"}
  BY ProgressAssumption DEF HandleInGame, InGamePackets
<1>2. CASE p = NoPlayer \/ room[p] = NoRoom
  <2>1. Quiet
    BY <1>1, <1>2 DEF HandleInGame, Quiet, custodyVars
  <2> QED
    BY <2>1, QuietCustody
<1>3. CASE ~(p = NoPlayer \/ room[p] = NoRoom)
  <2>1. p \in Players /\ room[p] \in Rooms /\ RoomsTypeOK
    BY <1>3 DEF Typed, TypeOK, RoomsTypeOK
  <2>2. \A r \in Rooms : \A i \in Nat : \A k, q : JobAt(r, i, k, q)' =>
          JobAt(r, i, k, q) \/ (k = packet /\ q = p)
    <3>1. roomJobs' = PushRoomJob(roomJobs, room[p], packet, p)
      BY <1>3 DEF HandleInGame
    <3> QED
      BY <1>1, <2>1, <3>1, PushedAt
  <2>3. Admitting' /\ \A q \in Players : (InTable(q) /\ Waiting(q))'
    BY <1>1 DEF Custody, InTable, Waiting, Admitting
  <2>4. ASSUME NEW q \in Players PROVE OnTheWay(q)'
    BY <1>1, <2>2 DEF Custody, OnTheWay, InNoTable
  <2>5. ASSUME NEW q \in Players PROVE Leaving(q)'
    BY <1>1, <2>2 DEF Custody, Leaving, Departed
  <2>6. ASSUME NEW q \in Players PROVE Unborn(q)'
    <3> SUFFICES ASSUME presence[q] = "NONE" PROVE Unborn(q)'
      BY <1>1 DEF Unborn
    <3>1. InNoJob(q) /\ q # p
      BY DEF Custody, Unborn
    <3>2. InNoJob(q)'
      BY <2>2, <3>1 DEF InNoJob
    <3> QED
      BY <1>1, <3>2 DEF Custody, Unborn, InNoTable
  <2> QED
    BY <2>3, <2>4, <2>5, <2>6 DEF Custody
<1> QED
  BY <1>2, <1>3

LEMMA MarkCustody ==
  ASSUME Typed, Custody, NEW t \in Threads, MarkDisconnected(t)
  PROVE  Custody'
<1> DEFINE p == arg[t]
<1>1. /\ p \in Players /\ presence[p] # "NONE" /\ presence[p] \in Presences
      /\ presence \in [Players -> Presences]
  BY DEF MarkDisconnected, Typed, ThreadsOK, TypeOK, RoomsTypeOK, Custody, Unborn
<1>2. /\ presence' = [presence EXCEPT ![p] = AfterDisconnect(presence[p])]
      /\ UNCHANGED <<room, mapLoad, entities, entering, roomJobs, saves, player, arg>>
  BY DEF MarkDisconnected
<1>3. AfterDisconnect(presence[p]) # "NONE"
  BY <1>1 DEF AfterDisconnect, Presences
<1>4. \A q \in Players : Departed(q) => Departed(q)'
  BY <1>1, <1>2 DEF Departed, AfterDisconnect
<1>5. Admitting' /\ \A q \in Players : (InTable(q) /\ Waiting(q) /\ OnTheWay(q))'
  BY <1>2 DEF Custody, InTable, Waiting, OnTheWay, JobAt, InNoTable, Admitting
<1>6. ASSUME NEW q \in Players PROVE Unborn(q)'
  BY <1>1, <1>2, <1>3 DEF Custody, Unborn, InNoTable, InNoJob, JobAt
<1>7. ASSUME NEW q \in Players PROVE Leaving(q)'
  <2>1. \A t2 \in Threads : pc'[t2] = "leave" =>
          pc[t2] = "leave" \/ (t2 = t /\ AfterDisconnect(presence[p]) = "LEFT_IN_ROOM")
    <3>1. pc' = [pc EXCEPT ![t] = IF AfterDisconnect(presence[p]) = "LEFT_IN_ROOM"
                                  THEN "leave" ELSE "release"]
      BY DEF MarkDisconnected, Goto
    <3> QED
      BY <3>1 DEF Typed, TypeOK
  <2>2. AfterDisconnect(presence[p]) = "LEFT_IN_ROOM" => Departed(p)'
    BY <1>1, <1>2 DEF Departed
  <2> QED
    BY <1>2, <1>4, <2>1, <2>2 DEF Custody, Leaving, JobAt
<1> QED
  BY <1>5, <1>6, <1>7 DEF Custody

LEMMA PushLeaveCustody ==
  ASSUME Typed, Custody, NEW t \in Threads, PushLeave(t)
  PROVE  Custody'
<1> DEFINE p == arg[t]
<1>1. /\ UNCHANGED <<presence, room, mapLoad, entities, entering, saves, player, arg>>
      /\ p \in Players /\ Departed(p) /\ RoomsTypeOK
  BY DEF PushLeave, Typed, ThreadsOK, TypeOK, Custody, Leaving
<1>2. \A t2 \in Threads : pc'[t2] = "leave" => pc[t2] = "leave"
  BY DEF PushLeave, Goto, AfterLeaving, Typed, TypeOK
<1>3. CASE room[p] = NoRoom
  <2>1. Quiet
    BY <1>1, <1>2, <1>3 DEF PushLeave, Quiet, custodyVars
  <2> QED
    BY <2>1, QuietCustody
<1>4. CASE room[p] # NoRoom
  <2>1. room[p] \in Rooms
    BY <1>1, <1>4 DEF RoomsTypeOK
  <2>2. \A r \in Rooms : \A i \in Nat : \A k, q : JobAt(r, i, k, q)' =>
          JobAt(r, i, k, q) \/ (k = "leave" /\ q = p)
    <3>1. roomJobs' = PushRoomJob(roomJobs, room[p], "leave", p)
      BY <1>4 DEF PushLeave
    <3> QED
      BY <1>1, <2>1, <3>1, PushedAt
  <2>3. Admitting' /\ \A q \in Players : (InTable(q) /\ Waiting(q))'
    BY <1>1 DEF Custody, InTable, Waiting, Admitting
  <2>4. ASSUME NEW q \in Players PROVE OnTheWay(q)'
    BY <1>1, <2>2 DEF Custody, OnTheWay, InNoTable
  <2>5. ASSUME NEW q \in Players PROVE Leaving(q)'
    BY <1>1, <1>2, <2>2 DEF Custody, Leaving, Departed
  <2>6. ASSUME NEW q \in Players PROVE Unborn(q)'
    <3> SUFFICES ASSUME presence[q] = "NONE" PROVE Unborn(q)'
      BY <1>1 DEF Unborn
    <3>1. InNoJob(q) /\ q # p
      BY DEF Custody, Unborn
    <3>2. InNoJob(q)'
      BY <2>2, <3>1 DEF InNoJob
    <3> QED
      BY <1>1, <3>2 DEF Custody, Unborn, InNoTable
  <2> QED
    BY <2>3, <2>4, <2>5, <2>6 DEF Custody
<1> QED
  BY <1>3, <1>4

LEMMA SavedCustody ==
  ASSUME Typed, Custody, NEW u \in Users, MarkSaved(u)
  PROVE  Custody'
<1> DEFINE p == Head(dbJobs[u]).player
<1>1. /\ presence' = [presence EXCEPT ![p] = "SAVED"]
      /\ UNCHANGED <<room, mapLoad, entities, entering, roomJobs, saves, player, arg, pc>>
  BY DEF MarkSaved
<1>2. presence \in [Players -> Presences]
  BY DEF Typed, TypeOK, RoomsTypeOK
<1>3. Admitting' /\ \A q \in Players : (InTable(q) /\ Waiting(q) /\ OnTheWay(q))'
  BY <1>1 DEF Custody, InTable, Waiting, OnTheWay, JobAt, InNoTable, Admitting
<1>4. ASSUME NEW q \in Players PROVE Unborn(q)'
  BY <1>1, <1>2 DEF Custody, Unborn, InNoTable, InNoJob, JobAt
<1>5. ASSUME NEW q \in Players PROVE Leaving(q)'
  BY <1>1, <1>2 DEF Custody, Leaving, JobAt, Departed
<1> QED
  BY <1>3, <1>4, <1>5 DEF Custody

(* A player object is created: nothing referred to it before.              *)
LEMMA EnterCustody ==
  ASSUME Typed, Custody, NEW u \in Users, Enter(u)
  PROVE  Custody'
<1> DEFINE s == Head(dbJobs[u]).session
<1>1. CASE UNCHANGED <<playerVars, player>>
  <2>1. Quiet
    BY <1>1 DEF Enter, Quiet, custodyVars
  <2> QED
    BY <2>1, QuietCustody
<1>2. ASSUME NEW p \in Players, NEW r \in Rooms, presence[p] = "NONE",
             presence' = [presence EXCEPT ![p] = "LOADED"],
             room' = [room EXCEPT ![p] = r],
             mapLoad' = [mapLoad EXCEPT ![p] = r],
             player' = [player EXCEPT ![s] = p]
      PROVE  Custody'
  <2>1. /\ UNCHANGED <<entities, entering, roomJobs, saves, arg, pc>>
        /\ presence \in [Players -> Presences]
        /\ room \in [Players -> Rooms \cup {NoRoom}]
        /\ mapLoad \in [Players -> Rooms \cup {NoRoom}]
        /\ player \in [Sessions -> Players \cup {NoPlayer}]
    BY DEF Enter, Typed, TypeOK, RoomsTypeOK
  <2>2. saves[p] = 0 /\ mapLoad[p] = NoRoom /\ InNoTable(p) /\ InNoJob(p)
    BY <1>2 DEF Custody, Unborn
  <2>3. \A t \in Threads : arg[t] # p
    BY <1>2 DEF Custody, Unborn
  <2>4. Admitting'
    BY <2>1 DEF Custody, Admitting
  <2>5. ASSUME NEW q \in Players PROVE (InTable(q) /\ Waiting(q))'
    BY <1>2, <2>1, <2>2 DEF Custody, InTable, Waiting, InNoTable
  <2>6. ASSUME NEW q \in Players PROVE OnTheWay(q)'
    BY <1>2, <2>1, <2>2 DEF Custody, OnTheWay, InNoJob, JobKinds, JobAt, InNoTable
  <2>7. ASSUME NEW q \in Players PROVE Leaving(q)'
    BY <1>2, <2>1, <2>2, <2>3 DEF Custody, Leaving, InNoJob, JobKinds, JobAt, Departed
  <2>8. ASSUME NEW q \in Players PROVE Unborn(q)'
    <3>1. CASE q = p
      BY <1>2, <2>1, <3>1 DEF Unborn
    <3>2. CASE q # p
      BY <1>2, <2>1, <3>2 DEF Custody, Unborn, InNoTable, InNoJob, JobAt
    <3> QED
      BY <3>1, <3>2
  <2> QED
    BY <2>4, <2>5, <2>6, <2>7, <2>8 DEF Custody
<1> QED
  BY <1>1, <1>2 DEF Enter

-----------------------------------------------------------------------------
(* The custody of players in the steps of a room *)

(* What a room step leaves alone.                                          *)
RoomOnly == UNCHANGED <<player, arg, pc>>

(* Jobs only disappear or move up.                                         *)
LEMMA PoppedJobs ==
  ASSUME RoomsTypeOK, NEW r \in Rooms, NEW kind \in JobKinds, RunHead(r, kind),
         roomJobs' = PopJob(r), NEW p \in Players
  PROVE  /\ InNoJob(p) => InNoJob(p)'
         /\ \A r2 \in Rooms : \A i \in Nat : JobAt(r2, i, "leave", p)' =>
              \E j \in Nat : JobAt(r2, j, "leave", p)
         /\ \A r2 \in Rooms : \A i \in Nat : JobAt(r2, i, "enter", p)' =>
              \E j \in Nat : JobAt(r2, j, "enter", p)
<1>1. \A r2 \in Rooms : \A i \in Nat : \A k :
        JobAt(r2, i, k, p)' => JobAt(r2, Shift(r, r2, i), k, p)
  BY PopAt
<1>2. \A r2 \in Rooms : \A i \in Nat : Shift(r, r2, i) \in Nat
  BY DEF Shift
<1> QED
  BY <1>1, <1>2 DEF InNoJob

(* A popped queue still has at most one entry job of a player.             *)
LEMMA PoppedOnTheWay ==
  ASSUME RoomsTypeOK, NEW r \in Rooms, NEW kind, RunHead(r, kind),
         roomJobs' = PopJob(r), NEW p \in Players, OnTheWay(p),
         mapLoad'[p] = mapLoad[p], saves'[p] = saves[p], InNoTable(p) => InNoTable(p)'
  PROVE  OnTheWay(p)'
<1>1. \A r2 \in Rooms : \A i \in Nat :
        JobAt(r2, i, "enter", p)' => JobAt(r2, Shift(r, r2, i), "enter", p)
  BY PopAt
<1>2. \A r2 \in Rooms : \A i \in Nat : Shift(r, r2, i) \in Nat
  BY DEF Shift
<1>3. ASSUME NEW r2 \in Rooms, NEW i \in Nat, JobAt(r2, i, "enter", p)'
      PROVE  /\ (mapLoad[p] = NoRoom /\ saves[p] = 0 /\ InNoTable(p))'
             /\ \A r3 \in Rooms : \A j \in Nat :
                  JobAt(r3, j, "enter", p)' => r3 = r2 /\ j = i
  <2>1. JobAt(r2, Shift(r, r2, i), "enter", p)
    BY <1>1, <1>3
  <2>2. (mapLoad[p] = NoRoom /\ saves[p] = 0 /\ InNoTable(p))'
    BY <1>2, <2>1 DEF OnTheWay
  <2>3. \A r3 \in Rooms : \A j \in Nat : JobAt(r3, j, "enter", p)' =>
          r3 = r2 /\ Shift(r, r3, j) = Shift(r, r2, i)
    BY <1>1, <1>2, <2>1 DEF OnTheWay
  <2> QED
    BY <2>2, <2>3 DEF Shift
<1> QED
  BY <1>3 DEF OnTheWay

(* A job that only leaves the queue.                                       *)
LEMMA StayCustody ==
  ASSUME Typed, Custody, NEW r \in Rooms, NEW kind \in JobKinds, RunHead(r, kind),
         roomJobs' = PopJob(r), RoomOnly,
         UNCHANGED <<presence, room, mapLoad, entities, entering, saves>>
  PROVE  Custody'
<1>1. RoomsTypeOK
  BY DEF Typed, TypeOK
<1>2. Admitting' /\ \A q \in Players : (InTable(q) /\ Waiting(q))'
  BY DEF Custody, Admitting, InTable, Waiting
<1>3. ASSUME NEW q \in Players PROVE OnTheWay(q)'
  BY <1>1, PoppedOnTheWay DEF Custody, InNoTable
<1>4. ASSUME NEW q \in Players PROVE Leaving(q)'
  BY <1>1, PoppedJobs DEF Custody, Leaving, RoomOnly, Departed
<1>5. ASSUME NEW q \in Players PROVE Unborn(q)'
  BY <1>1, PoppedJobs DEF Custody, Unborn, RoomOnly, InNoTable
<1> QED
  BY <1>2, <1>3, <1>4, <1>5 DEF Custody

(* A player in a table or waiting for a map has no entry job left behind.  *)
LEMMA SettledHasNoEntry ==
  ASSUME Custody, NEW p \in Players, ~InNoTable(p) \/ mapLoad[p] # NoRoom
  PROVE  \A r \in Rooms : \A i \in Nat : ~JobAt(r, i, "enter", p)
  BY DEF Custody, OnTheWay

(* The departure finds the player: it leaves the custody of the rooms.     *)
LEMMA DepartCustody ==
  ASSUME Typed, Custody, NEW r \in Rooms, LeaveRoomAndSave(r), RoomOnly,
         NEW p \in Players, p = HeadPlayer(r), HasSaveData(r, p)
  PROVE  Custody'
<1>1. RoomsTypeOK
  BY DEF Typed, TypeOK
<1>2. /\ RunHead(r, "leave") /\ roomJobs' = PopJob(r) /\ DepartFrom(r, p)
      /\ saves' = [saves EXCEPT ![p] = @ + 1]
      /\ UNCHANGED <<presence, room, entering>>
  BY DEF LeaveRoomAndSave, SaveLeftPlayer
<1>3. Departed(p)
  BY <1>1, <1>2, HeadAt DEF Custody, Leaving
<1>4. room[p] = r /\ saves[p] = 0 /\ (~InNoTable(p) \/ mapLoad[p] # NoRoom)
  BY <1>1, <1>3, WorldAssumption DEF HasSaveData, Custody, InTable, Waiting, InNoTable
<1>5. \A r2 \in Rooms : \A i \in Nat : ~JobAt(r2, i, "enter", p)
  BY <1>3, <1>4, SettledHasNoEntry
<1>6. mapLoad'[p] = NoRoom /\ InNoTable(p)'
  <2>1. \A r2 \in Rooms : p \in entities[r2] => r2 = r /\ mapLoad[p] = NoRoom
    BY <1>3, <1>4 DEF Custody, InTable
  <2>2. CASE mapLoad[p] = r
    <3>1. mapLoad' = [mapLoad EXCEPT ![p] = NoRoom] /\ UNCHANGED entities
      BY <1>2, <2>2 DEF DepartFrom
    <3>2. InNoTable(p)
      BY <2>1, <2>2, WorldAssumption DEF InNoTable
    <3> QED
      BY <1>1, <1>3, <3>1, <3>2 DEF InNoTable, RoomsTypeOK
  <2>3. CASE mapLoad[p] # r
    <3>1. entities' = [entities EXCEPT ![r] = @ \ {p}] /\ UNCHANGED mapLoad
      BY <1>2, <2>3 DEF DepartFrom
    <3>2. mapLoad[p] = NoRoom
      BY <2>1, <2>3 DEF HasSaveData
    <3> QED
      BY <1>1, <2>1, <3>1, <3>2 DEF InNoTable, RoomsTypeOK
  <2> QED
    BY <2>2, <2>3
<1>7. \A q \in Players \ {p} :
        /\ mapLoad'[q] = mapLoad[q] /\ saves'[q] = saves[q]
        /\ \A r2 \in Rooms : q \in entities'[r2] <=> q \in entities[r2]
  <2>1. CASE mapLoad[p] = r
    BY <1>1, <1>2, <2>1 DEF DepartFrom, RoomsTypeOK
  <2>2. CASE mapLoad[p] # r
    <3>1. entities' = [entities EXCEPT ![r] = @ \ {p}] /\ UNCHANGED mapLoad
      BY <1>2, <2>2 DEF DepartFrom
    <3>2. \A r2 \in Rooms :
            entities'[r2] = IF r2 = r THEN entities[r2] \ {p} ELSE entities[r2]
      BY <1>1, <3>1 DEF RoomsTypeOK
    <3>3. \A q \in Players \ {p} : saves'[q] = saves[q]
      BY <1>1, <1>2 DEF RoomsTypeOK
    <3> QED
      BY <3>1, <3>2, <3>3
  <2> QED
    BY <2>1, <2>2
<1>8. saves'[p] = 1
  BY <1>1, <1>2, <1>3, <1>4 DEF RoomsTypeOK
<1>9. Admitting'
  <2>1. entering[r] = NoPlayer
    BY <1>2 DEF RunHead
  <2>2. \A r2 \in Rooms \ {r} : entities'[r2] = entities[r2]
    BY <1>1, <1>2 DEF DepartFrom, RoomsTypeOK
  <2> QED
    BY <1>2, <2>1, <2>2 DEF Custody, Admitting
<1>10. ASSUME NEW q \in Players PROVE (InTable(q) /\ Waiting(q))'
  <2>1. CASE q = p
    BY <1>6, <2>1 DEF InTable, Waiting, InNoTable
  <2>2. CASE q # p
    BY <1>2, <1>7, <2>2 DEF Custody, InTable, Waiting
  <2> QED
    BY <2>1, <2>2
<1>11. ASSUME NEW q \in Players PROVE OnTheWay(q)'
  <2>1. CASE q = p
    BY <1>1, <1>2, <1>3, <1>5, <2>1, PoppedJobs DEF OnTheWay, JobKinds
  <2>2. CASE q # p
    BY <1>1, <1>2, <1>7, <2>2, PoppedOnTheWay DEF Custody, InNoTable
  <2> QED
    BY <2>1, <2>2
<1>12. ASSUME NEW q \in Players PROVE Leaving(q)'
  <2>1. \A r2 \in Rooms : \A i \in Nat : JobAt(r2, i, "leave", q)' => Departed(q)
    BY <1>1, <1>2, PoppedJobs DEF Custody, Leaving, JobKinds
  <2>2. Departed(q) <=> Departed(q)'
    BY <1>2 DEF Departed
  <2> QED
    BY <1>3, <1>7, <1>8, <2>1, <2>2 DEF Custody, Leaving, RoomOnly
<1>13. ASSUME NEW q \in Players PROVE Unborn(q)'
  <2>1. CASE q = p
    BY <1>2, <1>3, <2>1 DEF Unborn, Departed
  <2>2. CASE q # p
    BY <1>1, <1>2, <1>7, <2>2, PoppedJobs DEF Custody, Unborn, RoomOnly, InNoTable, JobKinds
  <2> QED
    BY <2>1, <2>2
<1> QED
  BY <1>9, <1>10, <1>11, <1>12, <1>13 DEF Custody

(* The departure follows the player to the room it points to.              *)
LEMMA FollowCustody ==
  ASSUME Typed, Custody, NEW r \in Rooms, LeaveRoomAndSave(r), RoomOnly,
         ~HasSaveData(r, HeadPlayer(r))
  PROVE  Custody'
<1> DEFINE p == HeadPlayer(r)
<1>1. RoomsTypeOK
  BY DEF Typed, TypeOK
<1>2. /\ RunHead(r, "leave")
      /\ UNCHANGED <<presence, room, mapLoad, entities, entering, saves>>
  BY DEF LeaveRoomAndSave
<1>3. p \in Players /\ Departed(p)
  BY <1>1, <1>2, RunHeadFacts, HeadAt DEF Custody, Leaving
<1>4. CASE room[p] \in {NoRoom, r}
  <2>1. roomJobs' = PopJob(r)
    BY <1>4 DEF LeaveRoomAndSave
  <2> QED
    BY <1>2, <2>1, StayCustody DEF JobKinds
<1>5. CASE room[p] \notin {NoRoom, r}
  <2>1. room[p] \in Rooms /\ roomJobs' = PushRoomJob(PopJob(r), room[p], "leave", p)
    BY <1>1, <1>3, <1>5 DEF LeaveRoomAndSave, RoomsTypeOK
  <2>2. \A r2 \in Rooms : \A i \in Nat : \A k, q : JobAt(r2, i, k, q)' =>
          JobAt(r2, Shift(r, r2, i), k, q) \/ (k = "leave" /\ q = p)
    BY <1>1, <1>2, <1>3, <2>1, PopPushAt
  <2>3. \A r2 \in Rooms : \A i \in Nat : Shift(r, r2, i) \in Nat
    BY DEF Shift
  <2>4. Admitting' /\ \A q \in Players : (InTable(q) /\ Waiting(q))'
    BY <1>2 DEF Custody, Admitting, InTable, Waiting
  <2>5. ASSUME NEW q \in Players PROVE OnTheWay(q)'
    <3>1. ASSUME NEW r2 \in Rooms, NEW i \in Nat, JobAt(r2, i, "enter", q)'
          PROVE  JobAt(r2, Shift(r, r2, i), "enter", q)
      BY <2>2, <3>1
    <3>2. \A r2, r3 \in Rooms : \A i, j \in Nat :
            Shift(r, r3, j) = Shift(r, r2, i) /\ r3 = r2 => j = i
      BY DEF Shift
    <3> QED
      BY <1>2, <2>3, <3>1, <3>2 DEF Custody, OnTheWay, InNoTable
  <2>6. ASSUME NEW q \in Players PROVE Leaving(q)'
    BY <1>2, <1>3, <2>2, <2>3 DEF Custody, Leaving, RoomOnly, Departed
  <2>7. ASSUME NEW q \in Players PROVE Unborn(q)'
    <3> SUFFICES ASSUME presence[q] = "NONE" PROVE Unborn(q)'
      BY <1>2 DEF Unborn
    <3>1. InNoJob(q) /\ q # p
      BY <1>3 DEF Custody, Unborn, Departed
    <3>2. InNoJob(q)'
      BY <2>2, <2>3, <3>1 DEF InNoJob
    <3> QED
      BY <1>2, <3>2 DEF Custody, Unborn, RoomOnly, InNoTable
  <2> QED
    BY <2>4, <2>5, <2>6, <2>7 DEF Custody
<1> QED
  BY <1>4, <1>5

(* An entry: the player that is admitted is in no table, unsaved, and its  *)
(* entry job was the only one.                                             *)
LEMMA AdmitCustody ==
  ASSUME Typed, Custody, NEW r \in Rooms, NEW kind \in JobKinds, RunHead(r, kind),
         roomJobs' = PopJob(r), RoomOnly, NEW p \in Players, p = HeadPlayer(r),
         UNCHANGED presence, AdmitTo(r, p), InNoTable(p), saves[p] = 0,
         mapLoad' = [mapLoad EXCEPT ![p] = NoRoom],
         \A r2 \in Rooms : \A i \in Nat : ~JobAt(r2, i, "enter", p)'
  PROVE  Custody'
<1>1. RoomsTypeOK
  BY DEF Typed, TypeOK
<1>2. JobAt(r, 1, kind, p) /\ presence[p] # "NONE" /\ entering[r] = NoPlayer
  BY <1>1, HeadAt DEF RunHead, Custody, Unborn, InNoJob
<1>3. p \notin entities[r]
  BY DEF InNoTable
<1>4. /\ entities' = [entities EXCEPT ![r] = @ \cup {p}]
      /\ room' = [room EXCEPT ![p] = r]
      /\ entering' = [entering EXCEPT ![r] = p]
      /\ UNCHANGED saves
  BY <1>3 DEF AdmitTo
<1>5. /\ entities \in [Rooms -> SUBSET Players]
      /\ room \in [Players -> Rooms \cup {NoRoom}]
      /\ entering \in [Rooms -> Players \cup {NoPlayer}]
      /\ mapLoad \in [Players -> Rooms \cup {NoRoom}]
  BY <1>1 DEF RoomsTypeOK
<1>6. \A q \in Players \ {p} : \A r2 \in Rooms : q \in entities'[r2] <=> q \in entities[r2]
  BY <1>4, <1>5
<1>7. \A r2 \in Rooms : p \in entities'[r2] <=> r2 = r
  BY <1>4, <1>5 DEF InNoTable
<1>8. Admitting'
  <2>1. \A r2 \in Rooms \ {r} : entering'[r2] = entering[r2] /\ entities'[r2] = entities[r2]
    BY <1>4, <1>5
  <2>2. entering'[r] = p
    BY <1>4, <1>5
  <2> QED
    BY <1>7, <2>1, <2>2 DEF Custody, Admitting
<1>9. ASSUME NEW q \in Players PROVE (InTable(q) /\ Waiting(q))'
  <2>1. CASE q = p
    BY <1>4, <1>5, <1>7, <2>1 DEF InTable, Waiting
  <2>2. CASE q # p
    BY <1>4, <1>5, <1>6, <2>2 DEF Custody, InTable, Waiting
  <2> QED
    BY <2>1, <2>2
<1>10. ASSUME NEW q \in Players PROVE OnTheWay(q)'
  <2>1. CASE q = p
    BY <2>1 DEF OnTheWay
  <2>2. CASE q # p
    BY <1>1, <1>4, <1>5, <1>6, <2>2, PoppedOnTheWay DEF Custody, InNoTable
  <2> QED
    BY <2>1, <2>2
<1>11. ASSUME NEW q \in Players PROVE Leaving(q)'
  BY <1>1, <1>4, PoppedJobs DEF Custody, Leaving, RoomOnly, Departed
<1>12. ASSUME NEW q \in Players PROVE Unborn(q)'
  <2>1. CASE q = p
    BY <1>2, <2>1 DEF Unborn
  <2>2. CASE q # p
    BY <1>1, <1>4, <1>5, <1>6, <2>2, PoppedJobs DEF Custody, Unborn, RoomOnly, InNoTable
  <2> QED
    BY <2>1, <2>2
<1> QED
  BY <1>8, <1>9, <1>10, <1>11, <1>12 DEF Custody

LEMMA EnterPlayerCustody ==
  ASSUME Typed, Custody, NEW r \in Rooms, EnterPlayer(r), RoomOnly
  PROVE  Custody'
<1>1. RoomsTypeOK
  BY DEF Typed, TypeOK
<1>2. RunHead(r, "enter") /\ roomJobs' = PopJob(r) /\ UNCHANGED <<presence, mapLoad>>
  BY DEF EnterPlayer
<1>3. PICK p \in Players : p = HeadPlayer(r)
  BY <1>1, <1>2, RunHeadFacts
<1>4. JobAt(r, 1, "enter", p)
  BY <1>1, <1>2, <1>3, HeadAt
<1>5. /\ mapLoad[p] = NoRoom /\ saves[p] = 0 /\ InNoTable(p)
      /\ \A r2 \in Rooms : \A j \in Nat : JobAt(r2, j, "enter", p) => r2 = r /\ j = 1
  BY <1>4 DEF Custody, OnTheWay
<1>6. \A r2 \in Rooms : \A i \in Nat : ~JobAt(r2, i, "enter", p)'
  <2>1. \A r2 \in Rooms : \A i \in Nat :
          JobAt(r2, i, "enter", p)' => JobAt(r2, Shift(r, r2, i), "enter", p) /\ i # 0
    BY <1>1, <1>2, PopAt DEF JobAt
  <2> QED
    BY <1>5, <2>1 DEF Shift
<1>7. mapLoad' = [mapLoad EXCEPT ![p] = NoRoom]
  BY <1>1, <1>2, <1>5 DEF RoomsTypeOK
<1> QED
  BY <1>2, <1>3, <1>5, <1>6, <1>7, AdmitCustody DEF EnterPlayer, JobKinds

LEMMA MapLoadCustody ==
  ASSUME Typed, Custody, NEW r \in Rooms, MapLoadComplete(r), RoomOnly
  PROVE  Custody'
<1>1. RoomsTypeOK
  BY DEF Typed, TypeOK
<1>2. RunHead(r, "mapLoaded") /\ roomJobs' = PopJob(r) /\ UNCHANGED presence
  BY DEF MapLoadComplete
<1>3. PICK p \in Players : p = HeadPlayer(r)
  BY <1>1, <1>2, RunHeadFacts
<1>4. CASE room[p] = r /\ mapLoad[p] = r
  <2>1. mapLoad' = [mapLoad EXCEPT ![p] = NoRoom] /\ AdmitTo(r, p)
    BY <1>3, <1>4 DEF MapLoadComplete
  <2>2. mapLoad[p] # NoRoom
    BY <1>4, WorldAssumption
  <2>3. InNoTable(p) /\ saves[p] = 0
    BY <2>2 DEF Custody, InTable, Waiting, InNoTable
  <2>4. \A r2 \in Rooms : \A i \in Nat : ~JobAt(r2, i, "enter", p)
    BY <2>2, SettledHasNoEntry
  <2>5. \A r2 \in Rooms : \A i \in Nat : ~JobAt(r2, i, "enter", p)'
    BY <1>1, <1>2, <2>4, PoppedJobs DEF JobKinds
  <2> QED
    BY <1>2, <1>3, <2>1, <2>3, <2>5, AdmitCustody DEF JobKinds
<1>5. CASE ~(room[p] = r /\ mapLoad[p] = r)
  BY <1>2, <1>3, <1>5, StayCustody DEF MapLoadComplete, JobKinds
<1> QED
  BY <1>4, <1>5

(* The end of an entry: the mark decides whether the player stays.         *)
LEMMA MarkEnteredCustody ==
  ASSUME Typed, Custody, NEW r \in Rooms, MarkEnteredRoom(r), RoomOnly,
         NEW p \in Players, p = entering[r]
  PROVE  Custody'
<1>1. /\ presence \in [Players -> Presences]
      /\ entities \in [Rooms -> SUBSET Players]
      /\ entering \in [Rooms -> Players \cup {NoPlayer}]
      /\ saves \in [Players -> Nat]
  BY DEF Typed, TypeOK, RoomsTypeOK
<1>2. /\ UNCHANGED <<room, mapLoad, roomJobs>>
      /\ entering' = [entering EXCEPT ![r] = NoPlayer]
  BY DEF MarkEnteredRoom
<1>3. p \in entities[r] /\ presence[p] # "NONE"
  BY DEF MarkEnteredRoom, Custody, Admitting, Unborn, InNoTable
<1>4. saves[p] = 0 /\ mapLoad[p] = NoRoom /\ room[p] = r
  BY <1>3 DEF Custody, InTable
<1>5. \/ /\ presence' = [presence EXCEPT ![p] = "IN_ROOM"] /\ presence[p] = "LOADED"
         /\ UNCHANGED <<entities, saves>>
      \/ /\ UNCHANGED <<presence, saves>>
         /\ \/ UNCHANGED entities
            \/ entities' = [entities EXCEPT ![r] = @ \ {p}]
      \/ /\ UNCHANGED presence /\ presence[p] = "LEFT_IN_ROOM"
         /\ saves' = [saves EXCEPT ![p] = @ + 1]
         /\ entities' = [entities EXCEPT ![r] = @ \ {p}]
  BY DEF MarkEnteredRoom, SaveLeftPlayer
<1>6. \A q \in Players, r2 \in Rooms : q \in entities'[r2] => q \in entities[r2]
  BY <1>1, <1>5
<1>7. \A q \in Players \ {p} : \A r2 \in Rooms :
        (q \in entities'[r2] <=> q \in entities[r2]) /\ saves'[q] = saves[q]
  BY <1>1, <1>5
<1>8. saves'[p] = 0 \/ (saves'[p] = 1 /\ presence'[p] = "LEFT_IN_ROOM" /\ p \notin entities'[r])
  BY <1>1, <1>4, <1>5
<1>9. \A r2 \in Rooms : \A i \in Nat : ~JobAt(r2, i, "enter", p)
  BY <1>3, SettledHasNoEntry DEF InNoTable
<1>10. Admitting'
  <2>1. \A r2 \in Rooms \ {r} : entering'[r2] = entering[r2] /\ entities'[r2] = entities[r2]
    BY <1>1, <1>2, <1>5
  <2>2. entering'[r] = NoPlayer
    BY <1>1, <1>2
  <2> QED
    BY <2>1, <2>2 DEF Custody, Admitting
<1>11. ASSUME NEW q \in Players PROVE (InTable(q) /\ Waiting(q))'
  <2>1. CASE q = p
    <3>1. \A r2 \in Rooms : p \in entities'[r2] => r2 = r
      BY <1>4, <1>6 DEF Custody, InTable
    <3> QED
      BY <1>2, <1>4, <1>8, <2>1, <3>1 DEF InTable, Waiting
  <2>2. CASE q # p
    BY <1>2, <1>7, <2>2 DEF Custody, InTable, Waiting
  <2> QED
    BY <2>1, <2>2
<1>12. ASSUME NEW q \in Players PROVE OnTheWay(q)'
  <2>1. CASE q = p
    BY <1>2, <1>9, <2>1 DEF OnTheWay, JobAt
  <2>2. CASE q # p
    BY <1>2, <1>7, <2>2 DEF Custody, OnTheWay, JobAt, InNoTable
  <2> QED
    BY <2>1, <2>2
<1>13. \A q \in Players : Departed(q) => Departed(q)'
  BY <1>1, <1>5 DEF Departed
<1>14. ASSUME NEW q \in Players PROVE Leaving(q)'
  <2>1. saves'[q] \in {0, 1} /\ (saves'[q] = 1 => Departed(q)')
    <3>1. CASE q = p
      BY <1>8, <3>1 DEF Departed
    <3>2. CASE q # p
      BY <1>7, <1>13, <3>2 DEF Custody, Leaving
    <3> QED
      BY <3>1, <3>2
  <2> QED
    BY <1>2, <1>13, <2>1 DEF Custody, Leaving, RoomOnly, JobAt
<1>15. ASSUME NEW q \in Players PROVE Unborn(q)'
  <2>1. CASE q = p
    BY <1>1, <1>3, <1>5, <2>1 DEF Unborn
  <2>2. CASE q # p
    <3>1. presence'[q] = presence[q]
      BY <1>1, <1>5, <2>2
    <3> QED
      <4>1. InNoJob(q)' <=> InNoJob(q)
        BY <1>2 DEF InNoJob, JobAt
      <4>2. InNoTable(q)' <=> InNoTable(q)
        BY <1>7, <2>2 DEF InNoTable
      <4> QED
        BY <1>2, <1>7, <2>2, <3>1, <4>1, <4>2 DEF Custody, Unborn, RoomOnly
  <2> QED
    BY <2>1, <2>2
<1> QED
  BY <1>10, <1>11, <1>12, <1>14, <1>15 DEF Custody

(* A move: the player is taken out of this room's table, and either waits  *)
(* for the other map or has the one entry job that was just pushed.        *)
LEMMA MoveCustody ==
  ASSUME Typed, Custody, NEW r \in Rooms, NEW kind \in JobKinds, RunHead(r, kind),
         NEW p \in Players, p = HeadPlayer(r), p \in entities[r], NEW dest \in Rooms,
         MovePlayer(r, p, dest), RoomOnly
  PROVE  Custody'
<1>1. RoomsTypeOK
  BY DEF Typed, TypeOK
<1>2. /\ entities' = [entities EXCEPT ![r] = @ \ {p}]
      /\ UNCHANGED <<presence, entering, saves>>
  BY DEF MovePlayer
<1>3. /\ entities \in [Rooms -> SUBSET Players]
      /\ room \in [Players -> Rooms \cup {NoRoom}]
      /\ mapLoad \in [Players -> Rooms \cup {NoRoom}]
  BY <1>1 DEF RoomsTypeOK
<1>4. /\ saves[p] = 0 /\ mapLoad[p] = NoRoom /\ room[p] = r /\ presence[p] # "NONE"
      /\ \A r2 \in Rooms : p \in entities[r2] => r2 = r
  BY DEF Custody, InTable, Unborn, InNoTable
<1>5. \A r2 \in Rooms : \A i \in Nat : ~JobAt(r2, i, "enter", p)
  BY SettledHasNoEntry DEF InNoTable
<1>6. \A r2 \in Rooms : p \notin entities'[r2]
  BY <1>2, <1>3, <1>4
<1>7. \A q \in Players \ {p} : \A r2 \in Rooms : q \in entities'[r2] <=> q \in entities[r2]
  BY <1>2, <1>3
<1>8. Admitting'
  <2>1. entering[r] = NoPlayer
    BY DEF RunHead
  <2>2. \A r2 \in Rooms \ {r} : entities'[r2] = entities[r2]
    BY <1>2, <1>3
  <2> QED
    BY <1>2, <2>1, <2>2 DEF Custody, Admitting
<1>9. CASE MapOf[dest] # MapOf[r]
  <2>1. /\ room' = [room EXCEPT ![p] = dest]
        /\ mapLoad' = [mapLoad EXCEPT ![p] = dest]
        /\ roomJobs' = PopJob(r)
    BY <1>9 DEF MovePlayer
  <2>2. ASSUME NEW q \in Players PROVE (InTable(q) /\ Waiting(q))'
    <3>1. CASE q = p
      BY <1>2, <1>3, <1>4, <1>6, <2>1, <3>1 DEF InTable, Waiting
    <3>2. CASE q # p
      BY <1>2, <1>3, <1>7, <2>1, <3>2 DEF Custody, InTable, Waiting
    <3> QED
      BY <3>1, <3>2
  <2>3. ASSUME NEW q \in Players PROVE OnTheWay(q)'
    <3>1. CASE q = p
      BY <1>1, <1>5, <2>1, <3>1, PoppedJobs DEF OnTheWay
    <3>2. CASE q # p
      BY <1>1, <1>2, <1>3, <1>7, <2>1, <3>2, PoppedOnTheWay DEF Custody, InNoTable
    <3> QED
      BY <3>1, <3>2
  <2>4. ASSUME NEW q \in Players PROVE Leaving(q)'
    BY <1>1, <1>2, <2>1, PoppedJobs DEF Custody, Leaving, RoomOnly, Departed
  <2>5. ASSUME NEW q \in Players PROVE Unborn(q)'
    <3>1. CASE q = p
      BY <1>2, <1>4, <3>1 DEF Unborn
    <3>2. CASE q # p
      BY <1>1, <1>2, <1>3, <1>7, <2>1, <3>2, PoppedJobs
      DEF Custody, Unborn, RoomOnly, InNoTable
    <3> QED
      BY <3>1, <3>2
  <2> QED
    BY <1>8, <2>2, <2>3, <2>4, <2>5 DEF Custody
<1>10. CASE MapOf[dest] = MapOf[r]
  <2>1. /\ roomJobs' = PushRoomJob(PopJob(r), dest, "enter", p)
        /\ UNCHANGED <<room, mapLoad>>
    BY <1>10 DEF MovePlayer
  <2>2. \A r2 \in Rooms : \A i \in Nat : \A k, q : JobAt(r2, i, k, q)' =>
          \/ JobAt(r2, Shift(r, r2, i), k, q)
          \/ r2 = dest /\ i = Len(PopJob(r)[dest]) + 1 /\ k = "enter" /\ q = p
    BY <1>1, <2>1, PopPushAt
  <2>3. \A r2 \in Rooms : \A i \in Nat : Shift(r, r2, i) \in Nat
    BY DEF Shift
  <2>4. ASSUME NEW q \in Players PROVE (InTable(q) /\ Waiting(q))'
    <3>1. CASE q = p
      BY <1>4, <1>6, <2>1, <3>1 DEF InTable, Waiting
    <3>2. CASE q # p
      BY <1>2, <1>7, <2>1, <3>2 DEF Custody, InTable, Waiting
    <3> QED
      BY <3>1, <3>2
  <2>5. ASSUME NEW q \in Players PROVE OnTheWay(q)'
    <3>1. CASE q = p
      <4>1. \A r2 \in Rooms : \A i \in Nat : JobAt(r2, i, "enter", p)' =>
              r2 = dest /\ i = Len(PopJob(r)[dest]) + 1
        BY <1>5, <2>2, <2>3
      <4> QED
        BY <1>2, <1>4, <1>6, <2>1, <3>1, <4>1 DEF OnTheWay, InNoTable
    <3>2. CASE q # p
      <4>1. ASSUME NEW r2 \in Rooms, NEW i \in Nat, JobAt(r2, i, "enter", q)'
            PROVE  JobAt(r2, Shift(r, r2, i), "enter", q)
        BY <2>2, <3>2, <4>1
      <4>2. \A r2, r3 \in Rooms : \A i, j \in Nat :
              Shift(r, r3, j) = Shift(r, r2, i) /\ r3 = r2 => j = i
        BY DEF Shift
      <4>3. InNoTable(q) => InNoTable(q)'
        BY <1>7, <3>2 DEF InNoTable
      <4>4. ASSUME NEW r2 \in Rooms, NEW i \in Nat, JobAt(r2, i, "enter", q)'
            PROVE  /\ (mapLoad[q] = NoRoom /\ saves[q] = 0 /\ InNoTable(q))'
                   /\ \A r3 \in Rooms : \A j \in Nat :
                        JobAt(r3, j, "enter", q)' => r3 = r2 /\ j = i
        BY <1>2, <2>1, <2>3, <4>1, <4>2, <4>3, <4>4 DEF Custody, OnTheWay
      <4> QED
        BY <4>4 DEF OnTheWay
    <3> QED
      BY <3>1, <3>2
  <2>6. ASSUME NEW q \in Players PROVE Leaving(q)'
    BY <1>2, <2>2, <2>3 DEF Custody, Leaving, RoomOnly, Departed
  <2>7. ASSUME NEW q \in Players PROVE Unborn(q)'
    <3> SUFFICES ASSUME presence[q] = "NONE" PROVE Unborn(q)'
      BY <1>2 DEF Unborn
    <3>1. InNoJob(q) /\ q # p
      BY <1>4 DEF Custody, Unborn
    <3>2. InNoJob(q)'
      BY <2>2, <2>3, <3>1 DEF InNoJob
    <3> QED
      BY <1>2, <1>7, <2>1, <3>1, <3>2 DEF Custody, Unborn, RoomOnly, InNoTable
  <2> QED
    BY <1>8, <2>4, <2>5, <2>6, <2>7 DEF Custody
<1> QED
  BY <1>9, <1>10

LEMMA RoomCustody ==
  ASSUME Typed, Custody, NEW r \in Rooms, RunRoom(r)
  PROVE  Custody'
<1>1. RoomStep(r) /\ RoomOnly /\ RoomsTypeOK
  BY DEF RunRoom, RoomOnly, Typed, TypeOK
<1>2. CASE LeaveRoomAndSave(r)
  <2>1. PICK p \in Players : p = HeadPlayer(r)
    BY <1>1, <1>2, RunHeadFacts DEF LeaveRoomAndSave
  <2> QED
    BY <1>1, <1>2, <2>1, DepartCustody, FollowCustody
<1>3. CASE EnterPlayer(r) \/ MapLoadComplete(r)
  BY <1>1, <1>3, EnterPlayerCustody, MapLoadCustody
<1>4. CASE MarkEnteredRoom(r)
  <2>1. PICK p \in Players : p = entering[r]
    BY <1>1, <1>4 DEF MarkEnteredRoom, RoomsTypeOK
  <2> QED
    BY <1>1, <1>4, <2>1, MarkEnteredCustody
<1>5. CASE ChangeChannel(r) \/ UsePortal(r)
  <2>1. PICK kind \in JobKinds : RunHead(r, kind)
    BY <1>5 DEF ChangeChannel, UsePortal, JobKinds
  <2>2. PICK p \in Players : p = HeadPlayer(r)
    BY <1>1, <2>1, RunHeadFacts
  <2>3. CASE StayInRoom(r)
    BY <1>1, <2>1, <2>3, StayCustody DEF StayInRoom
  <2>4. CASE ~StayInRoom(r)
    <3>1. p \in entities[r] /\ \E dest \in Rooms : MovePlayer(r, p, dest)
      BY <1>5, <2>2, <2>4 DEF ChangeChannel, UsePortal
    <3> QED
      BY <1>1, <2>1, <2>2, <3>1, MoveCustody
  <2> QED
    BY <2>3, <2>4
<1> QED
  BY <1>1, <1>2, <1>3, <1>4, <1>5 DEF RoomStep

LEMMA ThreadCustody ==
  ASSUME Typed, Custody, NEW t \in Threads, ThreadStep(t)
  PROVE  Custody'
  BY QuietThread, QuietCustody, MarkCustody, PushLeaveCustody DEF ThreadStep

LEMMA DbCustody ==
  ASSUME Typed, Custody, NEW u \in Users, DbStep(u)
  PROVE  Custody'
  BY QuietDb, QuietCustody, EnterCustody, SavedCustody DEF DbStep

LEMMA HandleCustody ==
  ASSUME Typed, Custody, NEW s \in Sessions, Handle(s)
  PROVE  Custody'
  BY QuietHandle, QuietCustody, InGameCustody DEF Handle

LEMMA NextCustody == Typed /\ Custody /\ [Next]_vars => Custody'
<1> SUFFICES ASSUME Typed, Custody, [Next]_vars PROVE Custody'
  OBVIOUS
<1>1. ASSUME NEW s \in Sessions, Handle(s) \/ Disconnect(s) PROVE Custody'
  BY <1>1, HandleCustody, QuietSession, QuietCustody
<1>2. CASE ServerStep
  <2>1. ASSUME NEW s \in Sessions, BindStep(s) \/ DiscStep(s) \/ ParkReturn(s)
        PROVE  Custody'
    BY <2>1, QuietBind, QuietSession, QuietCustody
  <2>2. ASSUME NEW timer \in timers, ExpireTimer(timer) PROVE Custody'
    BY <2>2, QuietTimer, QuietCustody
  <2> QED
    BY <1>2, <2>1, <2>2, ThreadCustody, DbCustody, RoomCustody DEF ServerStep
<1>3. CASE UNCHANGED vars
  <2>1. Quiet
    BY <1>3 DEF Quiet, custodyVars
  <2> QED
    BY <2>1, QuietCustody
<1> QED
  BY <1>1, <1>2, <1>3 DEF Next

LEMMA CustodyHolds == Spec => [](Typed /\ Custody)
<1>1. Typed /\ Custody /\ [Next]_vars => (Typed /\ Custody)'
  BY NextTyped, NextCustody
<1> QED
  BY InitTyped, InitCustody, <1>1, PTL DEF Spec

LEMMA QueuedAt ==
  ASSUME RoomsTypeOK, NEW r \in Rooms, NEW p, EnterQueued(r, p)
  PROVE  \E i \in Nat : JobAt(r, i, "enter", p)
<1>1. PICK i \in 1 .. Len(roomJobs[r]) : roomJobs[r][i] = [kind |-> "enter", player |-> p]
  BY DEF EnterQueued
<1>2. i \in Nat /\ roomJobs[r][i].kind = "enter" /\ roomJobs[r][i].player = p
  BY <1>1 DEF RoomsTypeOK
<1> QED
  BY <1>2 DEF JobAt

(* A player object is saved at most once, and only after it has left: no   *)
(* interleaving of a return, a disconnection, a channel or map change and  *)
(* the entry that takes over a departure saves it twice or while it plays. *)
THEOREM SavedOnce == Spec => []SavedOnceAfterLeaving
<1>1. Custody => SavedOnceAfterLeaving
  BY DEF Custody, Leaving, Departed, SavedOnceAfterLeaving
<1> QED
  BY <1>1, CustodyHolds, PTL

(* A player has one custodian at a time: a room's table, a room it waits   *)
(* for, or one queued entry.  AdmitTo's refusal of a player that is in the *)
(* table already (Room::EnterPlayer, AddEntity) therefore never happens.   *)
THEOREM SingleCustodian == Spec => []OneCustodian
<1>1. Typed /\ Custody => OneCustodian
  <2> SUFFICES ASSUME Typed, Custody, NEW p \in Players, NEW r \in Rooms
               PROVE  /\ p \in entities[r] => room[p] = r /\ mapLoad[p] = NoRoom
                      /\ p \in entities[r] \/ mapLoad[p] # NoRoom =>
                           \A r2 \in Rooms : ~EnterQueued(r2, p)
                      /\ mapLoad[p] # NoRoom => room[p] = mapLoad[p]
    BY DEF OneCustodian
  <2>1. \A r2 \in Rooms : EnterQueued(r2, p) => \E i \in Nat : JobAt(r2, i, "enter", p)
    BY QueuedAt DEF Typed, TypeOK
  <2> QED
    BY <2>1, SettledHasNoEntry DEF Custody, InTable, Waiting, InNoTable
<1> QED
  BY <1>1, CustodyHolds, PTL

(* After the save data of a player was copied, no room holds the player or *)
(* will admit it, so nothing it does in a room is lost.                    *)
THEOREM SavedMeansGone == Spec => []NothingAfterSave
<1>1. Typed /\ Custody => NothingAfterSave
  <2> SUFFICES ASSUME Typed, Custody, NEW p \in Players, saves[p] > 0
               PROVE  /\ mapLoad[p] = NoRoom
                      /\ \A r \in Rooms : p \notin entities[r] /\ ~EnterQueued(r, p)
    BY DEF NothingAfterSave
  <2>1. \A r2 \in Rooms : EnterQueued(r2, p) => \E i \in Nat : JobAt(r2, i, "enter", p)
    BY QueuedAt DEF Typed, TypeOK
  <2> QED
    BY <2>1 DEF Custody, InTable, Waiting, OnTheWay
<1> QED
  BY <1>1, CustodyHolds, PTL

-----------------------------------------------------------------------------
(* Registration of sessions.  A session past RegisterUser is the one the   *)
(* manager names until another replaces it, and the one that replaces it   *)
(* remembers it until it has told it to go.                                *)

Replacing == {"replace", "hold", "check", "release", "kick"}

Early == {"BEFORE_LOBBY", "CONNECTING_LOBBY"}

Bound(s) == pc[<<"bind", s>>] \in Replacing \cup {"verify"} \/ phase[s] \notin Early

Supported(s) ==
  registered[UserOf[s]] = s \/ kicked[s] \/ \E s2 \in Sessions : replaced[s2] = s

(* What is known of a session's threads.                                   *)
Registering(s) ==
  /\ pc[<<"disc", s>>] # "idle" => ~conn[s]
  /\ phase[s] = "BEFORE_LOBBY" => pc[<<"bind", s>>] = "idle"
  /\ pc[<<"bind", s>>] \notin Replacing => replaced[s] = NoSession
  /\ registered[UserOf[s]] = s =>
       pc[<<"bind", s>>] # "register" /\ phase[s] # "BEFORE_LOBBY"
  /\ conn[s] /\ Bound(s) => Supported(s)

Registration ==
  /\ \A s \in Sessions : Registering(s)
  /\ \A u \in Users : registered[u] # NoSession => UserOf[registered[u]] = u
  /\ RegistrationEnds

LEMMA InitRegistration == Init => Registration
  BY WorldAssumption
  DEF Init, Registration, Registering, Bound, Early, Replacing, RegistrationEnds, Threads

(* A step that binds and unbinds nobody.                                   *)
QuietReg ==
  /\ UNCHANGED <<conn, registered, replaced>>
  /\ \A s \in Sessions :
       /\ kicked[s] => kicked'[s]
       /\ phase'[s] = phase[s] \/ (phase[s] \notin Early /\ phase'[s] \notin Early)
       /\ \/ pc'[<<"bind", s>>] = pc[<<"bind", s>>]
          \/ pc[<<"bind", s>>] \in Replacing /\ pc'[<<"bind", s>>] \in Replacing
       /\ pc'[<<"disc", s>>] = "idle" <=> pc[<<"disc", s>>] = "idle"

LEMMA QuietRegistration ==
  ASSUME Typed, Registration, QuietReg
  PROVE  Registration'
<1>1. \A s \in Sessions : Bound(s)' => Bound(s)
  BY DEF QuietReg, Bound, Replacing
<1>2. \A s \in Sessions : Supported(s) => Supported(s)'
  BY DEF QuietReg, Supported
<1>3. ASSUME NEW s \in Sessions PROVE Registering(s)'
  BY <1>1, <1>2 DEF Registration, Registering, QuietReg, Early, Replacing
<1>4. RegistrationEnds'
  BY DEF Registration, RegistrationEnds, QuietReg, Replacing, Typed, TypeOK
<1> QED
  BY <1>3, <1>4 DEF Registration, QuietReg

LEMMA QuietRegThread ==
  ASSUME Typed, NEW t \in Threads, ThreadStep(t)
  PROVE  QuietReg
<1>1. UNCHANGED <<conn, registered, replaced, kicked, phase>>
  BY DEF ThreadStep, TakeHold, MarkDisconnected, PushLeave, DropHold
<1>2. PICK label : /\ pc' = [pc EXCEPT ![t] = label]
                   /\ pc[t] \in {"hold", "mark", "leave", "release"}
                   /\ label \in Labels \ {"idle"}
                   /\ t[1] = "bind" => pc[t] \in Replacing /\ label \in Replacing
  <2>1. t[1] = "bind" => pc[t] \notin {"mark", "leave"}
    BY DEF Typed, ThreadsOK, Threads
  <2>2. CASE TakeHold(t)
    BY <2>2 DEF TakeHold, Goto, Labels, Replacing
  <2>3. CASE MarkDisconnected(t)
    BY <2>1, <2>3 DEF MarkDisconnected, Goto, Labels
  <2>4. CASE PushLeave(t)
    BY <2>1, <2>4 DEF PushLeave, Goto, Labels, AfterLeaving
  <2>5. CASE DropHold(t)
    BY <2>5 DEF DropHold, Goto, Labels, Replacing, AfterLeaving
  <2> QED
    BY <2>2, <2>3, <2>4, <2>5 DEF ThreadStep
<1>3. pc \in [Threads -> Labels]
  BY DEF Typed, TypeOK
<1> QED
  BY <1>1, <1>2, <1>3 DEF QuietReg, Threads

LEMMA QuietRegSession ==
  ASSUME Typed, NEW s \in Sessions,
         \/ HandleEnterGame(s) \/ HandleReturnToLobby(s)
         \/ \E packet \in Packets : HandleInGame(s, packet)
         \/ ReadReplaced(s) \/ CheckPresence(s) \/ ReadPlayer(s) \/ ParkReturn(s)
  PROVE  QuietReg
<1> USE DEF Typed, TypeOK, QuietReg, Threads, Goto
<1>1. CASE HandleEnterGame(s)
  BY <1>1 DEF HandleEnterGame, Receive, TryChangePhase, Early
<1>2. CASE HandleReturnToLobby(s)
  BY <1>2 DEF HandleReturnToLobby, ReceiveInGame, Receive, TryChangePhase, Early
<1>3. CASE \E packet \in Packets : HandleInGame(s, packet)
  BY <1>3 DEF HandleInGame
<1>4. CASE ReadReplaced(s)
  BY <1>4 DEF ReadReplaced, Replacing
<1>5. CASE CheckPresence(s)
  BY <1>5 DEF CheckPresence, Replacing
<1>6. CASE ReadPlayer(s)
  BY <1>6 DEF ReadPlayer
<1>7. CASE ParkReturn(s)
  BY <1>7 DEF ParkReturn
<1> QED
  BY <1>1, <1>2, <1>3, <1>4, <1>5, <1>6, <1>7

LEMMA QuietRegServer ==
  ASSUME Typed,
         \/ \E u \in Users : DbStep(u)
         \/ \E r \in Rooms : RunRoom(r)
         \/ \E timer \in timers : ExpireTimer(timer)
         \/ UNCHANGED vars
  PROVE  QuietReg
<1> USE DEF Typed, TypeOK, QuietReg
<1>1. ASSUME NEW s, NEW from \in Phases \ Early, NEW to \in Phases \ Early,
             TryChangePhase(s, from, to)
      PROVE  \A s2 \in Sessions :
               phase'[s2] = phase[s2] \/ (phase[s2] \notin Early /\ phase'[s2] \notin Early)
  BY <1>1 DEF TryChangePhase
<1>2. {"LOBBY", "ENTERING_GAME", "IN_GAME", "RETURNING_TO_LOBBY"} \subseteq Phases \ Early
  BY DEF Phases, Early
<1>3. ASSUME NEW s, CancelGameEntry(s)
      PROVE  \A s2 \in Sessions :
               phase'[s2] = phase[s2] \/ (phase[s2] \notin Early /\ phase'[s2] \notin Early)
  BY <1>1, <1>2, <1>3 DEF CancelGameEntry
<1>4. ASSUME NEW u \in Users, DbStep(u) PROVE QuietReg
  <2>1. CASE SelectCharacter(u)
    BY <1>3, <2>1 DEF SelectCharacter
  <2>2. CASE CheckConnected(u) \/ MarkSaved(u) \/ ReleaseSaved(u)
    BY <2>2 DEF CheckConnected, MarkSaved, ReleaseSaved
  <2>3. CASE Enter(u)
    BY <1>1, <1>2, <1>3, <2>3 DEF Enter
  <2>4. CASE AcceptReturn(u)
    BY <1>1, <1>2, <2>4 DEF AcceptReturn
  <2> QED
    BY <1>4, <2>1, <2>2, <2>3, <2>4 DEF DbStep
<1>5. ASSUME NEW r \in Rooms, RunRoom(r) PROVE QuietReg
  BY <1>5 DEF RunRoom
<1>6. ASSUME NEW timer \in timers, ExpireTimer(timer) PROVE QuietReg
  BY <1>3, <1>6 DEF ExpireTimer
<1>7. CASE UNCHANGED vars
  BY <1>7
<1> QED
  BY <1>4, <1>5, <1>6, <1>7

LEMMA ConnectRegistration ==
  ASSUME Typed, Registration, NEW s \in Sessions, HandleConnectLobby(s)
  PROVE  Registration'
<1>1. /\ phase[s] = "BEFORE_LOBBY" /\ phase' = [phase EXCEPT ![s] = "CONNECTING_LOBBY"]
      /\ pc[<<"bind", s>>] = "idle" /\ pc' = [pc EXCEPT ![<<"bind", s>>] = "register"]
      /\ registered[UserOf[s]] # s
      /\ UNCHANGED <<conn, kicked, registered, replaced>>
  BY DEF HandleConnectLobby, Receive, TryChangePhase, Goto, Registration, Registering
<1>2. /\ pc \in [Threads -> Labels] /\ phase \in [Sessions -> Phases]
      /\ \A s2 \in Sessions : <<"bind", s2>> \in Threads /\ <<"disc", s2>> \in Threads
  BY DEF Typed, TypeOK, Threads
<1>3. \A s2 \in Sessions : pc'[<<"disc", s2>>] = pc[<<"disc", s2>>]
  BY <1>1, <1>2
<1>4. \A s2 \in Sessions \ {s} :
        pc'[<<"bind", s2>>] = pc[<<"bind", s2>>] /\ phase'[s2] = phase[s2]
  BY <1>1, <1>2
<1>5. pc'[<<"bind", s>>] = "register" /\ phase'[s] = "CONNECTING_LOBBY"
  BY <1>1, <1>2
<1>6. ASSUME NEW s2 \in Sessions PROVE Registering(s2)'
  <2>1. CASE s2 = s
    BY <1>1, <1>3, <1>5, <2>1 DEF Registration, Registering, Bound, Early, Replacing
  <2>2. CASE s2 # s
    BY <1>1, <1>3, <1>4, <2>2 DEF Registration, Registering, Bound, Supported
  <2> QED
    BY <2>1, <2>2
<1>7. RegistrationEnds'
  <2>1. \A u \in Users : registered[u] \in Sessions \cup {NoSession}
    BY DEF Typed, TypeOK
  <2> QED
    BY <1>1, <1>3, <1>4, <1>5, <2>1 DEF Registration, RegistrationEnds
<1> QED
  BY <1>1, <1>6, <1>7 DEF Registration

LEMMA RejectRegistration ==
  ASSUME Typed, Registration, NEW s \in Sessions, RejectLobbyConnect(s)
  PROVE  Registration'
<1>1. /\ kicked' = [kicked EXCEPT ![s] = TRUE]
      /\ pc[<<"bind", s>>] = "register" /\ pc' = [pc EXCEPT ![<<"bind", s>>] = "idle"]
      /\ registered[UserOf[s]] # s
      /\ UNCHANGED <<conn, phase, registered, replaced>>
  BY DEF RejectLobbyConnect, Goto, Registration, Registering
<1>2. /\ pc \in [Threads -> Labels] /\ kicked \in [Sessions -> BOOLEAN]
      /\ \A s2 \in Sessions : <<"bind", s2>> \in Threads /\ <<"disc", s2>> \in Threads
      /\ \A u \in Users : registered[u] \in Sessions \cup {NoSession}
  BY DEF Typed, TypeOK, Threads
<1>3. /\ \A s2 \in Sessions : pc'[<<"disc", s2>>] = pc[<<"disc", s2>>]
      /\ \A s2 \in Sessions \ {s} : pc'[<<"bind", s2>>] = pc[<<"bind", s2>>]
      /\ pc'[<<"bind", s>>] = "idle"
      /\ \A s2 \in Sessions : kicked[s2] => kicked'[s2]
  BY <1>1, <1>2
<1>4. ASSUME NEW s2 \in Sessions PROVE Registering(s2)'
  <2>1. Supported(s2) => Supported(s2)'
    BY <1>1, <1>3 DEF Supported
  <2>2. Bound(s2)' => Bound(s2)
    BY <1>1, <1>3 DEF Bound, Replacing
  <2> QED
    BY <1>1, <1>3, <2>1, <2>2 DEF Registration, Registering, Replacing
<1>5. RegistrationEnds'
  BY <1>1, <1>2, <1>3 DEF Registration, RegistrationEnds
<1> QED
  BY <1>1, <1>4, <1>5 DEF Registration

(* One thread of one session goes on; every other thread stays.            *)
LEMMA OneGoesOn ==
  ASSUME Typed, NEW name \in {"bind", "recv", "disc"}, NEW s \in Sessions, NEW label,
         Goto(<<name, s>>, label)
  PROVE  /\ pc'[<<name, s>>] = label
         /\ \A n \in {"bind", "recv", "disc"}, s2 \in Sessions :
              n # name \/ s2 # s => pc'[<<n, s2>>] = pc[<<n, s2>>]
  BY DEF Typed, TypeOK, Goto, Threads

LEMMA RegisterRegistration ==
  ASSUME Typed, Registration, NEW s \in Sessions, RegisterUser(s)
  PROVE  Registration'
<1> DEFINE u == UserOf[s]
<1>1. /\ pc[<<"bind", s>>] = "register" /\ replaced[s] = NoSession
      /\ registered' = [registered EXCEPT ![u] = s]
      /\ replaced' = [replaced EXCEPT ![s] = registered[u]]
      /\ UNCHANGED <<conn, phase, kicked>>
      /\ phase[s] # "BEFORE_LOBBY"
  BY DEF RegisterUser, Registration, Registering, Replacing
<1>2. /\ u \in Users /\ \A s2 \in Sessions : UserOf[s2] \in Users
      /\ registered \in [Users -> Sessions \cup {NoSession}]
      /\ replaced \in [Sessions -> Sessions \cup {NoSession}]
      /\ NoSession \notin Sessions
  BY WorldAssumption DEF Typed, TypeOK
<1>3. /\ \A s2 \in Sessions : pc'[<<"disc", s2>>] = pc[<<"disc", s2>>]
      /\ \A s2 \in Sessions \ {s} : pc'[<<"bind", s2>>] = pc[<<"bind", s2>>]
      /\ pc'[<<"bind", s>>] = IF registered[u] = NoSession THEN "verify" ELSE "replace"
  BY OneGoesOn DEF RegisterUser
<1>4. ASSUME NEW s2 \in Sessions PROVE Registering(s2)'
  <2>1. CASE s2 = s
    BY <1>1, <1>2, <1>3, <2>1 DEF Registration, Registering, Supported, Replacing
  <2>2. CASE s2 # s
    <3>1. Bound(s2)' <=> Bound(s2)
      BY <1>1, <1>3, <2>2 DEF Bound
    <3>2. Supported(s2) => Supported(s2)'
      <4>1. CASE registered[UserOf[s2]] = s2 /\ UserOf[s2] = u
        BY <1>1, <1>2, <4>1 DEF Supported
      <4>2. CASE registered[UserOf[s2]] = s2 /\ UserOf[s2] # u
        BY <1>1, <1>2, <4>2 DEF Supported
      <4>3. ASSUME NEW s3 \in Sessions, replaced[s3] = s2 PROVE Supported(s2)'
        BY <1>1, <1>2, <4>3 DEF Supported
      <4>4. CASE kicked[s2]
        BY <1>1, <4>4 DEF Supported
      <4> QED
        BY <4>1, <4>2, <4>3, <4>4 DEF Supported
    <3>3. registered'[UserOf[s2]] = s2 => registered[UserOf[s2]] = s2
      BY <1>1, <1>2, <2>2
    <3>4. replaced'[s2] = replaced[s2]
      BY <1>1, <1>2, <2>2
    <3> QED
      BY <1>1, <1>3, <2>2, <3>1, <3>2, <3>3, <3>4 DEF Registration, Registering
  <2> QED
    BY <2>1, <2>2
<1>5. RegistrationEnds'
  <2>1. ASSUME NEW u2 \in Users
        PROVE  registered'[u2] = s \/ registered'[u2] = registered[u2]
    BY <1>1, <1>2
  <2> QED
    BY <1>1, <1>2, <1>3, <2>1 DEF Registration, RegistrationEnds
<1>6. \A u2 \in Users : registered'[u2] # NoSession => UserOf[registered'[u2]] = u2
  BY <1>1, <1>2 DEF Registration
<1> QED
  BY <1>4, <1>5, <1>6 DEF Registration

LEMMA KickRegistration ==
  ASSUME Typed, Registration, NEW s \in Sessions, KickReplaced(s)
  PROVE  Registration'
<1>1. /\ pc[<<"bind", s>>] = "kick"
      /\ kicked' = [kicked EXCEPT ![replaced[s]] = TRUE]
      /\ replaced' = [replaced EXCEPT ![s] = NoSession]
      /\ UNCHANGED <<conn, phase, registered>>
  BY DEF KickReplaced
<1>2. /\ kicked \in [Sessions -> BOOLEAN]
      /\ replaced \in [Sessions -> Sessions \cup {NoSession}]
      /\ \A u \in Users : registered[u] \in Sessions \cup {NoSession}
  BY DEF Typed, TypeOK
<1>3. /\ \A s2 \in Sessions : pc'[<<"disc", s2>>] = pc[<<"disc", s2>>]
      /\ \A s2 \in Sessions \ {s} : pc'[<<"bind", s2>>] = pc[<<"bind", s2>>]
      /\ pc'[<<"bind", s>>] = "verify"
  BY OneGoesOn DEF KickReplaced
<1>4. ASSUME NEW s2 \in Sessions PROVE Registering(s2)'
  <2>1. Bound(s2)' => Bound(s2)
    BY <1>1, <1>3 DEF Bound, Replacing
  <2>2. Supported(s2) => Supported(s2)'
    BY <1>1, <1>2 DEF Supported
  <2> QED
    BY <1>1, <1>2, <1>3, <2>1, <2>2 DEF Registration, Registering, Replacing
<1>5. RegistrationEnds'
  BY <1>1, <1>2, <1>3 DEF Registration, RegistrationEnds
<1> QED
  BY <1>1, <1>4, <1>5 DEF Registration

(* Erasing a registration concerns a session that is gone.                 *)
LEMMA UnregisterFacts ==
  ASSUME Typed, Registration, NEW s \in Sessions, Unregister(s)
  PROVE  /\ registered'[UserOf[s]] # s
         /\ \A u \in Users : registered'[u] # registered[u] =>
              registered[u] = s /\ registered'[u] = NoSession
         /\ \A u \in Users : registered'[u] # s
<1>1. /\ registered \in [Users -> Sessions \cup {NoSession}]
      /\ NoSession \notin Sessions /\ UserOf[s] \in Users
  BY WorldAssumption DEF Typed, TypeOK
<1>2. \A u \in Users : registered[u] = s => UserOf[s] = u
  BY <1>1 DEF Registration
<1> QED
  BY <1>1, <1>2 DEF Unregister

LEMMA FinishRegistration ==
  ASSUME Typed, Registration, NEW s \in Sessions, FinishLobbyConnect(s)
  PROVE  Registration'
<1>1. pc[<<"bind", s>>] = "verify" /\ UNCHANGED <<conn, replaced>>
  BY DEF FinishLobbyConnect
<1>2. /\ \A s2 \in Sessions : pc'[<<"disc", s2>>] = pc[<<"disc", s2>>]
      /\ \A s2 \in Sessions \ {s} : pc'[<<"bind", s2>>] = pc[<<"bind", s2>>]
      /\ pc'[<<"bind", s>>] = "idle"
  BY OneGoesOn DEF FinishLobbyConnect
<1>3. /\ kicked \in [Sessions -> BOOLEAN] /\ phase \in [Sessions -> Phases]
      /\ registered \in [Users -> Sessions \cup {NoSession}]
      /\ NoSession \notin Sessions /\ \A s2 \in Sessions : UserOf[s2] \in Users
  BY WorldAssumption DEF Typed, TypeOK
<1>4. CASE ~conn[s] /\ Unregister(s) /\ UNCHANGED <<phase, kicked>>
  <2>1. /\ \A u \in Users : registered'[u] # registered[u] =>
             registered[u] = s /\ registered'[u] = NoSession
        /\ \A u \in Users : registered'[u] # s
    BY <1>4, UnregisterFacts
  <2>2. ASSUME NEW s2 \in Sessions PROVE Registering(s2)'
    <3>1. Bound(s2)' => Bound(s2)
      BY <1>1, <1>2, <1>4 DEF Bound, Replacing
    <3>2. s2 # s /\ Supported(s2) => Supported(s2)'
      BY <1>1, <1>3, <1>4, <2>1 DEF Supported
    <3>3. registered'[UserOf[s2]] = s2 => registered[UserOf[s2]] = s2
      BY <1>3, <2>1
    <3> QED
      BY <1>1, <1>2, <1>4, <3>1, <3>2, <3>3 DEF Registration, Registering, Replacing
  <2>3. RegistrationEnds'
    BY <1>1, <1>2, <1>3, <2>1 DEF Registration, RegistrationEnds
  <2>4. \A u \in Users : registered'[u] # NoSession => UserOf[registered'[u]] = u
    BY <2>1 DEF Registration
  <2> QED
    BY <2>2, <2>3, <2>4 DEF Registration
<1>5. CASE conn[s] /\ UNCHANGED registered
  <2>1. /\ \A s2 \in Sessions : kicked[s2] => kicked'[s2]
        /\ \A s2 \in Sessions \ {s} : phase'[s2] = phase[s2]
        /\ phase'[s] = "BEFORE_LOBBY" => phase[s] = "BEFORE_LOBBY"
    BY <1>3, <1>5 DEF FinishLobbyConnect, TryChangePhase
  <2>2. ASSUME NEW s2 \in Sessions PROVE Registering(s2)'
    <3>1. Bound(s2)' => Bound(s2)
      BY <1>1, <1>2, <2>1 DEF Bound, Replacing
    <3>2. Supported(s2) => Supported(s2)'
      BY <1>1, <1>5, <2>1 DEF Supported
    <3> QED
      BY <1>1, <1>2, <1>5, <2>1, <3>1, <3>2 DEF Registration, Registering, Replacing
  <2>3. RegistrationEnds'
    BY <1>1, <1>2, <1>3, <1>5 DEF Registration, RegistrationEnds
  <2> QED
    BY <1>5, <2>2, <2>3 DEF Registration
<1> QED
  BY <1>4, <1>5 DEF FinishLobbyConnect

LEMMA DisconnectRegistration ==
  ASSUME Typed, Registration, NEW s \in Sessions, Disconnect(s)
  PROVE  Registration'
<1>1. conn' = [conn EXCEPT ![s] = FALSE] /\ UNCHANGED <<phase, kicked, registered, replaced>>
  BY DEF Disconnect
<1>2. /\ \A s2 \in Sessions : pc'[<<"bind", s2>>] = pc[<<"bind", s2>>]
      /\ \A s2 \in Sessions \ {s} : pc'[<<"disc", s2>>] = pc[<<"disc", s2>>]
      /\ pc'[<<"disc", s>>] = "read"
  BY OneGoesOn DEF Disconnect
<1>3. /\ conn \in [Sessions -> BOOLEAN]
      /\ \A u \in Users : registered[u] \in Sessions \cup {NoSession}
  BY DEF Typed, TypeOK
<1>4. ASSUME NEW s2 \in Sessions PROVE Registering(s2)'
  <2>1. (Bound(s2)' <=> Bound(s2)) /\ (Supported(s2)' <=> Supported(s2))
    BY <1>1, <1>2 DEF Bound, Supported
  <2> QED
    BY <1>1, <1>2, <1>3, <2>1 DEF Registration, Registering
<1>5. RegistrationEnds'
  BY <1>1, <1>2, <1>3 DEF Registration, RegistrationEnds
<1> QED
  BY <1>1, <1>4, <1>5 DEF Registration

LEMMA UnregisterRegistration ==
  ASSUME Typed, Registration, NEW s \in Sessions, UnregisterUser(s)
  PROVE  Registration'
<1>1. /\ pc[<<"disc", s>>] = "unregister" /\ ~conn[s] /\ Unregister(s)
      /\ UNCHANGED <<conn, phase, kicked, replaced>>
  BY DEF UnregisterUser, Registration, Registering
<1>2. /\ \A s2 \in Sessions : pc'[<<"bind", s2>>] = pc[<<"bind", s2>>]
      /\ \A s2 \in Sessions \ {s} : pc'[<<"disc", s2>>] = pc[<<"disc", s2>>]
      /\ pc'[<<"disc", s>>] = "idle"
  BY OneGoesOn DEF UnregisterUser
<1>3. /\ registered \in [Users -> Sessions \cup {NoSession}]
      /\ NoSession \notin Sessions /\ \A s2 \in Sessions : UserOf[s2] \in Users
  BY WorldAssumption DEF Typed, TypeOK
<1>4. /\ \A u \in Users : registered'[u] # registered[u] =>
           registered[u] = s /\ registered'[u] = NoSession
      /\ \A u \in Users : registered'[u] # s
  BY <1>1, UnregisterFacts
<1>5. ASSUME NEW s2 \in Sessions PROVE Registering(s2)'
  <2>1. Bound(s2)' <=> Bound(s2)
    BY <1>1, <1>2 DEF Bound
  <2>2. s2 # s /\ Supported(s2) => Supported(s2)'
    BY <1>1, <1>3, <1>4 DEF Supported
  <2>3. registered'[UserOf[s2]] = s2 => registered[UserOf[s2]] = s2
    BY <1>3, <1>4
  <2> QED
    BY <1>1, <1>2, <2>1, <2>2, <2>3 DEF Registration, Registering
<1>6. RegistrationEnds'
  BY <1>1, <1>2, <1>3, <1>4 DEF Registration, RegistrationEnds
<1>7. \A u \in Users : registered'[u] # NoSession => UserOf[registered'[u]] = u
  BY <1>4 DEF Registration
<1> QED
  BY <1>5, <1>6, <1>7 DEF Registration

LEMMA NextRegistration == Typed /\ Registration /\ [Next]_vars => Registration'
<1> SUFFICES ASSUME Typed, Registration, [Next]_vars PROVE Registration'
  OBVIOUS
<1>1. ASSUME NEW s \in Sessions, Handle(s) PROVE Registration'
  BY <1>1, ConnectRegistration, QuietRegSession, QuietRegistration DEF Handle
<1>2. ASSUME NEW s \in Sessions, Disconnect(s) PROVE Registration'
  BY <1>2, DisconnectRegistration
<1>3. CASE ServerStep
  <2>1. ASSUME NEW s \in Sessions, BindStep(s) PROVE Registration'
    BY <2>1, RejectRegistration, RegisterRegistration, KickRegistration,
       FinishRegistration, QuietRegSession, QuietRegistration DEF BindStep
  <2>2. ASSUME NEW s \in Sessions, DiscStep(s) \/ ParkReturn(s) PROVE Registration'
    BY <2>2, UnregisterRegistration, QuietRegSession, QuietRegistration DEF DiscStep
  <2>3. ASSUME NEW t \in Threads, ThreadStep(t) PROVE Registration'
    BY <2>3, QuietRegThread, QuietRegistration
  <2> QED
    BY <1>3, <2>1, <2>2, <2>3, QuietRegServer, QuietRegistration DEF ServerStep
<1>4. CASE UNCHANGED vars
  BY <1>4, QuietRegServer, QuietRegistration
<1> QED
  BY <1>1, <1>2, <1>3, <1>4 DEF Next

LEMMA RegistrationHolds == Spec => [](Typed /\ Registration)
<1>1. Typed /\ Registration /\ [Next]_vars => (Typed /\ Registration)'
  BY NextTyped, NextRegistration
<1> QED
  BY InitTyped, InitRegistration, <1>1, PTL DEF Spec

(* An account has one session that is not on its way out, whatever order   *)
(* lobby connections, their replacements and disconnections take.          *)
THEOREM SingleSession == Spec => []OneSessionPerAccount
<1>1. Registration => OneSessionPerAccount
  BY DEF Registration, Registering, Bound, Early, Supported, OneSessionPerAccount
<1> QED
  BY <1>1, RegistrationHolds, PTL

(* A registration names a session that is gone only while the step that    *)
(* erases it is still to come.                                             *)
THEOREM RegistrationsEnd == Spec => []RegistrationEnds
<1>1. Registration => RegistrationEnds
  BY DEF Registration
<1> QED
  BY <1>1, RegistrationHolds, PTL

-----------------------------------------------------------------------------
(* Requests.  A session asks for one thing at a time: an entry while it is *)
(* ENTERING_GAME, a character list while it returns to the lobby; the one  *)
(* request waits in its account's queue or behind the mark of the account. *)

EntryKinds == {"select", "load", "loading"}

Request(u, i, s) ==
  /\ i \in 1 .. Len(dbJobs[u])
  /\ dbJobs[u][i].kind \in EntryKinds \cup {"accept"}
  /\ dbJobs[u][i].session = s

(* What a request of this kind says of its session.                        *)
Asks(s, kind) ==
  IF kind = "accept"
  THEN phase[s] = "RETURNING_TO_LOBBY" /\ pc[<<"recv", s>>] = "idle"
  ELSE phase[s] = "ENTERING_GAME"

QueueRequests(u) ==
  \A s \in Sessions : \A i \in Nat : Request(u, i, s) =>
    /\ UserOf[s] = u
    /\ Asks(s, dbJobs[u][i].kind)
    /\ dbJobs[u][i].kind = "loading" => conn[s]
    /\ \A j \in Nat : Request(u, j, s) => j = i

ParkedRequest(u) == parked[u] # NoLoad =>
  LET s == parked[u].session IN
  /\ UserOf[s] = u
  /\ Asks(s, parked[u].kind)
  /\ parked[u].token < nextToken
  /\ \A i \in Nat : ~Request(u, i, s)

(* Only the job that runs is half done.                                    *)
HeadRuns(u) ==
  \A i \in 2 .. Len(dbJobs[u]) : dbJobs[u][i].kind \notin {"loading", "saved"}

TimerRequest(timer) ==
  /\ timer.token < nextToken
  /\ LET u == timer.user IN
     parked[u] # NoLoad /\ parked[u].token = timer.token =>
       parked[u].kind = "load" /\ parked[u].session = timer.session

SessionThreads(s) ==
  /\ pc[<<"bind", s>>] # "idle" => phase[s] = "CONNECTING_LOBBY"
  /\ pc[<<"recv", s>>] # "idle" => phase[s] = "RETURNING_TO_LOBBY"
  /\ conn[s] => pc[<<"disc", s>>] = "idle"

Requests ==
  /\ \A u \in Users : QueueRequests(u) /\ ParkedRequest(u) /\ HeadRuns(u)
  /\ \A timer \in timers : TimerRequest(timer)
  /\ \A s \in Sessions : SessionThreads(s)

(* How a step changes a queue: d jobs are taken from its head, and `job'   *)
(* is new at position n (0: no job is new).                                *)
Moved(u, d, n, job) ==
  /\ \A v \in Users \ {u} : dbJobs'[v] = dbJobs[v]
  /\ \A i \in 1 .. Len(dbJobs'[u]) :
       IF i = n THEN dbJobs'[u][i] = job
       ELSE i + d \in 1 .. Len(dbJobs[u]) /\ dbJobs'[u][i] = dbJobs[u][i + d]

LEMMA UnmovedQueues ==
  ASSUME Typed, NEW u \in Users, NEW job, dbJobs' = dbJobs
  PROVE  Moved(u, 0, 0, job)
  BY DEF Moved, Typed, TypeOK, RoomsTypeOK

LEMMA AppendMoves ==
  ASSUME Typed, NEW u \in Users, NEW job \in DbJob,
         dbJobs' = [dbJobs EXCEPT ![u] = Append(@, job)]
  PROVE  /\ Moved(u, 0, Len(dbJobs[u]) + 1, job)
         /\ Len(dbJobs[u]) + 1 \in Nat \ {0}
<1>1. dbJobs \in [Users -> Seq(DbJob)]
  BY DEF Typed, TypeOK, RoomsTypeOK
<1> QED
  BY <1>1, AppendFacts DEF Moved

LEMMA PopMoves ==
  ASSUME Typed, NEW u \in Users, dbJobs[u] # <<>>, NEW job, dbJobs' = PopDb(u)
  PROVE  Moved(u, 1, 0, job)
<1>1. dbJobs \in [Users -> Seq(DbJob)]
  BY DEF Typed, TypeOK, RoomsTypeOK
<1> QED
  BY <1>1, TailFacts DEF Moved, PopDb

LEMMA ContinueMoves ==
  ASSUME Typed, NEW u \in Users, dbJobs[u] # <<>>, NEW job \in DbJob,
         dbJobs' = ContinueDb(u, job)
  PROVE  Moved(u, 0, 1, job)
<1>1. dbJobs[u] \in Seq(DbJob) /\ dbJobs \in [Users -> Seq(DbJob)]
  BY DEF Typed, TypeOK, RoomsTypeOK
<1>2. dbJobs'[u] = <<job>> \o Tail(dbJobs[u])
  BY <1>1 DEF ContinueDb
<1>3. \A i \in 1 .. Len(dbJobs'[u]) :
        IF i = 1 THEN dbJobs'[u][i] = job
        ELSE i \in 1 .. Len(dbJobs[u]) /\ dbJobs'[u][i] = dbJobs[u][i]
  <2>1. Tail(dbJobs[u]) \in Seq(DbJob) /\ Len(Tail(dbJobs[u])) = Len(dbJobs[u]) - 1
    BY <1>1
  <2>2. Len(dbJobs'[u]) = Len(dbJobs[u])
    BY <1>1, <1>2, <2>1
  <2>3. ASSUME NEW i \in 2 .. Len(dbJobs[u]) PROVE dbJobs'[u][i] = dbJobs[u][i]
    BY <1>1, <1>2, <2>1
  <2> QED
    BY <1>1, <1>2, <2>1, <2>2, <2>3
<1> QED
  BY <1>1, <1>3 DEF Moved, ContinueDb

LEMMA RequeueMoves ==
  ASSUME Typed, NEW u \in Users, dbJobs[u] # <<>>, NEW job \in DbJob,
         dbJobs' = [dbJobs EXCEPT ![u] = Append(Tail(@), job)]
  PROVE  Moved(u, 1, Len(dbJobs[u]), job) /\ Len(dbJobs[u]) \in Nat \ {0}
<1>1. dbJobs[u] \in Seq(DbJob) /\ dbJobs \in [Users -> Seq(DbJob)]
  BY DEF Typed, TypeOK, RoomsTypeOK
<1>2. Tail(dbJobs[u]) \in Seq(DbJob) /\ Len(Tail(dbJobs[u])) + 1 = Len(dbJobs[u])
  BY <1>1
<1> DEFINE rest == Tail(dbJobs[u])
<1>3. \A i \in 1 .. Len(rest) : i + 1 \in 1 .. Len(dbJobs[u]) /\ rest[i] = dbJobs[u][i + 1]
  BY <1>1, TailFacts
<1>4. /\ Len(Append(rest, job)) = Len(dbJobs[u])
      /\ \A i \in 1 .. Len(rest) : Append(rest, job)[i] = rest[i]
      /\ Append(rest, job)[Len(dbJobs[u])] = job
  BY <1>2, AppendFacts
<1>5. dbJobs'[u] = Append(rest, job) /\ \A v \in Users \ {u} : dbJobs'[v] = dbJobs[v]
  BY <1>1
<1>6. Len(rest) = Len(dbJobs[u]) - 1 /\ Len(dbJobs[u]) \in Nat \ {0}
  BY <1>1, <1>2
<1> HIDE DEF rest
<1>7. \A i \in 1 .. Len(dbJobs[u]) : i # Len(dbJobs[u]) => i \in 1 .. Len(rest)
  BY <1>6
<1> QED
  BY <1>3, <1>4, <1>5, <1>6, <1>7 DEF Moved

(* Where a request of the new state comes from.                            *)
LEMMA RequestMoved ==
  ASSUME Typed, Typed', NEW u \in Users, NEW d \in {0, 1}, NEW n \in Nat, NEW job,
         Moved(u, d, n, job), NEW v \in Users, NEW i \in Nat, NEW s, Request(v, i, s)'
  PROVE  \/ /\ v = u /\ i = n /\ n # 0 /\ dbJobs'[u][i] = job
            /\ job.kind \in EntryKinds \cup {"accept"} /\ job.session = s
         \/ /\ v = u /\ i # n
            /\ Request(u, i + d, s) /\ dbJobs'[u][i] = dbJobs[u][i + d]
         \/ v # u /\ Request(v, i, s) /\ dbJobs'[v] = dbJobs[v]
  BY DEF Request, Moved, Typed, TypeOK, RoomsTypeOK

(* The requests of all sessions but `free' stay as they are.                *)
LEMMA QueueStep ==
  ASSUME Typed, Typed', Requests,
         NEW u \in Users, NEW d \in {0, 1}, NEW n \in Nat, NEW job, Moved(u, d, n, job),
         NEW free,
         free \in Sessions => UserOf[free] = u,
         \A i \in Nat \ {0} : i # n => ~Request(u, i + d, free),
         \A s \in Sessions : conn[s] => conn'[s],
         \A s \in Sessions \ {free} : \A kind : Asks(s, kind) => Asks(s, kind)',
         n # 0 /\ job.kind \in EntryKinds \cup {"accept"} =>
           /\ job.session = free
           /\ Asks(job.session, job.kind)'
           /\ job.kind = "loading" => conn'[job.session]
  PROVE  \A v \in Users : QueueRequests(v)'
<1> SUFFICES ASSUME NEW v \in Users, NEW s \in Sessions, NEW i \in Nat, Request(v, i, s)'
             PROVE  /\ UserOf[s] = v
                    /\ Asks(s, dbJobs[v][i].kind)'
                    /\ dbJobs'[v][i].kind = "loading" => conn'[s]
                    /\ \A j \in Nat : Request(v, j, s)' => j = i
  BY DEF QueueRequests
<1>1. CASE v = u /\ i = n /\ n # 0 /\ dbJobs'[u][i] = job
           /\ job.kind \in EntryKinds \cup {"accept"} /\ job.session = s
  <2>1. ASSUME NEW j \in Nat, Request(v, j, s)' PROVE j = i
    <3>1. j \in Nat \ {0}
      BY <2>1 DEF Request
    <3>2. ASSUME j # n PROVE Request(u, j + d, s)
      BY <1>1, <2>1, <3>2, RequestMoved
    <3> QED
      BY <1>1, <3>1, <3>2
  <2> QED
    BY <1>1, <2>1
<1>2. CASE v = u /\ i # n /\ Request(u, i + d, s) /\ dbJobs'[u][i] = dbJobs[u][i + d]
  <2>1. i + d \in Nat /\ i \in Nat \ {0}
    BY DEF Request
  <2>2. s # free
    BY <1>2, <2>1
  <2>3. /\ UserOf[s] = u /\ Asks(s, dbJobs[u][i + d].kind)
        /\ dbJobs[u][i + d].kind = "loading" => conn[s]
        /\ \A j \in Nat : Request(u, j, s) => j = i + d
    BY <1>2, <2>1 DEF Requests, QueueRequests
  <2>4. ASSUME NEW j \in Nat, Request(u, j, s)' PROVE j = i
    <3>1. Request(u, j + d, s)
      BY <2>2, <2>4, RequestMoved
    <3> QED
      BY <2>3, <3>1
  <2>5. Asks(s, dbJobs[v][i].kind)'
    BY <1>2, <2>2, <2>3 DEF Asks
  <2> QED
    BY <1>2, <2>2, <2>3, <2>4, <2>5
<1>3. CASE v # u /\ Request(v, i, s) /\ dbJobs'[v] = dbJobs[v]
  <2>1. /\ UserOf[s] = v /\ Asks(s, dbJobs[v][i].kind)
        /\ dbJobs[v][i].kind = "loading" => conn[s]
        /\ \A j \in Nat : Request(v, j, s) => j = i
    BY <1>3 DEF Requests, QueueRequests
  <2>2. \A j \in Nat : Request(v, j, s)' => Request(v, j, s)
    BY <1>3 DEF Request
  <2> QED
    BY <1>3, <2>1, <2>2
<1> QED
  BY <1>1, <1>2, <1>3, RequestMoved

LEMMA HeadRunsStep ==
  ASSUME Typed, Typed', Requests,
         NEW u \in Users, NEW d \in {0, 1}, NEW n \in Nat, NEW job, Moved(u, d, n, job),
         n \in {0, 1} \/ job.kind \notin {"loading", "saved"}
  PROVE  \A v \in Users : HeadRuns(v)'
<1> SUFFICES ASSUME NEW v \in Users, NEW i \in 2 .. Len(dbJobs'[v])
             PROVE  dbJobs'[v][i].kind \notin {"loading", "saved"}
  BY DEF HeadRuns
<1>1. \A w \in Users : \A j \in 2 .. Len(dbJobs[w]) :
        dbJobs[w][j].kind \notin {"loading", "saved"}
  BY DEF Requests, HeadRuns
<1>2. CASE v # u
  BY <1>1, <1>2 DEF Moved
<1>3. CASE v = u
  <2>1. i \in 1 .. Len(dbJobs'[u]) /\ i >= 2
    BY <1>3 DEF Typed, TypeOK, RoomsTypeOK
  <2>2. ASSUME i # n PROVE i + d \in 2 .. Len(dbJobs[u])
    BY <2>1, <2>2 DEF Moved
  <2> QED
    BY <1>1, <1>3, <2>1, <2>2 DEF Moved
<1> QED
  BY <1>2, <1>3

LEMMA ParkedStep ==
  ASSUME Typed, Typed', Requests,
         NEW u \in Users, NEW d \in {0, 1}, NEW n \in Nat, NEW job, Moved(u, d, n, job),
         NEW v \in Users, parked'[v] = parked[v], nextToken' >= nextToken,
         parked[v] # NoLoad =>
           /\ Asks(parked[v].session, parked[v].kind)'
           /\ n # 0 /\ job.kind \in EntryKinds \cup {"accept"} =>
                job.session # parked[v].session
  PROVE  ParkedRequest(v)'
<1> SUFFICES ASSUME parked[v] # NoLoad
             PROVE  /\ UserOf[parked[v].session] = v
                    /\ parked[v].token < nextToken'
                    /\ \A i \in Nat : ~Request(v, i, parked[v].session)'
  BY DEF ParkedRequest, Asks, Request
<1>1. /\ UserOf[parked[v].session] = v
      /\ parked[v].token < nextToken
      /\ \A i \in Nat : ~Request(v, i, parked[v].session)
  BY DEF Requests, ParkedRequest
<1>2. parked[v].token \in Nat /\ nextToken \in Nat /\ nextToken' \in Nat
  BY DEF Typed, TypeOK, GateTypeOK, ParkedLoad, NoLoad
<1>3. ASSUME NEW i \in Nat, Request(v, i, parked[v].session)'
      PROVE  FALSE
  <2> DEFINE s == parked[v].session
  <2>1. Request(v, i, s)' <=> (s' = s /\ Request(v, i, s)')
    BY DEF Request
  <2>2. \A j \in Nat : ~Request(v, j, s)
    BY <1>1
  <2>3. n # 0 /\ job.kind \in EntryKinds \cup {"accept"} => job.session # s
    OBVIOUS
  <2>4. /\ i \in 1 .. Len(dbJobs'[v])
        /\ dbJobs'[v][i].kind \in EntryKinds \cup {"accept"}
        /\ dbJobs'[v][i].session = s
    BY <1>3 DEF Request
  <2> HIDE DEF s
  <2>5. CASE v # u
    BY <2>2, <2>4, <2>5 DEF Moved, Request
  <2>6. CASE v = u
    <3>1. i \in 1 .. Len(dbJobs'[u]) /\ i # 0
      BY <2>4, <2>6
    <3>2. CASE i = n
      BY <2>3, <2>4, <2>6, <3>1, <3>2 DEF Moved
    <3>3. CASE i # n
      <4>1. i + d \in 1 .. Len(dbJobs[u]) /\ dbJobs'[u][i] = dbJobs[u][i + d] /\ i + d \in Nat
        BY <3>1, <3>3 DEF Moved
      <4> QED
        BY <2>2, <2>4, <2>6, <4>1 DEF Request
    <3> QED
      BY <3>2, <3>3
  <2> QED
    BY <2>5, <2>6
<1> QED
  BY <1>1, <1>2, <1>3

(* A step that leaves the requests where they are.                         *)
QuietQueues ==
  /\ UNCHANGED dbJobs
  /\ \A s \in Sessions :
       /\ \A kind \in EntryKinds \cup {"accept"} : Asks(s, kind) => Asks(s, kind)'
       /\ LoadRunning(s) /\ conn[s] => conn'[s]

QuietRequests == QuietQueues /\ UNCHANGED <<parked, nextToken, timers>>

LEMMA QuietQueuesStay ==
  ASSUME Typed, Typed', Requests, QuietQueues
  PROVE  \A u \in Users : QueueRequests(u)' /\ HeadRuns(u)'
<1>1. ASSUME NEW u \in Users PROVE QueueRequests(u)'
  <2> SUFFICES ASSUME NEW s \in Sessions, NEW i \in Nat, Request(u, i, s)
               PROVE  /\ UserOf[s] = u
                      /\ Asks(s, dbJobs[u][i].kind)'
                      /\ dbJobs[u][i].kind = "loading" => conn'[s]
                      /\ \A j \in Nat : Request(u, j, s) => j = i
    BY DEF QueueRequests, QuietQueues, Request
  <2>1. /\ UserOf[s] = u /\ Asks(s, dbJobs[u][i].kind)
        /\ dbJobs[u][i].kind = "loading" => conn[s]
        /\ \A j \in Nat : Request(u, j, s) => j = i
    BY DEF Requests, QueueRequests
  <2>2. Asks(s, dbJobs[u][i].kind)'
    BY <2>1 DEF QuietQueues, Asks, Request
  <2>3. ASSUME dbJobs[u][i].kind = "loading" PROVE conn'[s]
    <3>1. HeadRuns(u)
      BY DEF Requests
    <3>2. i = 1
      BY <2>3, <3>1 DEF HeadRuns, Request, Typed, TypeOK, RoomsTypeOK
    <3>3. LoadRunning(s)
      BY <2>1, <2>3, <3>2 DEF LoadRunning, DbHead, Request, Typed, TypeOK, RoomsTypeOK
    <3> QED
      BY <2>1, <2>3, <3>3 DEF QuietQueues
  <2> QED
    BY <2>1, <2>2, <2>3
<1>2. \A u \in Users : HeadRuns(u)'
  BY DEF Requests, HeadRuns, QuietQueues
<1> QED
  BY <1>1, <1>2

LEMMA QuietParkedStays ==
  ASSUME Typed, Typed', Requests, QuietQueues,
         NEW u \in Users, parked'[u] = parked[u], nextToken' >= nextToken
  PROVE  ParkedRequest(u)'
<1>1. ParkedRequest(u)
  BY DEF Requests
<1>2. parked[u] # NoLoad => /\ parked[u].session \in Sessions /\ parked[u].token \in Nat
                            /\ parked[u].kind \in {"load", "accept"}
  BY DEF Typed, TypeOK, GateTypeOK, ParkedLoad
<1>3. nextToken \in Nat /\ nextToken' \in Nat
  BY DEF Typed, TypeOK, GateTypeOK
<1> QED
  BY <1>1, <1>2, <1>3 DEF ParkedRequest, QuietQueues, Request, EntryKinds, Asks

LEMMA QuietRequestsStay ==
  ASSUME Typed, Typed', Requests, QuietRequests, \A s \in Sessions : SessionThreads(s)'
  PROVE  Requests'
<1>1. \A u \in Users : QueueRequests(u)' /\ HeadRuns(u)'
  BY QuietQueuesStay DEF QuietRequests
<1>2. \A u \in Users : ParkedRequest(u)'
  BY QuietParkedStays DEF QuietRequests, Typed, TypeOK, GateTypeOK
<1>3. \A timer \in timers' : TimerRequest(timer)'
  BY DEF Requests, TimerRequest, QuietRequests
<1> QED
  BY <1>1, <1>2, <1>3 DEF Requests

LEMMA InitRequests == Init => Requests
  BY DEF Init, GateInit, RoomsInit, Requests, QueueRequests, ParkedRequest, HeadRuns,
         SessionThreads, Request, Threads

(* A request is added to a queue.                                          *)
LEMMA PushRequest ==
  ASSUME Typed, Typed', Requests, NEW u \in Users, NEW job \in DbJob,
         dbJobs' = [dbJobs EXCEPT ![u] = Append(@, job)],
         job.kind \in {"select", "load", "accept"}, job.session \in Sessions,
         UserOf[job.session] = u, \A i \in Nat : ~Request(u, i, job.session),
         Asks(job.session, job.kind)', UNCHANGED conn,
         \A s \in Sessions \ {job.session} : \A kind : Asks(s, kind) => Asks(s, kind)'
  PROVE  \A v \in Users : QueueRequests(v)' /\ HeadRuns(v)'
<1>1. PICK n \in Nat \ {0} : Moved(u, 0, n, job)
  BY AppendMoves
<1>2. job.kind \in EntryKinds \cup {"accept"} /\ job.kind \notin {"loading", "saved"}
  BY DEF EntryKinds
<1>3. \A v \in Users : HeadRuns(v)'
  BY <1>1, <1>2, HeadRunsStep
<1>4. \A i \in Nat \ {0} : i # n => ~Request(u, i + 0, job.session)
  OBVIOUS
<1>5. \A s \in Sessions : conn[s] => conn'[s]
  OBVIOUS
<1>8. \A v \in Users : QueueRequests(v)'
  BY <1>1, <1>2, <1>4, <1>5, QueueStep
<1> QED
  BY <1>3, <1>8

LEMMA HandleRequests ==
  ASSUME Typed, Typed', Requests, NEW s \in Sessions, Handle(s)
  PROVE  Requests'
<1> DEFINE threads == \A s2 \in Sessions : SessionThreads(s2)'
<1>1. CASE HandleConnectLobby(s)
  <2>1. QuietRequests
    BY <1>1 DEF HandleConnectLobby, QuietRequests, QuietQueues, Asks, Receive, TryChangePhase, Goto,
                Typed, TypeOK, Threads
  <2>2. threads
    BY <1>1 DEF HandleConnectLobby, Requests, SessionThreads, Receive, TryChangePhase, Goto,
                Typed, TypeOK, Threads
  <2> QED
    BY <2>1, <2>2, QuietRequestsStay
<1>2. CASE HandleEnterGame(s)
  <2> DEFINE u == UserOf[s]
             job == [kind |-> "select", session |-> s]
  <2>1. /\ job \in DbJob /\ u \in Users /\ dbJobs' = [dbJobs EXCEPT ![u] = Append(@, job)]
        /\ job.kind = "select" /\ job.session = s
    BY <1>2, WorldAssumption DEF HandleEnterGame, PushDb, DbJob, SessionJob
  <2>2. PICK n \in Nat \ {0} : Moved(u, 0, n, job)
    BY <2>1, AppendMoves
  <2>3. phase[s] = "LOBBY" /\ phase'[s] = "ENTERING_GAME"
    BY <1>2 DEF HandleEnterGame, Receive, TryChangePhase, Typed, TypeOK
  <2>4. /\ UNCHANGED <<conn, pc, parked, nextToken, timers>>
        /\ \A s2 \in Sessions \ {s} : phase'[s2] = phase[s2]
    BY <1>2 DEF HandleEnterGame, TryChangePhase, Typed, TypeOK
  <2>5. \A v \in Users : \A i \in Nat : ~Request(v, i, s)
    BY <2>3 DEF Requests, QueueRequests, Asks
  <2>6. \A v \in Users : parked[v] # NoLoad => parked[v].session \in Sessions \ {s}
    BY <2>3 DEF Requests, ParkedRequest, Asks, Typed, TypeOK, GateTypeOK, ParkedLoad
  <2>7. Asks(s, job.kind)' /\ \A s2 \in Sessions \ {s} : \A kind : Asks(s2, kind) => Asks(s2, kind)'
    BY <2>1, <2>3, <2>4 DEF Asks
  <2>8. \A v \in Users : QueueRequests(v)' /\ HeadRuns(v)'
    BY <2>1, <2>4, <2>5, <2>7, PushRequest
  <2>10. ASSUME NEW v \in Users PROVE ParkedRequest(v)'
    <3>1. parked[v] # NoLoad => Asks(parked[v].session, parked[v].kind)'
      BY <2>4, <2>6, <2>7 DEF Requests, ParkedRequest, Asks
    <3> QED
      BY <2>1, <2>2, <2>4, <2>6, <3>1, ParkedStep DEF Typed, TypeOK, GateTypeOK
  <2>11. threads
    BY <2>3, <2>4 DEF Requests, SessionThreads
  <2>12. \A timer \in timers' : TimerRequest(timer)'
    BY <2>4 DEF Requests, TimerRequest
  <2> QED
    BY <2>8, <2>10, <2>11, <2>12 DEF Requests
<1>3. ASSUME NEW packet \in Packets, HandleInGame(s, packet)
      PROVE  Requests'
  <2>1. QuietRequests
    BY <1>3 DEF HandleInGame, QuietRequests, QuietQueues, Asks
  <2>2. threads
    BY <1>3 DEF HandleInGame, Requests, SessionThreads
  <2> QED
    BY <2>1, <2>2, QuietRequestsStay
<1>4. CASE HandleReturnToLobby(s)
  <2>1. QuietRequests
    BY <1>4 DEF HandleReturnToLobby, ReceiveInGame, QuietRequests, QuietQueues, Asks, Receive,
                TryChangePhase, Goto, Typed, TypeOK, Threads
  <2>2. threads
    BY <1>4 DEF HandleReturnToLobby, ReceiveInGame, Requests, SessionThreads, Receive,
                TryChangePhase, Goto, Typed, TypeOK, Threads
  <2> QED
    BY <2>1, <2>2, QuietRequestsStay
<1> QED
  BY <1>1, <1>2, <1>3, <1>4 DEF Handle

LEMMA ThreadNames ==
  /\ \A s \in Sessions : <<"bind", s>> \in Threads /\ <<"recv", s>> \in Threads
                         /\ <<"disc", s>> \in Threads
  /\ \A t \in Threads : /\ t[2] \in Sessions /\ t[1] \in {"bind", "recv", "disc"}
                        /\ t = <<t[1], t[2]>>
  /\ \A s, s2 : <<"bind", s>> # <<"recv", s2>> /\ <<"bind", s>> # <<"disc", s2>>
                /\ <<"recv", s>> # <<"disc", s2>>
  /\ \A role, s, s2 : <<role, s>> = <<role, s2>> => s = s2
  BY DEF Threads

(* A step of one thread that stays within its handler or ends it.          *)
LEMMA OneThread ==
  ASSUME Typed, Requests, NEW t \in Threads, pc[t] # "idle", UNCHANGED <<phase, conn>>,
         \A t2 \in Threads \ {t} : pc'[t2] = pc[t2]
  PROVE  \A s \in Sessions : SessionThreads(s)'
<1> SUFFICES ASSUME NEW s \in Sessions PROVE SessionThreads(s)'
  OBVIOUS
<1>1. SessionThreads(s) /\ SessionThreads(t[2])
  BY ThreadNames DEF Requests
<1>2. CASE t[2] # s
  BY <1>1, <1>2, ThreadNames DEF SessionThreads
<1>3. CASE t[2] = s
  <2>1. conn[s] => t[1] # "disc"
    BY <1>1, <1>3, ThreadNames DEF SessionThreads
  <2> QED
    BY <1>1, <1>3, <2>1, ThreadNames DEF SessionThreads
<1> QED
  BY <1>2, <1>3

LEMMA BindRequests ==
  ASSUME Typed, Typed', Requests, NEW s \in Sessions, BindStep(s)
  PROVE  Requests'
<1>1. CASE FinishLobbyConnect(s)
  <2>1. phase[s] = "CONNECTING_LOBBY"
    BY <1>1 DEF FinishLobbyConnect, Requests, SessionThreads
  <2>2. QuietRequests
    BY <1>1, <2>1, ThreadNames DEF FinishLobbyConnect, QuietRequests, QuietQueues, Asks, TryChangePhase, Goto,
                      Typed, TypeOK, Threads
  <2>3. /\ pc'[<<"bind", s>>] = "idle" /\ UNCHANGED conn
        /\ \A t \in Threads \ {<<"bind", s>>} : pc'[t] = pc[t]
        /\ \A s2 \in Sessions \ {s} : phase'[s2] = phase[s2]
    BY <1>1, ThreadNames DEF FinishLobbyConnect, TryChangePhase, Goto, Typed, TypeOK
  <2>4. ASSUME NEW s2 \in Sessions PROVE SessionThreads(s2)'
    <3>1. SessionThreads(s2)
      BY DEF Requests
    <3>2. CASE s2 = s
      BY <2>1, <2>3, <3>1, <3>2, ThreadNames DEF SessionThreads
    <3>3. CASE s2 # s
      BY <2>3, <3>1, <3>3, ThreadNames DEF SessionThreads
    <3> QED
      BY <3>2, <3>3
  <2> QED
    BY <2>2, <2>4, QuietRequestsStay
<1>2. CASE ~FinishLobbyConnect(s)
  <2>1. /\ UNCHANGED <<phase, conn, dbJobs, parked, nextToken, timers>>
        /\ pc[<<"bind", s>>] # "idle"
        /\ \A t \in Threads \ {<<"bind", s>>} : pc'[t] = pc[t]
    BY <1>2 DEF BindStep, RejectLobbyConnect, RegisterUser, ReadReplaced, CheckPresence,
                KickReplaced, Goto, Typed, TypeOK
  <2>2. QuietRequests
    BY <2>1 DEF QuietRequests, QuietQueues, Asks, Threads
  <2>3. \A s2 \in Sessions : SessionThreads(s2)'
    BY <2>1, OneThread, ThreadNames
  <2> QED
    BY <2>2, <2>3, QuietRequestsStay
<1> QED
  BY <1>1, <1>2

LEMMA DropHoldRequests ==
  ASSUME Typed, Typed', Requests, NEW t \in Threads, DropHold(t)
  PROVE  Requests'
<1> DEFINE u == ThreadUser(t)
<1>1. /\ u \in Users /\ UNCHANGED <<phase, conn, nextToken, timers>>
      /\ parked' = [parked EXCEPT ![u] = NoLoad]
      /\ pc[t] = "release" /\ pc' = [pc EXCEPT ![t] = pc'[t]] /\ pc'[t] # "idle"
  BY WorldAssumption DEF DropHold, ReleaseHold, Release, Goto, AfterLeaving, ThreadUser,
     Threads, Typed, TypeOK
<1>2. \A s \in Sessions : SessionThreads(s)'
  <2>1. pc[t] # "idle" /\ \A t2 \in Threads \ {t} : pc'[t2] = pc[t2]
    BY <1>1 DEF Typed, TypeOK
  <2> QED
    BY <1>1, <2>1, OneThread
<1>3. \A s \in Sessions : \A kind : Asks(s, kind) <=> Asks(s, kind)'
  BY <1>1 DEF Asks, Threads, Typed, TypeOK
<1>4. \A timer \in timers' : TimerRequest(timer)'
  BY <1>1 DEF Requests, TimerRequest, Typed, TypeOK, GateTypeOK, Timer
<1>5. \A s \in Sessions : conn[s] => conn'[s]
  BY <1>1
<1>6. \A v \in Users \ {u} : parked'[v] = parked[v] /\ nextToken' >= nextToken
  BY <1>1 DEF Typed, TypeOK, GateTypeOK
<1>7. ParkedRequest(u)'
  BY <1>1 DEF ParkedRequest, Typed, TypeOK, GateTypeOK
<1>8. \A v \in Users : parked[v] # NoLoad =>
        /\ parked[v].session \in Sessions /\ UserOf[parked[v].session] = v
        /\ Asks(parked[v].session, parked[v].kind)
        /\ parked[v].kind \in {"load", "accept"}
  BY DEF Requests, ParkedRequest, Typed, TypeOK, GateTypeOK, ParkedLoad
<1>9. CASE parked[u] = NoLoad
  <2>1. dbJobs' = dbJobs /\ parked' = parked
    BY <1>1, <1>9 DEF DropHold, ReleaseHold, Typed, TypeOK, GateTypeOK
  <2>2. QuietRequests
    BY <1>1, <1>3, <2>1 DEF QuietRequests, QuietQueues
  <2> QED
    BY <1>2, <2>2, QuietRequestsStay
<1>10. CASE parked[u] # NoLoad
  <2>1. PICK job \in DbJob : job = ParkedJob(u)
    BY <1>1, <1>10, ParkedJobTyped DEF Typed, TypeOK
  <2>2. dbJobs' = [dbJobs EXCEPT ![u] = Append(@, job)]
    BY <1>10, <2>1 DEF DropHold, ReleaseHold
  <2>3. /\ job.session = parked[u].session /\ job.kind = parked[u].kind
        /\ job.session \in Sessions /\ UserOf[job.session] = u
        /\ job.kind \in {"load", "accept"}
    BY <1>1, <1>8, <1>10, <2>1 DEF ParkedJob
  <2>4. Asks(job.session, job.kind)'
    BY <1>1, <1>3, <1>8, <1>10, <2>3 DEF Asks
  <2>5. \A i \in Nat : ~Request(u, i, job.session)
    BY <1>1, <1>10, <2>3 DEF Requests, ParkedRequest
  <2>6. \A v \in Users : QueueRequests(v)' /\ HeadRuns(v)'
    BY <1>1, <1>3, <2>2, <2>3, <2>4, <2>5, PushRequest
  <2>7. ASSUME NEW v \in Users \ {u} PROVE ParkedRequest(v)'
    <3>1. parked[v] # NoLoad =>
            Asks(parked[v].session, parked[v].kind)' /\ job.session # parked[v].session
      BY <1>3, <1>6, <1>8, <2>3 DEF Asks
    <3>2. PICK n \in Nat \ {0} : Moved(u, 0, n, job)
      BY <1>1, <2>2, AppendMoves
    <3> QED
      BY <1>1, <1>6, <3>1, <3>2, ParkedStep
  <2> QED
    BY <1>2, <1>4, <1>7, <2>6, <2>7 DEF Requests
<1> QED
  BY <1>9, <1>10

LEMMA ThreadRequests ==
  ASSUME Typed, Typed', Requests, NEW t \in Threads, ThreadStep(t)
  PROVE  Requests'
<1>1. CASE DropHold(t)
  BY <1>1, DropHoldRequests
<1>2. CASE ~DropHold(t)
  <2>1. /\ UNCHANGED <<phase, conn, dbJobs, parked, nextToken, timers>>
        /\ pc[t] # "idle" /\ pc'[t] # "idle"
        /\ \A t2 \in Threads \ {t} : pc'[t2] = pc[t2]
    BY <1>2 DEF ThreadStep, TakeHold, MarkDisconnected, PushLeave, Hold, Goto, AfterLeaving,
                Typed, TypeOK
  <2>2. QuietRequests
    BY <2>1 DEF QuietRequests, QuietQueues, Asks, Threads
  <2>3. \A s \in Sessions : SessionThreads(s)'
    BY <2>1, OneThread
  <2> QED
    BY <2>2, <2>3, QuietRequestsStay
<1> QED
  BY <1>1, <1>2

LEMMA DisconnectRequests ==
  ASSUME Typed, Typed', Requests, NEW s \in Sessions, Disconnect(s) \/ DiscStep(s),
         "drop" \notin Windows
  PROVE  Requests'
<1>1. CASE Disconnect(s)
  <2>1. QuietRequests
    BY <1>1 DEF Disconnect, QuietRequests, QuietQueues, Asks, Goto, Typed, TypeOK, Threads
  <2>2. \A s2 \in Sessions : SessionThreads(s2)'
    BY <1>1 DEF Disconnect, Requests, SessionThreads, Goto, Typed, TypeOK, Threads
  <2> QED
    BY <2>1, <2>2, QuietRequestsStay
<1>2. CASE DiscStep(s)
  <2>1. /\ UNCHANGED <<phase, conn, dbJobs, parked, nextToken, timers>>
        /\ pc[<<"disc", s>>] # "idle"
        /\ \A t \in Threads \ {<<"disc", s>>} : pc'[t] = pc[t]
    BY <1>2 DEF DiscStep, ReadPlayer, UnregisterUser, Goto, Typed, TypeOK
  <2>2. QuietRequests
    BY <2>1 DEF QuietRequests, QuietQueues, Asks, Threads
  <2>3. \A s2 \in Sessions : SessionThreads(s2)'
    BY <2>1, OneThread, ThreadNames
  <2> QED
    BY <2>2, <2>3, QuietRequestsStay
<1> QED
  BY <1>1, <1>2

LEMMA ReturnRequests ==
  ASSUME Typed, Typed', Requests, NEW s \in Sessions, ParkReturn(s)
  PROVE  Requests'
<1> DEFINE u == UserOf[s]
<1>1. /\ u \in Users /\ UNCHANGED <<phase, conn, timers>>
      /\ pc[<<"recv", s>>] = "park" /\ pc'[<<"recv", s>>] = "idle"
      /\ \A t \in Threads \ {<<"recv", s>>} : pc'[t] = pc[t]
  BY WorldAssumption, ThreadNames DEF ParkReturn, Goto, Typed, TypeOK
<1>2. \A s2 \in Sessions : SessionThreads(s2)'
  BY <1>1, OneThread, ThreadNames
<1>3. phase[s] = "RETURNING_TO_LOBBY" /\ \A kind \in EntryKinds \cup {"accept"} : ~Asks(s, kind)
  BY <1>1 DEF Requests, SessionThreads, Asks
<1>4. \A s2 \in Sessions \ {s} : \A kind : Asks(s2, kind) => Asks(s2, kind)'
  BY <1>1, ThreadNames DEF Asks
<1>5. Asks(s, "accept")'
  BY <1>1, <1>3 DEF Asks
<1>6. \A v \in Users : \A i \in Nat : ~Request(v, i, s)
  BY <1>3 DEF Requests, QueueRequests, Request
<1>7. \A v \in Users : parked[v] # NoLoad =>
        /\ parked[v].session \in Sessions \ {s} /\ parked[v].kind \in {"load", "accept"}
        /\ Asks(parked[v].session, parked[v].kind) /\ parked[v].token \in Nat
        /\ parked[v].token < nextToken
  BY <1>3 DEF Requests, ParkedRequest, EntryKinds, Typed, TypeOK, GateTypeOK, ParkedLoad
<1>8. nextToken \in Nat /\ nextToken' \in Nat /\ parked \in [Users -> ParkedLoad \cup {NoLoad}]
  BY DEF Typed, TypeOK, GateTypeOK
<1>9. CASE ParkResult(u) = "NOT_HELD"
  <2>1. UNCHANGED <<parked, nextToken>>
    BY <1>9 DEF ParkReturn, Park
  <2>2. PICK job \in DbJob : /\ job.kind = "accept" /\ job.session = s
                             /\ dbJobs' = [dbJobs EXCEPT ![u] = Append(@, job)]
    <3>1. [kind |-> "accept", session |-> s] \in DbJob
      BY DEF DbJob, SessionJob
    <3> QED
      BY <1>9, <3>1 DEF ParkReturn, PushDb
  <2>3. Asks(job.session, job.kind)'
    BY <1>5, <2>2 DEF Asks
  <2>4. \A v \in Users : QueueRequests(v)' /\ HeadRuns(v)'
    BY <1>1, <1>4, <1>6, <2>2, <2>3, PushRequest
  <2>5. ASSUME NEW v \in Users PROVE ParkedRequest(v)'
    <3>1. parked[v] # NoLoad =>
            Asks(parked[v].session, parked[v].kind)' /\ job.session # parked[v].session
      BY <1>4, <1>7, <2>1, <2>2 DEF Asks
    <3>2. PICK n \in Nat \ {0} : Moved(u, 0, n, job)
      BY <1>1, <2>2, AppendMoves
    <3>3. nextToken' >= nextToken
      BY <1>8, <2>1
    <3> QED
      BY <1>1, <2>1, <3>1, <3>2, <3>3, ParkedStep
  <2>6. \A timer \in timers' : TimerRequest(timer)'
    BY <1>1, <2>1 DEF Requests, TimerRequest
  <2> QED
    BY <1>2, <2>4, <2>5, <2>6 DEF Requests
<1>10. CASE ParkResult(u) # "NOT_HELD"
  <2>1. QuietQueues
    <3>1. dbJobs' = dbJobs
      BY <1>10 DEF ParkReturn
    <3> QED
      BY <1>1, <1>3, <1>4, <3>1 DEF QuietQueues
  <2>2. CASE ParkResult(u) = "BUSY"
    <3>1. UNCHANGED <<parked, nextToken>>
      BY <2>2 DEF ParkReturn, Park
    <3> QED
      BY <1>1, <1>2, <2>1, <3>1, QuietRequestsStay DEF QuietRequests
  <2>3. CASE ParkResult(u) = "PARKED"
    <3>1. /\ parked' = [parked EXCEPT ![u] = [kind |-> "accept", session |-> s, token |-> nextToken]]
          /\ nextToken' = nextToken + 1
      BY <2>3 DEF ParkReturn, Park
    <3>2. ParkedRequest(u)'
      <4>1. /\ parked'[u].session = s /\ parked'[u].token < nextToken'
            /\ parked'[u].kind = "accept"
        BY <1>1, <1>8, <3>1
      <4>2. \A i \in Nat : ~Request(u, i, s)'
        BY <1>1, <1>6, <2>1 DEF QuietQueues, Request
      <4>3. Asks(parked[u].session, parked[u].kind)'
        BY <1>5, <4>1 DEF Asks
      <4> QED
        BY <4>1, <4>2, <4>3 DEF ParkedRequest, Request
    <3>3. ASSUME NEW v \in Users \ {u} PROVE ParkedRequest(v)'
      BY <1>8, <2>1, <3>1, QuietParkedStays
    <3>4. ASSUME NEW timer \in timers PROVE TimerRequest(timer)'
      <4>1. timer.user \in Users /\ timer.token \in Nat
        BY DEF Typed, TypeOK, Timer
      <4>2. TimerRequest(timer)
        BY DEF Requests
      <4>3. timer.token # nextToken
        BY <1>8, <4>1, <4>2 DEF TimerRequest
      <4> QED
        BY <1>8, <3>1, <4>1, <4>2, <4>3 DEF TimerRequest
    <3>5. \A v \in Users : QueueRequests(v)' /\ HeadRuns(v)'
      BY <2>1, QuietQueuesStay
    <3> QED
      BY <1>1, <1>2, <3>2, <3>3, <3>4, <3>5 DEF Requests
  <2> QED
    BY <1>10, <2>2, <2>3 DEF ParkResult
<1> QED
  BY <1>9, <1>10

(* The request at the head is taken: it ends, or goes on as `job'.         *)
LEMMA TakeRequest ==
  ASSUME Typed, Typed', Requests, NEW u \in Users, NEW s \in Sessions, Request(u, 1, s),
         NEW d \in {0, 1}, NEW n \in Nat, NEW job, d = 1 \/ n = 1, Moved(u, d, n, job),
         n # 0 => /\ job.kind = "load" \/ (job.kind = "loading" /\ n = 1 /\ conn[s])
                  /\ job.session = s /\ Asks(s, job.kind)',
         UNCHANGED conn,
         \A s2 \in Sessions \ {s} : \A kind : Asks(s2, kind) => Asks(s2, kind)'
  PROVE  \A v \in Users : QueueRequests(v)' /\ HeadRuns(v)'
<1>1. UserOf[s] = u /\ \A j \in Nat : Request(u, j, s) => j = 1
  BY DEF Requests, QueueRequests
<1>2. \A i \in Nat \ {0} : i # n => ~Request(u, i + d, s)
  <2>1. ASSUME NEW i \in Nat \ {0}, i # n, Request(u, i + d, s) PROVE FALSE
    BY <1>1, <2>1
  <2> QED
    BY <2>1
<1>3. \A s2 \in Sessions : conn[s2] => conn'[s2]
  OBVIOUS
<1>4. n # 0 /\ job.kind \in EntryKinds \cup {"accept"} =>
        /\ job.session = s
        /\ Asks(job.session, job.kind)'
        /\ job.kind = "loading" => conn'[job.session]
  BY DEF Asks
<1>6. \A v \in Users : QueueRequests(v)'
  BY <1>1, <1>2, <1>3, <1>4, QueueStep
<1>7. \A v \in Users : HeadRuns(v)'
  <2>1. n \in {0, 1} \/ job.kind \notin {"loading", "saved"}
    OBVIOUS
  <2> QED
    BY <2>1, HeadRunsStep
<1> QED
  BY <1>6, <1>7

(* A job of a save is added, or goes on.                                   *)
LEMMA SaveJobMoves ==
  ASSUME Typed, Typed', Requests, NEW u \in Users, NEW d \in {0, 1}, NEW n \in Nat,
         NEW job, Moved(u, d, n, job),
         n = 0 \/ job.kind = "save" \/ (job.kind = "saved" /\ n = 1),
         UNCHANGED <<conn, phase, pc>>
  PROVE  \A v \in Users : QueueRequests(v)' /\ HeadRuns(v)'
<1>1. /\ \A i \in Nat \ {0} : i # n => ~Request(u, i + d, NoSession)
      /\ NoSession \notin Sessions
  <2>1. ASSUME NEW i \in Nat, Request(u, i, NoSession) PROVE FALSE
    <3>1. dbJobs[u] \in Seq(DbJob) /\ i \in 1 .. Len(dbJobs[u])
      BY <2>1 DEF Request, Typed, TypeOK, RoomsTypeOK
    <3>2. dbJobs[u][i] \in SessionJob \cup SaveJob
      BY <3>1 DEF DbJob
    <3> QED
      BY <2>1, <3>2, WorldAssumption DEF Request, EntryKinds, SessionJob, SaveJob
  <2> QED
    BY <2>1, WorldAssumption
<1>2. /\ \A s2 \in Sessions : conn[s2] => conn'[s2]
      /\ \A s2 \in Sessions \ {NoSession} : \A kind : Asks(s2, kind) => Asks(s2, kind)'
  BY DEF Asks
<1>3. n # 0 /\ job.kind \in EntryKinds \cup {"accept"} =>
        /\ job.session = NoSession
        /\ Asks(job.session, job.kind)'
        /\ job.kind = "loading" => conn'[job.session]
  BY DEF EntryKinds
<1>4. \A v \in Users : QueueRequests(v)'
  BY <1>1, <1>2, <1>3, QueueStep
<1>5. \A v \in Users : HeadRuns(v)'
  <2>1. n \in {0, 1} \/ job.kind \notin {"loading", "saved"}
    OBVIOUS
  <2> QED
    BY <2>1, HeadRunsStep
<1> QED
  BY <1>4, <1>5

LEMMA HeadRequest ==
  ASSUME Typed, Requests, NEW u \in Users, NEW kind \in EntryKinds \cup {"accept"},
         DbHead(u, kind), NEW s, s = Head(dbJobs[u]).session
  PROVE  /\ s \in Sessions /\ UserOf[s] = u /\ dbJobs[u] # <<>>
         /\ Request(u, 1, s) /\ dbJobs[u][1].kind = kind
         /\ Asks(s, kind)
         /\ kind = "loading" => conn[s]
         /\ \A v \in Users : parked[v] # NoLoad =>
              parked[v].session \in Sessions \ {s} /\ parked[v].kind \in {"load", "accept"}
<1>1. /\ dbJobs[u] # <<>> /\ dbJobs[u] \in Seq(DbJob)
      /\ Head(dbJobs[u]) = dbJobs[u][1] /\ Head(dbJobs[u]) \in DbJob
      /\ 1 \in 1 .. Len(dbJobs[u]) /\ Head(dbJobs[u]).kind = kind
  BY TailFacts DEF DbHead, Typed, TypeOK, RoomsTypeOK
<1>2. s \in Sessions
  BY <1>1 DEF DbJob, SessionJob, SaveJob, EntryKinds
<1>3. Request(u, 1, s) /\ dbJobs[u][1].kind = kind
  BY <1>1 DEF Request
<1>4. /\ UserOf[s] = u /\ Asks(s, kind)
      /\ kind = "loading" => conn[s]
  BY <1>2, <1>3 DEF Requests, QueueRequests
<1>5. ASSUME NEW v \in Users, parked[v] # NoLoad
      PROVE  parked[v].session \in Sessions \ {s} /\ parked[v].kind \in {"load", "accept"}
  <2>1. parked[v].session \in Sessions /\ parked[v].kind \in {"load", "accept"}
    BY <1>5 DEF Typed, TypeOK, GateTypeOK, ParkedLoad
  <2>2. UserOf[parked[v].session] = v /\ \A i \in Nat : ~Request(v, i, parked[v].session)
    BY <1>5 DEF Requests, ParkedRequest
  <2>3. ASSUME parked[v].session = s PROVE FALSE
    <3>1. v = u /\ ~Request(v, 1, parked[v].session)
      BY <1>4, <2>2, <2>3
    <3> QED
      BY <1>3, <2>3, <3>1
  <2> QED
    BY <2>1, <2>3
<1> QED
  BY <1>1, <1>2, <1>3, <1>4, <1>5

(* The gate, when a request of s is taken from a queue and nothing is parked. *)
LEMMA OthersParked ==
  ASSUME Typed, Typed', Requests, NEW u \in Users, NEW s \in Sessions,
         NEW d \in {0, 1}, NEW n \in Nat, NEW job, Moved(u, d, n, job),
         n # 0 => job.session = s,
         \A s2 \in Sessions \ {s} : \A kind : Asks(s2, kind) => Asks(s2, kind)',
         NEW v \in Users, parked'[v] = parked[v], nextToken' >= nextToken,
         parked[v] # NoLoad => parked[v].session \in Sessions \ {s}
  PROVE  ParkedRequest(v)'
<1>1. parked[v] # NoLoad => Asks(parked[v].session, parked[v].kind)
  BY DEF Requests, ParkedRequest
<1>2. parked[v] # NoLoad => /\ Asks(parked[v].session, parked[v].kind)'
                            /\ n # 0 => job.session # parked[v].session
  BY <1>1 DEF Asks
<1> QED
  BY <1>2, ParkedStep

LEMMA SelectRequests ==
  ASSUME Typed, Typed', Requests, NEW u \in Users, SelectCharacter(u)
  PROVE  Requests'
<1>1. PICK s \in Sessions : s = Head(dbJobs[u]).session /\ DbHead(u, "select")
  BY HeadRequest DEF SelectCharacter, EntryKinds
<1>2. /\ UserOf[s] = u /\ dbJobs[u] # <<>> /\ Request(u, 1, s) /\ Asks(s, "select")
      /\ \A v \in Users : parked[v] # NoLoad =>
           parked[v].session \in Sessions \ {s} /\ parked[v].kind \in {"load", "accept"}
  BY <1>1, HeadRequest DEF EntryKinds
<1>3. phase[s] = "ENTERING_GAME" /\ UNCHANGED <<conn, pc>>
  BY <1>2 DEF Asks, SelectCharacter
<1>4. phase' = phase \/ phase' = [phase EXCEPT ![s] = "LOBBY"]
  BY <1>1 DEF SelectCharacter, CancelGameEntry, TryChangePhase
<1>5. \A s2 \in Sessions : SessionThreads(s2)'
  BY <1>3, <1>4 DEF Requests, SessionThreads, Typed, TypeOK
<1>6. \A s2 \in Sessions \ {s} : \A kind : Asks(s2, kind) => Asks(s2, kind)'
  BY <1>3, <1>4 DEF Asks, Typed, TypeOK
<1>7. nextToken \in Nat /\ parked \in [Users -> ParkedLoad \cup {NoLoad}]
  BY DEF Typed, TypeOK, GateTypeOK
<1>8. ASSUME dbJobs' = PopDb(u), UNCHANGED <<parked, nextToken, timers>>
      PROVE  Requests'
  <2>1. Moved(u, 1, 0, NoLoad)
    BY <1>2, <1>8, PopMoves
  <2>2. \A v \in Users : QueueRequests(v)' /\ HeadRuns(v)'
    BY <1>2, <1>3, <1>6, <2>1, TakeRequest
  <2>3. \A v \in Users : ParkedRequest(v)'
    BY <1>2, <1>6, <1>7, <1>8, <2>1, OthersParked
  <2>4. \A timer \in timers' : TimerRequest(timer)'
    BY <1>8 DEF Requests, TimerRequest
  <2> QED
    BY <1>5, <2>2, <2>3, <2>4 DEF Requests
<1>9. ASSUME ParkResult(u) = "NOT_HELD", UNCHANGED <<parked, nextToken, timers, phase>>,
             dbJobs' = [dbJobs EXCEPT ![u] = Append(Tail(@), [kind |-> "load", session |-> s])]
      PROVE  Requests'
  <2>1. PICK job \in DbJob : job = [kind |-> "load", session |-> s]
    BY DEF DbJob, SessionJob
  <2>2. PICK n \in Nat \ {0} : Moved(u, 1, n, job)
    BY <1>2, <1>9, <2>1, RequeueMoves
  <2>3. job.kind = "load" /\ job.session = s /\ Asks(s, job.kind)'
    BY <1>3, <1>9, <2>1 DEF Asks
  <2>4. \A v \in Users : QueueRequests(v)' /\ HeadRuns(v)'
    BY <1>2, <1>3, <1>6, <2>2, <2>3, TakeRequest
  <2>5. \A v \in Users : ParkedRequest(v)'
    BY <1>2, <1>6, <1>7, <1>9, <2>2, <2>3, OthersParked
  <2>6. \A timer \in timers' : TimerRequest(timer)'
    BY <1>9 DEF Requests, TimerRequest
  <2> QED
    BY <1>5, <2>4, <2>5, <2>6 DEF Requests
<1>10. ASSUME ParkResult(u) = "PARKED", dbJobs' = PopDb(u), UNCHANGED phase,
              parked' = [parked EXCEPT ![u] = [kind |-> "load", session |-> s, token |-> nextToken]],
              nextToken' = nextToken + 1,
              timers' = timers \cup {[user |-> u, session |-> s, token |-> nextToken]}
       PROVE  Requests'
  <2>1. Moved(u, 1, 0, NoLoad)
    BY <1>2, <1>10, PopMoves
  <2>2. \A v \in Users : QueueRequests(v)' /\ HeadRuns(v)'
    BY <1>2, <1>3, <1>6, <2>1, TakeRequest
  <2>3. ASSUME NEW v \in Users \ {u} PROVE ParkedRequest(v)'
    BY <1>2, <1>6, <1>7, <1>10, <2>1, OthersParked
  <2>4. ParkedRequest(u)'
    <3>1. /\ parked'[u].session = s /\ parked'[u].token < nextToken' /\ parked'[u].kind = "load"
      BY <1>7, <1>10
    <3>2. ASSUME NEW i \in Nat PROVE ~Request(u, i, s)'
      <4>1. ASSUME Request(u, i, s)' PROVE Request(u, i + 1, s) /\ i + 1 # 1
        BY <2>1, <4>1, RequestMoved DEF Request
      <4>2. \A j \in Nat : Request(u, j, s) => j = 1
        BY <1>2 DEF Requests, QueueRequests
      <4> QED
        BY <4>1, <4>2
    <3>3. Asks(parked[u].session, parked[u].kind)'
      BY <1>3, <1>10, <3>1 DEF Asks
    <3> QED
      BY <1>2, <3>1, <3>2, <3>3 DEF ParkedRequest, Request
  <2>5. ASSUME NEW timer \in timers' PROVE TimerRequest(timer)'
    <3>1. CASE timer \in timers
      <4>1. timer.user \in Users /\ timer.token \in Nat
        BY <3>1 DEF Typed, TypeOK, Timer
      <4>2. TimerRequest(timer)
        BY <3>1 DEF Requests
      <4> QED
        BY <1>7, <1>10, <4>1, <4>2 DEF TimerRequest
    <3>2. CASE timer = [user |-> u, session |-> s, token |-> nextToken]
      BY <1>7, <1>10, <3>2 DEF TimerRequest
    <3> QED
      BY <1>10, <3>1, <3>2
  <2> QED
    BY <1>5, <2>2, <2>3, <2>4, <2>5 DEF Requests
<1> QED
  BY <1>1, <1>8, <1>9, <1>10 DEF SelectCharacter, Park, ParkResult

LEMMA CheckRequests ==
  ASSUME Typed, Typed', Requests, NEW u \in Users, CheckConnected(u)
  PROVE  Requests'
<1>1. PICK s \in Sessions : s = Head(dbJobs[u]).session /\ DbHead(u, "load")
  BY HeadRequest DEF CheckConnected, EntryKinds
<1>2. /\ dbJobs[u] # <<>> /\ Request(u, 1, s) /\ Asks(s, "load")
      /\ \A v \in Users : parked[v] # NoLoad =>
           parked[v].session \in Sessions \ {s} /\ parked[v].kind \in {"load", "accept"}
  BY <1>1, HeadRequest DEF EntryKinds
<1>3. UNCHANGED <<conn, phase, pc, parked, nextToken, timers>>
  BY DEF CheckConnected
<1>4. /\ \A s2 \in Sessions : SessionThreads(s2)'
      /\ \A timer \in timers' : TimerRequest(timer)'
  BY <1>3 DEF Requests, SessionThreads, TimerRequest
<1>5. \A s2 \in Sessions \ {s} : \A kind : Asks(s2, kind) => Asks(s2, kind)'
  BY <1>3 DEF Asks
<1>6. nextToken' >= nextToken
  BY <1>3 DEF Typed, TypeOK, GateTypeOK
<1>7. CASE conn[s]
  <2>1. PICK job \in DbJob : job = [kind |-> "loading", session |-> s]
    BY DEF DbJob, SessionJob
  <2>2. Moved(u, 0, 1, job)
    BY <1>1, <1>2, <1>7, <2>1, ContinueMoves DEF CheckConnected
  <2>3. job.kind = "loading" /\ job.session = s /\ Asks(s, job.kind)'
    BY <1>2, <1>3, <2>1 DEF Asks
  <2>4. \A v \in Users : QueueRequests(v)' /\ HeadRuns(v)'
    BY <1>2, <1>3, <1>5, <1>7, <2>2, <2>3, TakeRequest
  <2>5. \A v \in Users : ParkedRequest(v)'
    BY <1>2, <1>3, <1>5, <1>6, <2>2, <2>3, OthersParked
  <2> QED
    BY <1>4, <2>4, <2>5 DEF Requests
<1>8. CASE ~conn[s]
  <2>1. Moved(u, 1, 0, NoLoad)
    BY <1>1, <1>2, <1>8, PopMoves DEF CheckConnected
  <2>2. \A v \in Users : QueueRequests(v)' /\ HeadRuns(v)'
    BY <1>2, <1>3, <1>5, <2>1, TakeRequest
  <2>3. \A v \in Users : ParkedRequest(v)'
    BY <1>2, <1>3, <1>5, <1>6, <2>1, OthersParked
  <2> QED
    BY <1>4, <2>2, <2>3 DEF Requests
<1> QED
  BY <1>7, <1>8

(* An entry or a return to the lobby ends: the phase of its session moves. *)
LEMMA EndRequests ==
  ASSUME Typed, Typed', Requests, NEW u \in Users, Enter(u) \/ AcceptReturn(u)
  PROVE  Requests'
<1>1. PICK s \in Sessions, kind \in {"loading", "accept"} :
        /\ s = Head(dbJobs[u]).session /\ DbHead(u, kind)
        /\ phase' = phase \/ phase' = [phase EXCEPT ![s] = phase'[s]]
        /\ phase'[s] \notin {"CONNECTING_LOBBY", "RETURNING_TO_LOBBY"} \/ phase'[s] = phase[s]
  <2>1. CASE Enter(u)
    <3>1. PICK s \in Sessions : s = Head(dbJobs[u]).session /\ DbHead(u, "loading")
      BY <2>1, HeadRequest DEF Enter, EntryKinds
    <3>2. phase' = phase \/ phase' = [phase EXCEPT ![s] = "LOBBY"]
            \/ phase' = [phase EXCEPT ![s] = "IN_GAME"]
      BY <2>1, <3>1 DEF Enter, CancelGameEntry, TryChangePhase
    <3>3. phase'[s] \in {phase[s], "LOBBY", "IN_GAME"} /\ phase' = [phase EXCEPT ![s] = phase'[s]]
      BY <3>2 DEF Typed, TypeOK
    <3> QED
      BY <3>1, <3>3
  <2>2. CASE AcceptReturn(u)
    <3>1. PICK s \in Sessions : s = Head(dbJobs[u]).session /\ DbHead(u, "accept")
      BY <2>2, HeadRequest DEF AcceptReturn, EntryKinds
    <3>2. phase' = phase \/ phase' = [phase EXCEPT ![s] = "LOBBY"]
      BY <2>2, <3>1 DEF AcceptReturn, TryChangePhase
    <3>3. phase'[s] \in {phase[s], "LOBBY"} /\ phase' = [phase EXCEPT ![s] = phase'[s]]
      BY <3>2 DEF Typed, TypeOK
    <3> QED
      BY <3>1, <3>3
  <2> QED
    BY <2>1, <2>2
<1>2. /\ dbJobs[u] # <<>> /\ Request(u, 1, s) /\ Asks(s, kind)
      /\ \A v \in Users : parked[v] # NoLoad =>
           parked[v].session \in Sessions \ {s} /\ parked[v].kind \in {"load", "accept"}
  BY <1>1, HeadRequest DEF EntryKinds
<1>3. UNCHANGED <<conn, pc, parked, nextToken, timers>> /\ dbJobs' = PopDb(u)
  BY DEF Enter, AcceptReturn
<1>4. \A timer \in timers' : TimerRequest(timer)'
  BY <1>3 DEF Requests, TimerRequest
<1>5. \A s2 \in Sessions \ {s} : phase'[s2] = phase[s2]
  BY <1>1 DEF Typed, TypeOK
<1>6. ASSUME NEW s2 \in Sessions PROVE SessionThreads(s2)'
  <2>1. SessionThreads(s2)
    BY DEF Requests
  <2>2. CASE s2 # s
    BY <1>3, <1>5, <2>1, <2>2 DEF SessionThreads
  <2>3. CASE s2 = s
    <3>1. pc[<<"bind", s>>] = "idle" /\ pc[<<"recv", s>>] = "idle"
      BY <1>1, <1>2, <2>1, <2>3 DEF SessionThreads, Asks
    <3> QED
      BY <1>3, <2>1, <2>3, <3>1 DEF SessionThreads
  <2> QED
    BY <2>2, <2>3
<1>7. \A s2 \in Sessions \ {s} : \A k : Asks(s2, k) => Asks(s2, k)'
  BY <1>3, <1>5 DEF Asks
<1>8. nextToken' >= nextToken
  BY <1>3 DEF Typed, TypeOK, GateTypeOK
<1>9. Moved(u, 1, 0, NoLoad)
  BY <1>2, <1>3, PopMoves
<1>10. \A v \in Users : QueueRequests(v)' /\ HeadRuns(v)'
  BY <1>2, <1>3, <1>7, <1>9, TakeRequest
<1>11. \A v \in Users : ParkedRequest(v)'
  BY <1>2, <1>3, <1>7, <1>8, <1>9, OthersParked
<1> QED
  BY <1>4, <1>6, <1>10, <1>11 DEF Requests

(* A job of a save changes a queue, and nothing else that requests know.   *)
LEMMA SaveRequests ==
  ASSUME Typed, Typed', Requests, NEW u \in Users, NEW d \in {0, 1}, NEW n \in Nat,
         NEW job, Moved(u, d, n, job),
         n = 0 \/ job.kind = "save" \/ (job.kind = "saved" /\ n = 1),
         UNCHANGED <<conn, phase, pc, parked, nextToken, timers>>
  PROVE  Requests'
<1>1. \A v \in Users : QueueRequests(v)' /\ HeadRuns(v)'
  BY SaveJobMoves
<1>2. ASSUME NEW v \in Users PROVE ParkedRequest(v)'
  <2>1. parked[v] # NoLoad => Asks(parked[v].session, parked[v].kind)'
    BY DEF Requests, ParkedRequest, Asks
  <2>2. ~(n # 0 /\ job.kind \in EntryKinds \cup {"accept"})
    BY DEF EntryKinds
  <2>3. nextToken' >= nextToken
    BY DEF Typed, TypeOK, GateTypeOK
  <2> QED
    BY <2>1, <2>2, <2>3, ParkedStep
<1>3. /\ \A s2 \in Sessions : SessionThreads(s2)'
      /\ \A timer \in timers' : TimerRequest(timer)'
  BY DEF Requests, SessionThreads, TimerRequest
<1> QED
  BY <1>1, <1>2, <1>3 DEF Requests

LEMMA SavedRequests ==
  ASSUME Typed, Typed', Requests, NEW u \in Users, MarkSaved(u) \/ ReleaseSaved(u)
  PROVE  Requests'
<1>1. dbJobs[u] # <<>> /\ UNCHANGED <<conn, phase, pc, nextToken, timers>>
  BY DEF MarkSaved, ReleaseSaved, DbHead, Release
<1>2. CASE MarkSaved(u)
  <2>1. PICK job \in DbJob : job.kind = "saved" /\ dbJobs' = ContinueDb(u, job)
    <3>1. Head(dbJobs[u]) \in DbJob /\ Head(dbJobs[u]).kind = "save"
      BY <1>1, <1>2, TailFacts DEF MarkSaved, DbHead, Typed, TypeOK, RoomsTypeOK
    <3>2. Head(dbJobs[u]).player \in Players
      BY <3>1 DEF DbJob, SessionJob, SaveJob
    <3>3. [kind |-> "saved", player |-> Head(dbJobs[u]).player] \in DbJob
      BY <3>2 DEF DbJob, SaveJob
    <3> QED
      BY <1>2, <3>3 DEF MarkSaved
  <2>2. Moved(u, 0, 1, job)
    BY <1>1, <2>1, ContinueMoves
  <2>3. UNCHANGED parked
    BY <1>2 DEF MarkSaved
  <2> QED
    BY <1>1, <2>1, <2>2, <2>3, SaveRequests
<1>3. CASE ReleaseSaved(u) /\ parked[u] = NoLoad
  <2>1. dbJobs' = PopDb(u) /\ parked' = parked
    BY <1>3 DEF ReleaseSaved, Release, Typed, TypeOK, GateTypeOK
  <2>2. Moved(u, 1, 0, NoLoad)
    BY <1>1, <2>1, PopMoves
  <2> QED
    BY <1>1, <2>1, <2>2, SaveRequests
<1>4. CASE ReleaseSaved(u) /\ parked[u] # NoLoad
  <2>1. PICK job \in DbJob : job = ParkedJob(u)
    BY <1>4, ParkedJobTyped DEF Typed, TypeOK
  <2>2. dbJobs' = ContinueDb(u, job) /\ parked' = [parked EXCEPT ![u] = NoLoad]
    BY <1>4, <2>1 DEF ReleaseSaved, Release
  <2>3. Moved(u, 0, 1, job)
    BY <1>1, <2>2, ContinueMoves
  <2>4. \A v \in Users : parked[v] # NoLoad =>
          /\ parked[v].session \in Sessions /\ UserOf[parked[v].session] = v
          /\ Asks(parked[v].session, parked[v].kind)
          /\ parked[v].kind \in {"load", "accept"}
          /\ \A i \in Nat : ~Request(v, i, parked[v].session)
    BY DEF Requests, ParkedRequest, Typed, TypeOK, GateTypeOK, ParkedLoad
  <2>5. job.session = parked[u].session /\ job.kind = parked[u].kind
    BY <2>1 DEF ParkedJob
  <2>6. job.session \in Sessions /\ UserOf[job.session] = u /\ Asks(job.session, job.kind)
    BY <1>4, <2>4, <2>5
  <2>7. \A i \in Nat : ~Request(u, i, job.session)
    BY <1>4, <2>4, <2>5
  <2>8. \A s \in Sessions : \A k : Asks(s, k) => Asks(s, k)'
    BY <1>1 DEF Asks
  <2>9. \A v \in Users : QueueRequests(v)'
    <3>1. \A i \in Nat \ {0} : i # 1 => ~Request(u, i + 0, job.session)
      BY <2>7
    <3>2. 1 # 0 /\ job.kind \in EntryKinds \cup {"accept"} =>
            /\ job.session = job.session
            /\ Asks(job.session, job.kind)'
            /\ job.kind = "loading" => conn'[job.session]
      BY <1>4, <2>4, <2>5, <2>6, <2>8 DEF Asks
    <3>3. \A s \in Sessions : conn[s] => conn'[s]
      BY <1>1
    <3>4. \A s \in Sessions \ {job.session} : \A k : Asks(s, k) => Asks(s, k)'
      BY <2>8
    <3> QED
      BY <2>3, <2>6, <3>1, <3>2, <3>3, <3>4, QueueStep
  <2>10. \A v \in Users : HeadRuns(v)'
    BY <2>3, HeadRunsStep
  <2>11. ASSUME NEW v \in Users \ {u} PROVE ParkedRequest(v)'
    <3>1. parked'[v] = parked[v] /\ nextToken' >= nextToken
      BY <1>1, <2>2 DEF Typed, TypeOK, GateTypeOK
    <3>2. parked[v] # NoLoad =>
            Asks(parked[v].session, parked[v].kind)' /\ job.session # parked[v].session
      BY <2>4, <2>6, <2>8, <3>1 DEF Asks
    <3> QED
      BY <2>3, <3>1, <3>2, ParkedStep
  <2>12. ParkedRequest(u)'
    BY <2>2 DEF ParkedRequest, Typed, TypeOK, GateTypeOK
  <2>13. \A timer \in timers' : TimerRequest(timer)'
    BY <1>1, <2>2 DEF Requests, TimerRequest, Typed, TypeOK, GateTypeOK, Timer
  <2>14. \A s2 \in Sessions : SessionThreads(s2)'
    BY <1>1 DEF Requests, SessionThreads
  <2> QED
    BY <2>9, <2>10, <2>11, <2>12, <2>13, <2>14 DEF Requests
<1> QED
  BY <1>2, <1>3, <1>4

LEMMA DbRequests ==
  ASSUME Typed, Typed', Requests, NEW u \in Users, DbStep(u)
  PROVE  Requests'
  BY SelectRequests, CheckRequests, EndRequests, SavedRequests DEF DbStep

LEMMA TimerRequests ==
  ASSUME Typed, Typed', Requests, NEW timer \in timers, ExpireTimer(timer)
  PROVE  Requests'
<1> DEFINE u == timer.user
           s == timer.session
<1>1. /\ u \in Users /\ s \in Sessions /\ timer.token \in Nat
      /\ UNCHANGED <<conn, pc, dbJobs, nextToken>> /\ timers' = timers \ {timer}
  BY DEF ExpireTimer, Expire, Typed, TypeOK, Timer
<1>2. nextToken' >= nextToken /\ parked \in [Users -> ParkedLoad \cup {NoLoad}]
  BY <1>1 DEF Typed, TypeOK, GateTypeOK
<1>3. CASE ~Expires(u, timer.token)
  <2>1. UNCHANGED <<parked, phase>>
    BY <1>3 DEF ExpireTimer, Expire
  <2>2. QuietQueues
    BY <1>1, <2>1 DEF QuietQueues, Asks
  <2>3. \A v \in Users : ParkedRequest(v)'
    BY <1>2, <2>1, <2>2, QuietParkedStays
  <2>4. \A v \in Users : QueueRequests(v)' /\ HeadRuns(v)'
    BY <2>2, QuietQueuesStay
  <2>5. /\ \A s2 \in Sessions : SessionThreads(s2)'
        /\ \A t2 \in timers' : TimerRequest(t2)'
    BY <1>1, <2>1 DEF Requests, SessionThreads, TimerRequest
  <2> QED
    BY <2>3, <2>4, <2>5 DEF Requests
<1>4. CASE Expires(u, timer.token)
  <2>1. parked[u] # NoLoad /\ parked[u].session = s /\ parked[u].kind = "load"
    BY <1>1, <1>4 DEF Expires, Requests, TimerRequest
  <2>2. /\ UserOf[s] = u /\ phase[s] = "ENTERING_GAME" /\ \A i \in Nat : ~Request(u, i, s)
    BY <1>1, <2>1 DEF Requests, ParkedRequest, Asks
  <2>3. parked' = [parked EXCEPT ![u] = NoLoad] /\ phase' = [phase EXCEPT ![s] = "LOBBY"]
    BY <1>4, <2>2 DEF ExpireTimer, Expire, CancelGameEntry, TryChangePhase
  <2>4. \A s2 \in Sessions \ {s} : \A k : Asks(s2, k) => Asks(s2, k)'
    BY <1>1, <2>3 DEF Asks, Typed, TypeOK
  <2>5. PICK job : Moved(u, 0, 0, job)
    BY <1>1, UnmovedQueues
  <2>6. \A v \in Users : QueueRequests(v)'
    <3>1. \A i \in Nat \ {0} : i # 0 => ~Request(u, i + 0, s)
      BY <2>2
    <3>2. 0 # 0 /\ job.kind \in EntryKinds \cup {"accept"} =>
            /\ job.session = s
            /\ Asks(job.session, job.kind)'
            /\ job.kind = "loading" => conn'[job.session]
      OBVIOUS
    <3>3. \A s2 \in Sessions : conn[s2] => conn'[s2]
      BY <1>1
    <3> QED
      BY <1>1, <2>2, <2>4, <2>5, <3>1, <3>2, <3>3, QueueStep
  <2>7. \A v \in Users : HeadRuns(v)'
    BY <1>1, <2>5, HeadRunsStep
  <2>8. ASSUME NEW v \in Users \ {u} PROVE ParkedRequest(v)'
    <3>1. parked[v] # NoLoad => parked[v].session \in Sessions \ {s}
      BY <1>2, <2>2 DEF Requests, ParkedRequest, ParkedLoad
    <3>2. parked'[v] = parked[v]
      BY <1>2, <2>3
    <3> QED
      BY <1>1, <1>2, <2>4, <2>5, <3>1, <3>2, OthersParked
  <2>9. ParkedRequest(u)'
    BY <1>1, <1>2, <2>3 DEF ParkedRequest
  <2>10. \A t2 \in timers' : TimerRequest(t2)'
    BY <1>1, <1>2, <2>3 DEF Requests, TimerRequest, Typed, TypeOK, Timer
  <2>11. \A s2 \in Sessions : SessionThreads(s2)'
    BY <1>1, <2>2, <2>3 DEF Requests, SessionThreads, Typed, TypeOK
  <2> QED
    BY <2>6, <2>7, <2>8, <2>9, <2>10, <2>11 DEF Requests
<1> QED
  BY <1>3, <1>4

(* What a room does to the progress of players: a departed player may be   *)
(* saved, a loaded one may enter.                                          *)
LEMMA RoomEffect ==
  ASSUME Typed, Custody, NEW r \in Rooms, RunRoom(r)
  PROVE  /\ \/ NoSave
            \/ \E p \in Players : SaveLeftPlayer(p) /\ Departed(p)
         /\ owner' = owner
         /\ \A p \in Players :
              \/ presence'[p] = presence[p]
              \/ presence[p] = "LOADED" /\ presence'[p] = "IN_ROOM"
         /\ \A p \in Players : room[p] # NoRoom => room'[p] # NoRoom
<1> USE WorldAssumption DEF Typed, TypeOK, RoomsTypeOK
<1>1. ASSUME NEW kind \in JobKinds, RunHead(r, kind)
      PROVE  HeadPlayer(r) \in Players /\ JobAt(r, 1, kind, HeadPlayer(r))
  BY <1>1, HeadAt, RunHeadFacts DEF JobKinds
<1>2. CASE LeaveRoomAndSave(r)
  <2>1. HeadPlayer(r) \in Players /\ JobAt(r, 1, "leave", HeadPlayer(r))
    BY <1>1, <1>2 DEF LeaveRoomAndSave, JobKinds
  <2>2. Departed(HeadPlayer(r))
    BY <2>1 DEF Custody, Leaving
  <2> QED
    BY <1>2, <2>1, <2>2 DEF LeaveRoomAndSave
<1>3. CASE EnterPlayer(r) \/ MapLoadComplete(r)
  <2>1. HeadPlayer(r) \in Players
    BY <1>1, <1>3 DEF EnterPlayer, MapLoadComplete, JobKinds
  <2>2. AdmitTo(r, HeadPlayer(r)) \/ (NoSave /\ UNCHANGED room)
    BY <1>3 DEF EnterPlayer, MapLoadComplete
  <2> QED
    BY <1>3, <2>1, <2>2 DEF EnterPlayer, MapLoadComplete, AdmitTo, Departed
<1>4. CASE MarkEnteredRoom(r)
  <2>1. entering[r] \in Players /\ UNCHANGED <<owner, room>>
    BY <1>4 DEF MarkEnteredRoom
  <2> QED
    BY <1>4, <2>1 DEF MarkEnteredRoom, Departed
<1>5. CASE ChangeChannel(r) \/ UsePortal(r)
  <2>1. HeadPlayer(r) \in Players
    BY <1>1, <1>5 DEF ChangeChannel, UsePortal, JobKinds
  <2>2. StayInRoom(r) \/ \E dest \in Rooms : MovePlayer(r, HeadPlayer(r), dest)
    BY <1>5 DEF ChangeChannel, UsePortal
  <2> QED
    BY <2>1, <2>2 DEF StayInRoom, MovePlayer
<1> QED
  BY <1>2, <1>3, <1>4, <1>5 DEF RunRoom, RoomStep

LEMMA RoomRequests ==
  ASSUME Typed, Typed', Custody, Requests, NEW r \in Rooms, RunRoom(r)
  PROVE  Requests'
<1>1. UNCHANGED <<conn, phase, pc, parked, nextToken, timers>>
  BY DEF RunRoom
<1>2. CASE dbJobs' = dbJobs
  <2>1. QuietRequests
    BY <1>1, <1>2 DEF QuietRequests, QuietQueues, Asks
  <2>2. \A s \in Sessions : SessionThreads(s)'
    BY <1>1 DEF Requests, SessionThreads
  <2> QED
    BY <2>1, <2>2, QuietRequestsStay
<1>3. CASE dbJobs' # dbJobs
  <2>1. PICK p \in Players : SaveLeftPlayer(p)
    BY <1>3, RoomEffect
  <2>2. UserOfPlayer(p) \in Users
    BY <1>3, <2>1 DEF SaveLeftPlayer, Typed, TypeOK, RoomsTypeOK
  <2>3. PICK job \in DbJob : job = [kind |-> "save", player |-> p]
    BY DEF DbJob, SaveJob
  <2>4. PICK n \in Nat : Moved(UserOfPlayer(p), 0, n, job)
    BY <2>1, <2>2, <2>3, AppendMoves DEF SaveLeftPlayer
  <2> QED
    BY <1>1, <2>2, <2>3, <2>4, SaveRequests
<1> QED
  BY <1>2, <1>3

LEMMA NextRequests ==
  ASSUME "drop" \notin Windows, Typed, Typed', Custody, Requests, [Next]_vars
  PROVE  Requests'
<1>1. ASSUME NEW s \in Sessions, Handle(s) \/ Disconnect(s) PROVE Requests'
  BY <1>1, HandleRequests, DisconnectRequests
<1>2. CASE ServerStep
  <2>1. ASSUME NEW s \in Sessions, BindStep(s) \/ DiscStep(s) \/ ParkReturn(s)
        PROVE  Requests'
    BY <2>1, BindRequests, DisconnectRequests, ReturnRequests
  <2> QED
    BY <1>2, <2>1, ThreadRequests, DbRequests, TimerRequests, RoomRequests DEF ServerStep
<1>3. CASE UNCHANGED vars
  <2>1. QuietRequests
    BY <1>3 DEF QuietRequests, QuietQueues, Asks
  <2>2. \A s \in Sessions : SessionThreads(s)'
    BY <1>3 DEF Requests, SessionThreads
  <2> QED
    BY <2>1, <2>2, QuietRequestsStay
<1> QED
  BY <1>1, <1>2, <1>3 DEF Next

-----------------------------------------------------------------------------
(* Save jobs.  A player has one, and it has left its room for good.         *)

SaveAt(u, i, p) ==
  /\ i \in 1 .. Len(dbJobs[u])
  /\ dbJobs[u][i].kind \in {"save", "saved"}
  /\ dbJobs[u][i].player = p

SaveJobs ==
  /\ \A p \in Players : presence[p] = "SAVED" => saves[p] = 1
  /\ \A u \in Users : \A p \in Players : \A i \in Nat : SaveAt(u, i, p) =>
       /\ UserOfPlayer(p) = u /\ saves[p] = 1
       /\ presence[p] = IF dbJobs[u][i].kind = "save" THEN "LEFT_IN_ROOM" ELSE "SAVED"
       /\ \A j \in Nat : SaveAt(u, j, p) => j = i

(* The save jobs of the new state are those of the old one.                *)
SavesShift ==
  \A u \in Users : \E d \in {0, 1} : \A i \in Nat : \A p : SaveAt(u, i, p)' =>
    SaveAt(u, i + d, p) /\ dbJobs'[u][i] = dbJobs[u][i + d]

LEMMA MovedShift ==
  ASSUME Typed, Typed', NEW u \in Users, NEW d \in {0, 1}, NEW n \in Nat, NEW job,
         Moved(u, d, n, job), n # 0 => job.kind \notin {"save", "saved"}
  PROVE  SavesShift
<1> SUFFICES ASSUME NEW v \in Users
             PROVE  \E e \in {0, 1} : \A i \in Nat : \A p : SaveAt(v, i, p)' =>
                      SaveAt(v, i + e, p) /\ dbJobs'[v][i] = dbJobs[v][i + e]
  BY DEF SavesShift
<1>1. CASE v = u
  <2>1. ASSUME NEW i \in Nat, NEW p, SaveAt(u, i, p)'
        PROVE  SaveAt(u, i + d, p) /\ dbJobs'[u][i] = dbJobs[u][i + d]
    <3>1. i \in 1 .. Len(dbJobs'[u]) /\ i # n
      BY <2>1 DEF Moved, SaveAt
    <3> QED
      BY <2>1, <3>1 DEF Moved, SaveAt
  <2> QED
    BY <1>1, <2>1
<1>2. CASE v # u
  <2>1. \A i \in Nat : \A p : SaveAt(v, i, p)' =>
          SaveAt(v, i + 0, p) /\ dbJobs'[v][i] = dbJobs[v][i + 0]
    BY <1>2 DEF Moved, SaveAt
  <2> QED
    BY <2>1
<1> QED
  BY <1>1, <1>2

LEMMA SameShift == ASSUME UNCHANGED dbJobs PROVE SavesShift
<1> SUFFICES ASSUME NEW v \in Users
             PROVE  \E e \in {0, 1} : \A i \in Nat : \A p : SaveAt(v, i, p)' =>
                      SaveAt(v, i + e, p) /\ dbJobs'[v][i] = dbJobs[v][i + e]
  BY DEF SavesShift
<1>1. \A i \in Nat : \A p : SaveAt(v, i, p)' =>
        SaveAt(v, i + 0, p) /\ dbJobs'[v][i] = dbJobs[v][i + 0]
  BY DEF SaveAt
<1> QED
  BY <1>1

LEMMA SessionJobShift ==
  ASSUME Typed, Typed', NEW u, NEW job \in DbJob, job.kind \notin {"save", "saved"},
         dbJobs' = [dbJobs EXCEPT ![u] = Append(@, job)]
  PROVE  SavesShift
<1>1. CASE u \in Users
  <2>1. PICK n \in Nat \ {0} : Moved(u, 0, n, job)
    BY <1>1, AppendMoves
  <2> QED
    BY <1>1, <2>1, MovedShift
<1>2. CASE u \notin Users
  <2>1. dbJobs' = dbJobs
    BY <1>2 DEF Typed, TypeOK, RoomsTypeOK
  <2> QED
    BY <2>1, SameShift
<1> QED
  BY <1>1, <1>2

LEMMA PushShift ==
  ASSUME Typed, Typed', NEW u \in Users, NEW kind \in {"select", "accept"},
         NEW s \in Sessions, PushDb(u, kind, s)
  PROVE  SavesShift
<1>1. [kind |-> kind, session |-> s] \in DbJob
  BY DEF DbJob, SessionJob
<1> QED
  BY <1>1, SessionJobShift DEF PushDb

LEMMA DropHoldShift ==
  ASSUME Typed, Typed', NEW t \in Threads, DropHold(t)
  PROVE  SavesShift
<1>1. CASE parked[ThreadUser(t)] = NoLoad
  BY <1>1, SameShift DEF DropHold, ReleaseHold
<1>2. CASE parked[ThreadUser(t)] # NoLoad
  <2>1. ThreadUser(t) \in Users
    BY WorldAssumption DEF ThreadUser, Threads
  <2>2. /\ ParkedJob(ThreadUser(t)) \in DbJob
        /\ ParkedJob(ThreadUser(t)).kind \notin {"save", "saved"}
    BY <1>2, <2>1, ParkedJobTyped
    DEF Typed, TypeOK, GateTypeOK, ParkedLoad, ParkedJob
  <2> QED
    BY <1>2, <2>2, SessionJobShift DEF DropHold, ReleaseHold
<1> QED
  BY <1>1, <1>2

LEMMA DbShift ==
  ASSUME Typed, Typed', Requests, NEW u \in Users, DbStep(u), ~MarkSaved(u)
  PROVE  SavesShift
<1>1. dbJobs[u] # <<>>
  BY DEF DbStep, SelectCharacter, CheckConnected, Enter, AcceptReturn, ReleaseSaved, MarkSaved,
         DbHead
<1>2. CASE dbJobs' = PopDb(u)
  <2>1. Moved(u, 1, 0, NoLoad)
    BY <1>1, <1>2, PopMoves
  <2> QED
    BY <2>1, MovedShift
<1>3. CASE SelectCharacter(u) /\ dbJobs' # PopDb(u)
  <2>1. PICK s \in Sessions : s = Head(dbJobs[u]).session
    BY <1>3, HeadRequest DEF SelectCharacter, EntryKinds
  <2>2. PICK job \in DbJob : job.kind = "load" /\ job = [kind |-> "load", session |-> s]
    BY DEF DbJob, SessionJob
  <2>3. dbJobs' = [dbJobs EXCEPT ![u] = Append(Tail(@), job)]
    BY <1>3, <2>1, <2>2 DEF SelectCharacter, ParkResult
  <2>4. PICK n \in Nat \ {0} : Moved(u, 1, n, job)
    BY <1>1, <2>3, RequeueMoves
  <2> QED
    BY <2>2, <2>4, MovedShift
<1>4. CASE CheckConnected(u) /\ dbJobs' # PopDb(u)
  <2>1. PICK s \in Sessions : s = Head(dbJobs[u]).session
    BY <1>4, HeadRequest DEF CheckConnected, EntryKinds
  <2>2. PICK job \in DbJob : job.kind = "loading" /\ job = [kind |-> "loading", session |-> s]
    BY DEF DbJob, SessionJob
  <2>3. Moved(u, 0, 1, job)
    BY <1>1, <1>4, <2>1, <2>2, ContinueMoves DEF CheckConnected
  <2> QED
    BY <2>2, <2>3, MovedShift
<1>5. CASE ReleaseSaved(u) /\ dbJobs' # PopDb(u)
  <2>1. parked[u] # NoLoad /\ dbJobs' = ContinueDb(u, ParkedJob(u))
    BY <1>5 DEF ReleaseSaved
  <2>2. PICK job \in DbJob : job = ParkedJob(u) /\ job.kind \notin {"save", "saved"}
    BY <2>1, ParkedJobTyped DEF Typed, TypeOK, GateTypeOK, ParkedLoad, ParkedJob
  <2>3. Moved(u, 0, 1, job)
    BY <1>1, <2>1, <2>2, ContinueMoves
  <2> QED
    BY <2>2, <2>3, MovedShift
<1> QED
  BY <1>2, <1>3, <1>4, <1>5 DEF DbStep, Enter, AcceptReturn

LEMMA NextShift ==
  ASSUME Typed, Typed', Requests, [Next]_vars
  PROVE  \/ SavesShift
         \/ \E u \in Users : MarkSaved(u)
         \/ \E r \in Rooms : RunRoom(r)
<1>1. ASSUME NEW s \in Sessions, Handle(s) \/ Disconnect(s) PROVE SavesShift
  <2>1. CASE HandleEnterGame(s)
    BY <2>1, PushShift, WorldAssumption DEF HandleEnterGame
  <2>2. CASE ~HandleEnterGame(s)
    BY <1>1, <2>2, SameShift DEF Handle, HandleConnectLobby, HandleInGame, HandleReturnToLobby,
       Disconnect
  <2> QED
    BY <2>1, <2>2
<1>2. ASSUME NEW s \in Sessions, BindStep(s) \/ DiscStep(s) PROVE SavesShift
  BY <1>2, SameShift DEF BindStep, RejectLobbyConnect, RegisterUser, ReadReplaced,
     CheckPresence, KickReplaced, FinishLobbyConnect, DiscStep, ReadPlayer, UnregisterUser
<1>3. ASSUME NEW s \in Sessions, ParkReturn(s) PROVE SavesShift
  BY <1>3, SameShift, PushShift, WorldAssumption DEF ParkReturn
<1>4. ASSUME NEW t \in Threads, ThreadStep(t) PROVE SavesShift
  BY <1>4, SameShift, DropHoldShift DEF ThreadStep, TakeHold, MarkDisconnected, PushLeave
<1>5. ASSUME NEW timer \in timers, ExpireTimer(timer) PROVE SavesShift
  BY <1>5, SameShift DEF ExpireTimer
<1>6. CASE UNCHANGED vars
  BY <1>6, SameShift
<1> QED
  BY <1>1, <1>2, <1>3, <1>4, <1>5, <1>6, DbShift DEF Next, ServerStep

(* Only these steps change what has become of a player.                    *)
LEMMA PlayersUntouched ==
  ASSUME [Next]_vars,
         ~\E u \in Users : Enter(u) \/ MarkSaved(u),
         ~\E t \in Threads : MarkDisconnected(t),
         ~\E r \in Rooms : RunRoom(r)
  PROVE  UNCHANGED <<saves, presence, owner>>
<1>1. ASSUME NEW s \in Sessions, Handle(s) \/ Disconnect(s) \/ BindStep(s) \/ DiscStep(s) \/ ParkReturn(s)
      PROVE  UNCHANGED <<saves, presence, owner>>
  <2>1. Handle(s) => UNCHANGED <<saves, presence, owner>>
    BY DEF Handle, HandleConnectLobby, HandleEnterGame, HandleInGame, HandleReturnToLobby
  <2>2. BindStep(s) => UNCHANGED <<saves, presence, owner>>
    BY DEF BindStep, RejectLobbyConnect, RegisterUser, ReadReplaced,
       CheckPresence, KickReplaced, FinishLobbyConnect
  <2>3. Disconnect(s) \/ DiscStep(s) \/ ParkReturn(s) => UNCHANGED <<saves, presence, owner>>
    BY DEF Disconnect, DiscStep, ReadPlayer, UnregisterUser, ParkReturn
  <2> QED
    BY <1>1, <2>1, <2>2, <2>3
<1>2. ASSUME NEW t \in Threads, ThreadStep(t)
      PROVE  UNCHANGED <<saves, presence, owner>>
  BY <1>2 DEF ThreadStep, TakeHold, PushLeave, DropHold
<1>3. ASSUME NEW u \in Users, DbStep(u)
      PROVE  UNCHANGED <<saves, presence, owner>>
  BY <1>3 DEF DbStep, SelectCharacter, CheckConnected, AcceptReturn, ReleaseSaved
<1>4. ASSUME NEW timer \in timers, ExpireTimer(timer) PROVE UNCHANGED <<saves, presence, owner>>
  BY <1>4 DEF ExpireTimer
<1>5. CASE UNCHANGED vars
  BY <1>5
<1> QED
  BY <1>1, <1>2, <1>3, <1>4, <1>5 DEF Next, ServerStep

(* What the steps outside the rooms and the save jobs do to a player.      *)
LEMMA PlayerStep ==
  ASSUME Typed, [Next]_vars, ~\E u \in Users : MarkSaved(u), ~\E r \in Rooms : RunRoom(r)
  PROVE  /\ UNCHANGED saves
         /\ \A p \in Players :
              /\ presence[p] # "NONE" => owner'[p] = owner[p]
              /\ \/ presence'[p] = presence[p]
                 \/ presence[p] = "NONE" /\ presence'[p] = "LOADED"
                 \/ \E t \in Threads :
                      /\ MarkDisconnected(t) /\ arg[t] = p
                      /\ presence'[p] = AfterDisconnect(presence[p])
<1>1. CASE \E u \in Users : Enter(u)
  BY <1>1 DEF Enter, Typed, TypeOK, RoomsTypeOK
<1>2. ASSUME NEW t \in Threads, MarkDisconnected(t)
      PROVE  /\ UNCHANGED <<saves, owner>>
             /\ \A p \in Players : \/ presence'[p] = presence[p]
                                   \/ /\ arg[t] = p
                                      /\ presence'[p] = AfterDisconnect(presence[p])
  BY <1>2 DEF MarkDisconnected, Typed, TypeOK, RoomsTypeOK
<1>3. CASE UNCHANGED <<saves, presence, owner>>
  BY <1>3
<1> QED
  BY <1>1, <1>2, <1>3, PlayersUntouched

LEMMA InitSaveJobs == Init => SaveJobs
  BY DEF Init, RoomsInit, SaveJobs, SaveAt, Players

(* A step that moves the save jobs on and saves nobody.                    *)
LEMMA ShiftedSaveJobs ==
  ASSUME Typed, Typed', SaveJobs, SavesShift, UNCHANGED saves,
         \A p \in Players : Departed(p) => owner'[p] = owner[p] /\ presence'[p] = presence[p],
         \A p \in Players : presence'[p] = "SAVED" => presence[p] = "SAVED"
  PROVE  SaveJobs'
<1>1. ASSUME NEW u \in Users, NEW p \in Players, NEW i \in Nat, SaveAt(u, i, p)'
      PROVE  /\ UserOfPlayer(p)' = u /\ saves'[p] = 1
             /\ presence'[p] = IF dbJobs'[u][i].kind = "save" THEN "LEFT_IN_ROOM" ELSE "SAVED"
             /\ \A j \in Nat : SaveAt(u, j, p)' => j = i
  <2>1. PICK d \in {0, 1} : \A j \in Nat : \A q : SaveAt(u, j, q)' =>
          SaveAt(u, j + d, q) /\ dbJobs'[u][j] = dbJobs[u][j + d]
    BY DEF SavesShift
  <2>2. /\ UserOfPlayer(p) = u /\ saves[p] = 1
        /\ presence[p] = IF dbJobs[u][i + d].kind = "save" THEN "LEFT_IN_ROOM" ELSE "SAVED"
        /\ \A j \in Nat : SaveAt(u, j, p) => j = i + d
    BY <1>1, <2>1 DEF SaveJobs
  <2>3. \A j \in Nat : SaveAt(u, j, p)' => j = i
    BY <2>1, <2>2
  <2>4. owner'[p] = owner[p] /\ presence'[p] = presence[p]
    BY <2>2 DEF Departed
  <2> QED
    BY <1>1, <2>1, <2>2, <2>3, <2>4 DEF UserOfPlayer
<1> QED
  BY <1>1 DEF SaveJobs

LEMMA MarkSavedJobs ==
  ASSUME Typed, Typed', SaveJobs, NEW u \in Users, MarkSaved(u)
  PROVE  /\ SaveJobs'
         /\ \E p \in Players : /\ SaveAt(u, 1, p) /\ dbJobs[u][1].kind = "save"
                               /\ presence[p] = "LEFT_IN_ROOM" /\ UserOfPlayer(p) = u
                               /\ presence' = [presence EXCEPT ![p] = "SAVED"]
                               /\ SaveAt(u, 1, p)'
                               /\ Moved(u, 0, 1, [kind |-> "saved", player |-> p])
<1>1. /\ dbJobs[u] # <<>> /\ dbJobs[u] \in Seq(DbJob) /\ Head(dbJobs[u]) \in DbJob
      /\ Head(dbJobs[u]) = dbJobs[u][1] /\ Head(dbJobs[u]).kind = "save" /\ 1 \in 1 .. Len(dbJobs[u])
  BY TailFacts DEF MarkSaved, DbHead, Typed, TypeOK, RoomsTypeOK
<1>2. PICK p \in Players : p = Head(dbJobs[u]).player
  BY <1>1 DEF DbJob, SessionJob, SaveJob
<1>3. SaveAt(u, 1, p)
  BY <1>1, <1>2 DEF SaveAt
<1>4. /\ UserOfPlayer(p) = u /\ saves[p] = 1 /\ presence[p] = "LEFT_IN_ROOM"
      /\ \A j \in Nat : SaveAt(u, j, p) => j = 1
  BY <1>1, <1>3 DEF SaveJobs
<1>5. /\ presence' = [presence EXCEPT ![p] = "SAVED"] /\ UNCHANGED <<owner, saves>>
      /\ dbJobs' = ContinueDb(u, [kind |-> "saved", player |-> p])
  BY <1>2 DEF MarkSaved
<1>6. PICK job \in DbJob : job = [kind |-> "saved", player |-> p]
  BY DEF DbJob, SaveJob
<1>7. Moved(u, 0, 1, job) /\ job.kind = "saved" /\ job.player = p
  BY <1>1, <1>5, <1>6, ContinueMoves
<1>8. ASSUME NEW v \in Users, NEW q \in Players, NEW i \in Nat, SaveAt(v, i, q)'
      PROVE  \/ q = p /\ v = u /\ i = 1 /\ dbJobs'[v][i].kind = "saved"
             \/ q # p /\ SaveAt(v, i, q) /\ dbJobs'[v][i] = dbJobs[v][i]
  <2>1. CASE v = u /\ i = 1
    BY <1>7, <1>8, <2>1 DEF Moved, SaveAt
  <2>2. CASE ~(v = u /\ i = 1)
    <3>1. SaveAt(v, i, q) /\ dbJobs'[v][i] = dbJobs[v][i]
      BY <1>7, <1>8, <2>2 DEF Moved, SaveAt
    <3>2. q # p
      BY <1>4, <2>2, <3>1 DEF SaveJobs
    <3> QED
      BY <3>1, <3>2
  <2> QED
    BY <2>1, <2>2
<1>9. ASSUME NEW v \in Users, NEW q \in Players, NEW i \in Nat, SaveAt(v, i, q)'
      PROVE  /\ UserOfPlayer(q)' = v /\ saves'[q] = 1
             /\ presence'[q] = IF dbJobs'[v][i].kind = "save" THEN "LEFT_IN_ROOM" ELSE "SAVED"
             /\ \A j \in Nat : SaveAt(v, j, q)' => j = i
  <2>1. CASE q = p
    BY <1>4, <1>5, <1>8, <1>9, <2>1 DEF UserOfPlayer, Typed, TypeOK, RoomsTypeOK
  <2>2. CASE q # p
    <3>1. SaveAt(v, i, q) /\ dbJobs'[v][i] = dbJobs[v][i]
      BY <1>8, <1>9, <2>2
    <3>2. \A j \in Nat : SaveAt(v, j, q)' => SaveAt(v, j, q)
      BY <1>8, <2>2
    <3> QED
      BY <1>5, <2>2, <3>1, <3>2 DEF SaveJobs, UserOfPlayer, Typed, TypeOK, RoomsTypeOK
  <2> QED
    BY <2>1, <2>2
<1>10. \A q \in Players : presence'[q] = "SAVED" => saves'[q] = 1
  BY <1>4, <1>5 DEF SaveJobs, Typed, TypeOK, RoomsTypeOK
<1>11. SaveAt(u, 1, p)'
  <2>1. 1 \in 1 .. Len(dbJobs'[u])
    BY <1>1, <1>5, <1>6, ContinueFacts DEF ContinueDb, Typed, TypeOK, RoomsTypeOK
  <2> QED
    BY <1>7, <2>1 DEF Moved, SaveAt
<1> QED
  BY <1>1, <1>3, <1>4, <1>5, <1>6, <1>7, <1>9, <1>10, <1>11 DEF SaveJobs

-----------------------------------------------------------------------------
(* Players and sessions.  *)

Playing(p) == presence[p] \in {"LOADED", "IN_ROOM"}

PlayerOwned(p) ==
  /\ presence[p] = "NONE" <=> owner[p] = NoSession
  /\ presence[p] # "NONE" => room[p] # NoRoom
  /\ Playing(p) => player[owner[p]] = p

PlaysOn(s) == player[s] # NoPlayer /\ Playing(player[s])

SessionPlayer(s) ==
  /\ player[s] # NoPlayer => owner[player[s]] = s
  /\ phase[s] \in {"BEFORE_LOBBY", "CONNECTING_LOBBY", "LOBBY", "ENTERING_GAME"} =>
       player[s] = NoPlayer
  /\ phase[s] = "RETURNING_TO_LOBBY" /\ pc[<<"recv", s>>] \notin {"hold", "mark"} =>
       ~PlaysOn(s)
  /\ ~conn[s] /\ pc[<<"disc", s>>] \notin {"read", "hold", "mark"} => ~PlaysOn(s)
  /\ \A role \in {"recv", "disc"} :
       pc[<<role, s>>] \in {"hold", "mark"} => arg[<<role, s>>] = player[s]

ThreadPlayer(t) ==
  /\ arg[t] # NoPlayer => UserOfPlayer(arg[t]) = ThreadUser(t)
  /\ pc[t] \in {"hold", "mark", "check", "release"} => arg[t] # NoPlayer

Owners ==
  /\ \A p \in Players : PlayerOwned(p)
  /\ \A s \in Sessions : SessionPlayer(s)
  /\ \A t \in Threads : ThreadPlayer(t)
  /\ \A s \in Sessions : replaced[s] # NoSession => UserOf[replaced[s]] = UserOf[s]

(* A room saves a player that has left and was not saved before.           *)
LEMMA RoomSaves ==
  ASSUME Typed, Typed', Custody, Custody', SaveJobs, Owners, NEW r \in Rooms, RunRoom(r)
  PROVE  \/ NoSave
         \/ \E p \in Players, n \in Nat \ {0}, job \in DbJob :
              /\ saves[p] = 0 /\ saves' = [saves EXCEPT ![p] = 1]
              /\ presence[p] = "LEFT_IN_ROOM" /\ presence'[p] = "LEFT_IN_ROOM"
              /\ UserOfPlayer(p) \in Users
              /\ job.kind = "save" /\ job.player = p
              /\ Moved(UserOfPlayer(p), 0, n, job)
<1> SUFFICES ASSUME ~NoSave
             PROVE \E p \in Players, n \in Nat \ {0}, job \in DbJob :
              /\ saves[p] = 0 /\ saves' = [saves EXCEPT ![p] = 1]
              /\ presence[p] = "LEFT_IN_ROOM" /\ presence'[p] = "LEFT_IN_ROOM"
              /\ UserOfPlayer(p) \in Users
              /\ job.kind = "save" /\ job.player = p
              /\ Moved(UserOfPlayer(p), 0, n, job)
  OBVIOUS
<1>1. PICK p \in Players : SaveLeftPlayer(p) /\ Departed(p)
  BY RoomEffect
<1>2. saves \in [Players -> Nat] /\ saves' \in [Players -> Nat] /\ saves' = [saves EXCEPT ![p] = @ + 1]
  BY <1>1 DEF SaveLeftPlayer, Typed, TypeOK, RoomsTypeOK
<1>3. saves'[p] \in {0, 1}
  BY DEF Custody, Leaving
<1>4. saves[p] = 0 /\ saves' = [saves EXCEPT ![p] = 1]
  <2>1. saves'[p] = saves[p] + 1 /\ saves[p] \in Nat
    BY <1>2
  <2>2. saves[p] = 0
    BY <1>3, <2>1
  <2>3. saves' = [saves EXCEPT ![p] = saves[p] + 1] /\ saves[p] + 1 = 1
    BY <1>2, <2>2
  <2> QED
    BY <2>2, <2>3
<1>5. presence[p] = "LEFT_IN_ROOM"
  BY <1>1, <1>4 DEF Departed, SaveJobs
<1>6. presence'[p] = "LEFT_IN_ROOM"
  BY <1>5, RoomEffect
<1>7. UserOfPlayer(p) \in Users
  BY <1>5, WorldAssumption DEF Owners, PlayerOwned, UserOfPlayer, Typed, TypeOK, RoomsTypeOK
<1>8. PICK job \in DbJob : job = [kind |-> "save", player |-> p]
  BY DEF DbJob, SaveJob
<1>9. PICK n \in Nat \ {0} : Moved(UserOfPlayer(p), 0, n, job)
  BY <1>1, <1>7, <1>8, AppendMoves DEF SaveLeftPlayer
<1> QED
  BY <1>4, <1>5, <1>6, <1>7, <1>8, <1>9

LEMMA RoomSaveJobs ==
  ASSUME Typed, Typed', Custody, Custody', SaveJobs, Owners, NEW r \in Rooms, RunRoom(r)
  PROVE  SaveJobs'
<1>1. /\ owner' = owner
      /\ \A p \in Players : \/ presence'[p] = presence[p]
                            \/ presence[p] = "LOADED" /\ presence'[p] = "IN_ROOM"
  BY RoomEffect
<1>2. CASE NoSave
  BY <1>1, <1>2, SameShift, ShiftedSaveJobs DEF Departed
<1>3. CASE ~NoSave
  <2>1. PICK p \in Players, n \in Nat \ {0}, job \in DbJob :
              /\ saves[p] = 0 /\ saves' = [saves EXCEPT ![p] = 1]
              /\ presence[p] = "LEFT_IN_ROOM" /\ presence'[p] = "LEFT_IN_ROOM"
              /\ UserOfPlayer(p) \in Users
              /\ job.kind = "save" /\ job.player = p
              /\ Moved(UserOfPlayer(p), 0, n, job)
    BY <1>3, RoomSaves
  <2> DEFINE u == UserOfPlayer(p)
  <2>2. \A v \in Users : \A i \in Nat : ~SaveAt(v, i, p)
    BY <2>1 DEF SaveJobs
  <2>3. ASSUME NEW v \in Users, NEW q \in Players, NEW i \in Nat, SaveAt(v, i, q)'
        PROVE  \/ q = p /\ v = u /\ i = n /\ dbJobs'[v][i].kind = "save"
               \/ q # p /\ SaveAt(v, i, q) /\ dbJobs'[v][i] = dbJobs[v][i]
    <3>1. CASE v = u /\ i = n
      BY <2>1, <2>3, <3>1 DEF Moved, SaveAt
    <3>2. CASE ~(v = u /\ i = n)
      <4>1. SaveAt(v, i, q) /\ dbJobs'[v][i] = dbJobs[v][i]
        BY <2>1, <2>3, <3>2 DEF Moved, SaveAt
      <4> QED
        BY <2>2, <4>1
    <3> QED
      BY <3>1, <3>2
  <2>4. ASSUME NEW v \in Users, NEW q \in Players, NEW i \in Nat, SaveAt(v, i, q)'
        PROVE  /\ UserOfPlayer(q)' = v /\ saves'[q] = 1
               /\ presence'[q] = IF dbJobs'[v][i].kind = "save" THEN "LEFT_IN_ROOM" ELSE "SAVED"
               /\ \A j \in Nat : SaveAt(v, j, q)' => j = i
    <3>1. CASE q = p
      BY <1>1, <2>1, <2>3, <2>4, <3>1 DEF UserOfPlayer, Typed, TypeOK, RoomsTypeOK
    <3>2. CASE q # p
      <4>1. SaveAt(v, i, q) /\ dbJobs'[v][i] = dbJobs[v][i]
        BY <2>3, <2>4, <3>2
      <4>2. \A j \in Nat : SaveAt(v, j, q)' => SaveAt(v, j, q)
        BY <2>3, <3>2
      <4>3. presence'[q] = presence[q]
        BY <1>1, <4>1 DEF SaveJobs
      <4> QED
        BY <1>1, <2>1, <3>2, <4>1, <4>2, <4>3 DEF SaveJobs, UserOfPlayer, Typed, TypeOK, RoomsTypeOK
    <3> QED
      BY <3>1, <3>2
  <2>5. ASSUME NEW q \in Players, presence'[q] = "SAVED" PROVE saves'[q] = 1
    BY <1>1, <2>1, <2>5 DEF SaveJobs, Typed, TypeOK, RoomsTypeOK
  <2> QED
    BY <2>4, <2>5 DEF SaveJobs
<1> QED
  BY <1>2, <1>3

LEMMA NextSaveJobs ==
  ASSUME Typed, Typed', Custody, Custody', Requests, Owners, SaveJobs, [Next]_vars
  PROVE  SaveJobs'
<1>1. CASE \E u \in Users : MarkSaved(u)
  BY <1>1, MarkSavedJobs
<1>2. CASE \E r \in Rooms : RunRoom(r)
  BY <1>2, RoomSaveJobs
<1>3. CASE /\ ~\E u \in Users : MarkSaved(u)
           /\ ~\E r \in Rooms : RunRoom(r)
  <2>1. SavesShift
    BY <1>3, NextShift
  <2>2. \A p \in Players :
          /\ presence[p] # "NONE" => owner'[p] = owner[p]
          /\ \/ presence'[p] = presence[p]
             \/ presence[p] = "NONE" /\ presence'[p] = "LOADED"
             \/ presence'[p] = AfterDisconnect(presence[p])
    BY <1>3, PlayerStep
  <2>3. \A p \in Players : Departed(p) => owner'[p] = owner[p] /\ presence'[p] = presence[p]
    BY <2>2 DEF Departed, AfterDisconnect
  <2>4. \A p \in Players : presence'[p] = "SAVED" => presence[p] = "SAVED"
    BY <2>2 DEF AfterDisconnect
  <2>5. UNCHANGED saves
    BY <1>3, PlayerStep
  <2> QED
    BY <2>1, <2>3, <2>4, <2>5, ShiftedSaveJobs
<1> QED
  BY <1>1, <1>2, <1>3

(* The players of a step keep their owners; none begins to play.           *)
SteadyPlayers ==
  /\ UNCHANGED <<owner, player>>
  /\ \A p \in Players :
       /\ presence'[p] = "NONE" <=> presence[p] = "NONE"
       /\ Playing(p)' => Playing(p)
       /\ room[p] # NoRoom => room'[p] # NoRoom

LEMMA SteadyPlayersStay ==
  ASSUME Typed, Owners, SteadyPlayers
  PROVE  /\ \A p \in Players : PlayerOwned(p)'
         /\ \A s \in Sessions : PlaysOn(s)' => PlaysOn(s)
<1>1. ASSUME NEW p \in Players PROVE PlayerOwned(p)'
  BY DEF Owners, PlayerOwned, SteadyPlayers, Playing
<1>2. ASSUME NEW s \in Sessions, PlaysOn(s)' PROVE PlaysOn(s)
  BY <1>2 DEF PlaysOn, SteadyPlayers, Playing, Typed, TypeOK, NoPlayer
<1> QED
  BY <1>1, <1>2

SteadySession(s) ==
  /\ player'[s] = player[s] /\ phase'[s] = phase[s] /\ conn'[s] = conn[s]
  /\ \A role \in {"recv", "disc"} :
       pc'[<<role, s>>] = pc[<<role, s>>] /\ arg'[<<role, s>>] = arg[<<role, s>>]

LEMMA SteadySessionStays ==
  ASSUME Typed, Owners, NEW s \in Sessions, SteadySession(s), PlaysOn(s)' => PlaysOn(s),
         player[s] # NoPlayer => owner'[player[s]] = owner[player[s]]
  PROVE  SessionPlayer(s)'
<1>1. SessionPlayer(s)
  BY DEF Owners
<1> QED
  BY <1>1 DEF SessionPlayer, SteadySession

LEMMA SteadyThreadStays ==
  ASSUME Typed, Custody, Owners, NEW t \in Threads, pc'[t] = pc[t], arg'[t] = arg[t],
         \A p \in Players : presence[p] # "NONE" => owner'[p] = owner[p]
  PROVE  ThreadPlayer(t)'
<1>1. ThreadPlayer(t) /\ arg[t] \in Players \cup {NoPlayer}
  BY DEF Owners, Typed, TypeOK
<1>2. arg[t] # NoPlayer => presence[arg[t]] # "NONE"
  BY <1>1 DEF Custody, Unborn
<1> QED
  BY <1>1, <1>2 DEF ThreadPlayer, UserOfPlayer, ThreadUser

(* The player of a session is the account's.                               *)
LEMMA OwnPlayer ==
  ASSUME Typed, Owners, NEW s \in Sessions, player[s] # NoPlayer
  PROVE  /\ player[s] \in Players /\ owner[player[s]] = s
         /\ UserOfPlayer(player[s]) = UserOf[s]
  BY DEF Owners, SessionPlayer, UserOfPlayer, Typed, TypeOK

LEMMA InitOwners == Init => Owners
  BY WorldAssumption DEF Init, RoomsInit, Owners, PlayerOwned, SessionPlayer, ThreadPlayer,
     Playing, PlaysOn, Threads

(* A step of one session, its threads and its player reference: what is    *)
(* left to show is that session and the threads that moved.                *)
LEMMA OneSession ==
  ASSUME Typed, Custody, Owners, SteadyPlayers, NEW s \in Sessions,
         \A s2 \in Sessions \ {s} : SteadySession(s2),
         SessionPlayer(s)',
         \A t \in Threads : \/ pc'[t] = pc[t] /\ arg'[t] = arg[t]
                            \/ ThreadPlayer(t)',
         \A s2 \in Sessions : replaced'[s2] # NoSession => UserOf[replaced'[s2]] = UserOf[s2]
  PROVE  Owners'
<1>1. /\ \A p \in Players : PlayerOwned(p)'
      /\ \A s2 \in Sessions : PlaysOn(s2)' => PlaysOn(s2)
  BY SteadyPlayersStay
<1>2. \A s2 \in Sessions : SessionPlayer(s2)'
  BY <1>1, SteadySessionStays DEF SteadyPlayers
<1>3. \A t \in Threads : ThreadPlayer(t)'
  BY SteadyThreadStays DEF SteadyPlayers
<1> QED
  BY <1>1, <1>2, <1>3 DEF Owners

(* A step that changes neither players nor the references to them.         *)
LEMMA QuietOwners ==
  ASSUME Typed, Custody, Owners, SteadyPlayers, UNCHANGED <<pc, arg, replaced, conn>>,
         \A s \in Sessions : phase'[s] = phase[s]
  PROVE  Owners'
<1>1. /\ \A p \in Players : PlayerOwned(p)'
      /\ \A s2 \in Sessions : PlaysOn(s2)' => PlaysOn(s2)
  BY SteadyPlayersStay
<1>2. \A s \in Sessions : SessionPlayer(s)'
  BY <1>1, SteadySessionStays DEF SteadyPlayers, SteadySession
<1>3. \A t \in Threads : ThreadPlayer(t)'
  BY SteadyThreadStays DEF SteadyPlayers
<1> QED
  BY <1>1, <1>2, <1>3 DEF Owners

LEMMA SamePlayers ==
  ASSUME UNCHANGED <<playerVars, player>>
  PROVE  SteadyPlayers
  BY DEF SteadyPlayers, Playing

LEMMA HandleOwners ==
  ASSUME Typed, Custody, Requests, Owners, NEW s \in Sessions, Handle(s)
  PROVE  Owners'
<1>1. SteadyPlayers
  BY SamePlayers DEF Handle, HandleConnectLobby, HandleEnterGame, HandleInGame,
     HandleReturnToLobby, ReceiveInGame
<1>2. PlaysOn(s)' => PlaysOn(s)
  BY <1>1, SteadyPlayersStay
<1>3. SessionPlayer(s) /\ UNCHANGED <<replaced, conn, owner, player>>
  BY DEF Owners, Handle, HandleConnectLobby, HandleEnterGame, HandleInGame,
     HandleReturnToLobby, ReceiveInGame
<1>4. \A s2 \in Sessions : replaced'[s2] # NoSession => UserOf[replaced'[s2]] = UserOf[s2]
  BY <1>3 DEF Owners
<1>5. CASE HandleConnectLobby(s)
  <2>1. /\ phase[s] = "BEFORE_LOBBY" /\ phase'[s] = "CONNECTING_LOBBY" /\ UNCHANGED arg
        /\ pc'[<<"bind", s>>] = "register" /\ \A t \in Threads \ {<<"bind", s>>} : pc'[t] = pc[t]
        /\ \A s2 \in Sessions \ {s} : phase'[s2] = phase[s2]
    BY <1>5, ThreadNames DEF HandleConnectLobby, Receive, TryChangePhase, Goto, Typed, TypeOK
  <2>2. SessionPlayer(s)'
    BY <1>2, <1>3, <2>1, ThreadNames DEF SessionPlayer
  <2>3. ThreadPlayer(<<"bind", s>>)'
    BY <1>3, <2>1, ThreadNames DEF Owners, ThreadPlayer, UserOfPlayer, ThreadUser
  <2>4. \A s2 \in Sessions \ {s} : SteadySession(s2)
    BY <1>3, <2>1, ThreadNames DEF SteadySession
  <2> QED
    BY <1>1, <1>4, <2>1, <2>2, <2>3, <2>4, OneSession
<1>6. CASE HandleEnterGame(s)
  <2>1. /\ phase[s] = "LOBBY" /\ phase'[s] = "ENTERING_GAME" /\ UNCHANGED <<arg, pc>>
        /\ \A s2 \in Sessions \ {s} : phase'[s2] = phase[s2]
    BY <1>6 DEF HandleEnterGame, Receive, TryChangePhase, Typed, TypeOK
  <2>2. SessionPlayer(s)'
    BY <1>2, <1>3, <2>1 DEF SessionPlayer
  <2>3. \A s2 \in Sessions \ {s} : SteadySession(s2)
    BY <1>3, <2>1 DEF SteadySession
  <2> QED
    BY <1>1, <1>4, <2>1, <2>2, <2>3, OneSession
<1>7. ASSUME NEW packet \in Packets, HandleInGame(s, packet) PROVE Owners'
  BY <1>1, <1>7, QuietOwners DEF HandleInGame
<1>8. CASE HandleReturnToLobby(s)
  <2>1. /\ phase[s] = "IN_GAME" /\ phase'[s] = "RETURNING_TO_LOBBY"
        /\ player[s] # NoPlayer
        /\ pc'[<<"recv", s>>] = "hold" /\ arg'[<<"recv", s>>] = player[s]
        /\ \A t \in Threads \ {<<"recv", s>>} : pc'[t] = pc[t] /\ arg'[t] = arg[t]
        /\ \A s2 \in Sessions \ {s} : phase'[s2] = phase[s2]
    BY <1>8, ThreadNames DEF HandleReturnToLobby, ReceiveInGame, Receive, TryChangePhase, Goto,
       Typed, TypeOK
  <2>2. SessionPlayer(s)'
    BY <1>2, <1>3, <2>1, ThreadNames DEF SessionPlayer
  <2>3. ThreadPlayer(<<"recv", s>>)'
    BY <1>3, <2>1, ThreadNames, OwnPlayer DEF ThreadPlayer, UserOfPlayer, ThreadUser
  <2>4. \A s2 \in Sessions \ {s} : SteadySession(s2)
    BY <1>3, <2>1, ThreadNames DEF SteadySession
  <2> QED
    BY <1>1, <1>4, <2>1, <2>2, <2>3, <2>4, OneSession
<1> QED
  BY <1>5, <1>6, <1>7, <1>8 DEF Handle

LEMMA BindOwners ==
  ASSUME Typed, Custody, Registration, Requests, Owners, NEW s \in Sessions, BindStep(s)
  PROVE  Owners'
<1> DEFINE t == <<"bind", s>>
<1>1. SteadyPlayers /\ UNCHANGED <<conn, owner, player>>
  BY SamePlayers DEF BindStep, RejectLobbyConnect, RegisterUser, ReadReplaced, CheckPresence,
     KickReplaced, FinishLobbyConnect
<1>2. PlaysOn(s)' => PlaysOn(s)
  BY <1>1, SteadyPlayersStay
<1>3. /\ SessionPlayer(s) /\ ThreadPlayer(t) /\ t \in Threads
      /\ t[2] = s
      /\ \A s2 \in Sessions : <<"recv", s2>> # t /\ <<"disc", s2>> # t
  BY ThreadNames DEF Owners
<1>4. phase[s] = "CONNECTING_LOBBY" /\ player[s] = NoPlayer
  <2>1. pc[t] # "idle"
    BY DEF BindStep, RejectLobbyConnect, RegisterUser, ReadReplaced, CheckPresence,
       KickReplaced, FinishLobbyConnect
  <2> QED
    BY <1>3, <2>1 DEF Requests, SessionThreads, SessionPlayer
<1>5. /\ phase'[s] \in {"CONNECTING_LOBBY", "LOBBY"}
      /\ \A s2 \in Sessions \ {s} : phase'[s2] = phase[s2]
  BY <1>4 DEF BindStep, RejectLobbyConnect, RegisterUser, ReadReplaced, CheckPresence,
     KickReplaced, FinishLobbyConnect, TryChangePhase, Typed, TypeOK
<1>6. \A t2 \in Threads \ {t} : pc'[t2] = pc[t2] /\ arg'[t2] = arg[t2]
  BY <1>3 DEF BindStep, RejectLobbyConnect, RegisterUser, ReadReplaced, CheckPresence,
     KickReplaced, FinishLobbyConnect, Goto, Typed, TypeOK
<1>7. \A s2 \in Sessions \ {s} : SteadySession(s2)
  BY <1>1, <1>3, <1>5, <1>6, ThreadNames DEF SteadySession
<1>8. SessionPlayer(s)'
  BY <1>1, <1>2, <1>3, <1>4, <1>5, <1>6, ThreadNames DEF SessionPlayer
<1>9. ThreadPlayer(t)'
  <2>1. CASE RejectLobbyConnect(s) \/ RegisterUser(s) \/ FinishLobbyConnect(s)
    <3>1. UNCHANGED <<arg, owner>> /\ pc'[t] \in {"idle", "replace", "verify"}
      BY <1>3, <2>1 DEF RejectLobbyConnect, RegisterUser, FinishLobbyConnect, Goto, Typed, TypeOK
    <3> QED
      BY <1>3, <3>1 DEF ThreadPlayer, UserOfPlayer, ThreadUser
  <2>2. CASE ReadReplaced(s)
    <3>1. replaced[s] \in Sessions
      BY <2>2 DEF ReadReplaced, Typed, ThreadsOK
    <3>2. UserOf[replaced[s]] = UserOf[s]
      BY <3>1, WorldAssumption DEF Owners
    <3>3. /\ arg'[t] = player[replaced[s]]
          /\ pc'[t] = IF player[replaced[s]] = NoPlayer THEN "kick" ELSE "hold"
      BY <1>3, <2>2 DEF ReadReplaced, Goto, Typed, TypeOK
    <3>4. player[replaced[s]] # NoPlayer => UserOfPlayer(player[replaced[s]]) = UserOf[s]
      BY <3>1, <3>2, OwnPlayer
    <3> QED
      BY <1>1, <1>3, <3>3, <3>4 DEF ThreadPlayer, UserOfPlayer, ThreadUser
  <2>3. CASE CheckPresence(s)
    <3>1. /\ pc[t] = "check" /\ UNCHANGED <<arg, owner>>
      BY <2>3 DEF CheckPresence
    <3> QED
      BY <1>3, <3>1 DEF ThreadPlayer, UserOfPlayer, ThreadUser
  <2>4. CASE KickReplaced(s)
    <3>1. arg'[t] = NoPlayer /\ pc'[t] = "verify"
      BY <1>3, <2>4 DEF KickReplaced, Goto, Typed, TypeOK
    <3> QED
      BY <3>1 DEF ThreadPlayer
  <2> QED
    BY <2>1, <2>2, <2>3, <2>4 DEF BindStep
<1>10. ASSUME NEW s2 \in Sessions, replaced'[s2] # NoSession
       PROVE  UserOf[replaced'[s2]] = UserOf[s2]
  <2>1. replaced'[s2] = replaced[s2] \/ (s2 = s /\ replaced'[s] \in {registered[UserOf[s]], NoSession})
    BY DEF BindStep, RejectLobbyConnect, RegisterUser, ReadReplaced, CheckPresence,
       KickReplaced, FinishLobbyConnect, Typed, TypeOK
  <2>2. registered[UserOf[s]] # NoSession => UserOf[registered[UserOf[s]]] = UserOf[s]
    BY WorldAssumption DEF Registration
  <2> QED
    BY <1>10, <2>1, <2>2 DEF Owners
<1> QED
  BY <1>1, <1>6, <1>7, <1>8, <1>9, <1>10, OneSession

LEMMA ThreadOwners ==
  ASSUME Typed, Custody, Requests, Owners, NEW t \in Threads, ThreadStep(t)
  PROVE  Owners'
<1> DEFINE s == t[2]
<1>1. UNCHANGED <<conn, owner, player, phase, arg, replaced, room>>
  BY DEF ThreadStep, TakeHold, MarkDisconnected, PushLeave, DropHold
<1>2. \A t2 \in Threads \ {t} : pc'[t2] = pc[t2]
  BY DEF ThreadStep, TakeHold, MarkDisconnected, PushLeave, DropHold, Goto, Typed, TypeOK
<1>3. SteadyPlayers
  <2>1. CASE MarkDisconnected(t)
    BY <1>1, <2>1 DEF MarkDisconnected, AfterDisconnect, SteadyPlayers, Playing, Typed, TypeOK,
       RoomsTypeOK
  <2>2. CASE ~MarkDisconnected(t)
    <3>1. UNCHANGED <<playerVars, player>>
      BY <2>2 DEF ThreadStep, TakeHold, PushLeave, DropHold
    <3> QED
      BY <3>1, SamePlayers
  <2> QED
    BY <2>1, <2>2
<1>4. \A s2 \in Sessions : PlaysOn(s2)' => PlaysOn(s2)
  BY <1>3, SteadyPlayersStay
<1>5. s \in Sessions /\ t[1] \in {"bind", "recv", "disc"} /\ t = <<t[1], s>>
  BY ThreadNames
<1>6. SessionPlayer(s) /\ ThreadPlayer(t)
  BY <1>5 DEF Owners
<1>7. \A s2 \in Sessions \ {s} : SteadySession(s2)
  BY <1>1, <1>2, <1>5, ThreadNames DEF SteadySession
<1>8. ThreadPlayer(t)'
  <2>1. pc'[t] \in {"hold", "mark", "check", "release"} => arg[t] # NoPlayer
    <3>1. CASE TakeHold(t)
      BY <1>6, <3>1 DEF TakeHold, ThreadPlayer
    <3>2. CASE MarkDisconnected(t)
      BY <1>6, <3>2 DEF MarkDisconnected, ThreadPlayer
    <3>3. CASE PushLeave(t)
      BY <3>3 DEF PushLeave, Typed, ThreadsOK, Players, NoPlayer
    <3>4. CASE DropHold(t)
      BY <3>4 DEF DropHold, Goto, AfterLeaving, Typed, TypeOK
    <3> QED
      BY <3>1, <3>2, <3>3, <3>4 DEF ThreadStep
  <2> QED
    BY <1>1, <1>6, <2>1 DEF ThreadPlayer, UserOfPlayer, ThreadUser
<1>9. ASSUME t[1] \in {"recv", "disc"}, pc[t] \in {"hold", "mark"},
             pc'[t] \notin {"hold", "mark"}
      PROVE  ~PlaysOn(s)'
  <2>1. MarkDisconnected(t)
    BY <1>9 DEF ThreadStep, TakeHold, PushLeave, DropHold, Goto, Typed, TypeOK
  <2>2. arg[t] = player[s]
    BY <1>5, <1>6, <1>9 DEF SessionPlayer
  <2>3. arg[t] \in Players /\ presence'[arg[t]] = AfterDisconnect(presence[arg[t]])
    BY <2>1 DEF MarkDisconnected, Typed, TypeOK, RoomsTypeOK, ThreadsOK
  <2> QED
    BY <1>1, <2>2, <2>3 DEF PlaysOn, Playing, AfterDisconnect
<1>10. pc[t] # "read" /\ (pc'[t] \in {"hold", "mark"} => pc[t] \in {"hold", "mark"})
  BY DEF ThreadStep, TakeHold, MarkDisconnected, PushLeave, DropHold, Goto, AfterLeaving,
     Typed, TypeOK
<1>11. SessionPlayer(s)'
  <2>1. CASE t[1] = "bind"
    <3>1. \A role \in {"recv", "disc"} :
            <<role, s>> \in Threads \ {t} /\ pc'[<<role, s>>] = pc[<<role, s>>]
      BY <1>2, <1>5, <2>1, ThreadNames
    <3>2. SteadySession(s)
      BY <1>1, <3>1 DEF SteadySession
    <3> HIDE DEF s
    <3> QED
      BY <1>1, <1>4, <1>5, <3>2, SteadySessionStays
  <2>2. CASE t[1] = "recv"
    BY <1>1, <1>2, <1>4, <1>5, <1>6, <1>9, <1>10, <2>2, ThreadNames DEF SessionPlayer
  <2>3. CASE t[1] = "disc"
    BY <1>1, <1>2, <1>4, <1>5, <1>6, <1>9, <1>10, <2>3, ThreadNames DEF SessionPlayer
  <2> QED
    BY <1>5, <2>1, <2>2, <2>3
<1>12. \A s2 \in Sessions : replaced'[s2] # NoSession => UserOf[replaced'[s2]] = UserOf[s2]
  BY <1>1 DEF Owners
<1>13. \A t2 \in Threads : \/ pc'[t2] = pc[t2] /\ arg'[t2] = arg[t2]
                           \/ ThreadPlayer(t2)'
  BY <1>1, <1>2, <1>8
<1> QED
  BY <1>3, <1>5, <1>7, <1>11, <1>12, <1>13, OneSession

LEMMA SessionOwners ==
  ASSUME Typed, Custody, Requests, Owners, NEW s \in Sessions,
         Disconnect(s) \/ DiscStep(s) \/ ParkReturn(s)
  PROVE  Owners'
<1>1. SteadyPlayers /\ UNCHANGED <<owner, player, phase, replaced>>
  BY SamePlayers DEF Disconnect, DiscStep, ReadPlayer, UnregisterUser, ParkReturn
<1>2. PlaysOn(s)' => PlaysOn(s)
  BY <1>1, SteadyPlayersStay
<1>3. SessionPlayer(s) /\ \A t \in Threads : ThreadPlayer(t)
  BY DEF Owners
<1>4. \A s2 \in Sessions : replaced'[s2] # NoSession => UserOf[replaced'[s2]] = UserOf[s2]
  BY <1>1 DEF Owners
<1>5. CASE Disconnect(s)
  <2>1. /\ pc'[<<"disc", s>>] = "read" /\ UNCHANGED arg
        /\ \A t \in Threads \ {<<"disc", s>>} : pc'[t] = pc[t]
        /\ \A s2 \in Sessions \ {s} : conn'[s2] = conn[s2]
    BY <1>5, ThreadNames DEF Disconnect, Goto, Typed, TypeOK
  <2>2. SessionPlayer(s)'
    BY <1>1, <1>2, <1>3, <2>1, ThreadNames DEF SessionPlayer
  <2>3. ThreadPlayer(<<"disc", s>>)'
    BY <1>1, <1>3, <2>1, ThreadNames DEF ThreadPlayer, UserOfPlayer, ThreadUser
  <2>4. \A s2 \in Sessions \ {s} : SteadySession(s2)
    BY <1>1, <2>1, ThreadNames DEF SteadySession
  <2> QED
    BY <1>1, <1>4, <2>1, <2>2, <2>3, <2>4, OneSession
<1>6. CASE ReadPlayer(s)
  <2>1. /\ arg'[<<"disc", s>>] = player[s] /\ UNCHANGED conn
        /\ pc'[<<"disc", s>>] = IF player[s] = NoPlayer THEN "unregister" ELSE "hold"
        /\ \A t \in Threads \ {<<"disc", s>>} : pc'[t] = pc[t] /\ arg'[t] = arg[t]
    BY <1>6, ThreadNames DEF ReadPlayer, Goto, Typed, TypeOK
  <2>2. SessionPlayer(s)'
    BY <1>1, <1>2, <1>3, <2>1, ThreadNames DEF SessionPlayer, PlaysOn
  <2>3. ThreadPlayer(<<"disc", s>>)'
    BY <1>1, <1>3, <2>1, ThreadNames, OwnPlayer DEF ThreadPlayer, UserOfPlayer, ThreadUser
  <2>4. \A s2 \in Sessions \ {s} : SteadySession(s2)
    BY <1>1, <2>1, ThreadNames DEF SteadySession
  <2> QED
    BY <1>1, <1>4, <2>1, <2>2, <2>3, <2>4, OneSession
<1>7. CASE UnregisterUser(s)
  <2>1. /\ arg'[<<"disc", s>>] = NoPlayer /\ UNCHANGED conn
        /\ pc[<<"disc", s>>] = "unregister" /\ pc'[<<"disc", s>>] = "idle"
        /\ \A t \in Threads \ {<<"disc", s>>} : pc'[t] = pc[t] /\ arg'[t] = arg[t]
    BY <1>7, ThreadNames DEF UnregisterUser, Goto, Typed, TypeOK
  <2>2. SessionPlayer(s)'
    BY <1>1, <1>2, <1>3, <2>1, ThreadNames DEF SessionPlayer
  <2>3. ThreadPlayer(<<"disc", s>>)'
    BY <2>1 DEF ThreadPlayer
  <2>4. \A s2 \in Sessions \ {s} : SteadySession(s2)
    BY <1>1, <2>1, ThreadNames DEF SteadySession
  <2> QED
    BY <1>1, <1>4, <2>1, <2>2, <2>3, <2>4, OneSession
<1>8. CASE ParkReturn(s)
  <2>1. /\ arg'[<<"recv", s>>] = NoPlayer /\ UNCHANGED conn
        /\ pc[<<"recv", s>>] = "park" /\ pc'[<<"recv", s>>] = "idle"
        /\ \A t \in Threads \ {<<"recv", s>>} : pc'[t] = pc[t] /\ arg'[t] = arg[t]
    BY <1>8, ThreadNames DEF ParkReturn, Goto, Typed, TypeOK
  <2>2. SessionPlayer(s)'
    BY <1>1, <1>2, <1>3, <2>1, ThreadNames DEF SessionPlayer
  <2>3. ThreadPlayer(<<"recv", s>>)'
    BY <2>1 DEF ThreadPlayer
  <2>4. \A s2 \in Sessions \ {s} : SteadySession(s2)
    BY <1>1, <2>1, ThreadNames DEF SteadySession
  <2> QED
    BY <1>1, <1>4, <2>1, <2>2, <2>3, <2>4, OneSession
<1> QED
  BY <1>5, <1>6, <1>7, <1>8 DEF DiscStep

(* A step that ends an entry of s, or leaves it as it is.                  *)
LEMMA EntryEndsOwners ==
  ASSUME Typed, Custody, Owners, SteadyPlayers, UNCHANGED <<pc, arg, replaced, conn>>,
         NEW s \in Sessions, phase[s] = "ENTERING_GAME",
         phase'[s] \in {"ENTERING_GAME", "LOBBY"},
         \A s2 \in Sessions \ {s} : phase'[s2] = phase[s2]
  PROVE  Owners'
<1>1. SessionPlayer(s) /\ \A s2 \in Sessions : PlaysOn(s2)' => PlaysOn(s2)
  BY SteadyPlayersStay DEF Owners
<1>2. SessionPlayer(s)'
  BY <1>1 DEF SessionPlayer, SteadyPlayers
<1>3. \A s2 \in Sessions \ {s} : SteadySession(s2)
  BY DEF SteadySession, SteadyPlayers
<1>4. \A s2 \in Sessions : replaced'[s2] # NoSession => UserOf[replaced'[s2]] = UserOf[s2]
  BY DEF Owners
<1>5. \A t \in Threads : pc'[t] = pc[t] /\ arg'[t] = arg[t]
  OBVIOUS
<1> QED
  BY <1>2, <1>3, <1>4, <1>5, OneSession

LEMMA EnterOwners ==
  ASSUME Typed, Typed', Custody, Requests, Owners, NEW u \in Users, Enter(u)
  PROVE  Owners'
<1>1. PICK s \in Sessions : s = Head(dbJobs[u]).session
  BY HeadRequest DEF Enter, EntryKinds
<1>2. phase[s] = "ENTERING_GAME" /\ conn[s]
  BY <1>1, HeadRequest DEF Enter, EntryKinds, Asks
<1>3. UNCHANGED <<pc, arg, replaced, conn>>
  BY DEF Enter
<1>4. CASE CancelGameEntry(s) /\ UNCHANGED <<playerVars, player>>
  <2>1. /\ phase'[s] \in {"ENTERING_GAME", "LOBBY"}
        /\ \A s2 \in Sessions \ {s} : phase'[s2] = phase[s2]
    BY <1>2, <1>4 DEF CancelGameEntry, TryChangePhase, Typed, TypeOK
  <2> QED
    BY <1>2, <1>3, <1>4, <2>1, SamePlayers, EntryEndsOwners
<1>5. CASE \E p \in Players, r \in Rooms :
             /\ presence[p] = "NONE" /\ player[s] = NoPlayer
             /\ presence' = [presence EXCEPT ![p] = "LOADED"]
             /\ owner' = [owner EXCEPT ![p] = s]
             /\ room' = [room EXCEPT ![p] = r]
             /\ player' = [player EXCEPT ![s] = p]
             /\ TryChangePhase(s, "ENTERING_GAME", "IN_GAME")
  <2>1. PICK p \in Players, r \in Rooms :
             /\ presence[p] = "NONE" /\ player[s] = NoPlayer
             /\ presence' = [presence EXCEPT ![p] = "LOADED"]
             /\ owner' = [owner EXCEPT ![p] = s]
             /\ room' = [room EXCEPT ![p] = r]
             /\ player' = [player EXCEPT ![s] = p]
             /\ TryChangePhase(s, "ENTERING_GAME", "IN_GAME")
    BY <1>5
  <2>2. /\ presence'[p] = "LOADED" /\ owner'[p] = s /\ room'[p] = r /\ player'[s] = p
        /\ phase'[s] = "IN_GAME"
        /\ \A q \in Players \ {p} : presence'[q] = presence[q] /\ owner'[q] = owner[q]
                                    /\ room'[q] = room[q]
        /\ \A s2 \in Sessions \ {s} : player'[s2] = player[s2] /\ phase'[s2] = phase[s2]
    BY <1>2, <2>1 DEF TryChangePhase, Typed, TypeOK, RoomsTypeOK
  <2>3. /\ \A s2 \in Sessions : player[s2] # p
        /\ p # NoPlayer /\ s # NoSession /\ r # NoRoom
    BY <2>1, WorldAssumption DEF Custody, Unborn, Players, NoPlayer
  <2>4. ASSUME NEW q \in Players PROVE PlayerOwned(q)'
    <3>1. CASE q = p
      BY <2>2, <2>3, <3>1 DEF PlayerOwned
    <3>2. CASE q # p
      <4>1. PlayerOwned(q) /\ (presence[q] # "NONE" => owner[q] \in Sessions)
        BY DEF Owners, PlayerOwned, Typed, TypeOK, RoomsTypeOK
      <4>2. Playing(q) => owner[q] # s
        BY <2>1, <4>1 DEF PlayerOwned, Players, NoPlayer
      <4> QED
        BY <2>2, <3>2, <4>1, <4>2 DEF PlayerOwned, Playing
    <3> QED
      BY <3>1, <3>2
  <2>5. SessionPlayer(s)'
    <3>1. pc[<<"recv", s>>] = "idle" /\ pc[<<"disc", s>>] = "idle"
      BY <1>2 DEF Requests, SessionThreads
    <3> QED
      BY <1>2, <1>3, <2>2, <2>3, <3>1 DEF SessionPlayer
  <2>6. ASSUME NEW s2 \in Sessions \ {s} PROVE SessionPlayer(s2)'
    <3>1. SteadySession(s2)
      BY <1>3, <2>2 DEF SteadySession
    <3>2. player[s2] # NoPlayer => player[s2] \in Players \ {p}
      BY <2>3 DEF Typed, TypeOK
    <3>3. PlaysOn(s2)' => PlaysOn(s2)
      BY <2>2, <3>2 DEF PlaysOn, Playing
    <3> QED
      BY <2>2, <3>1, <3>2, <3>3, SteadySessionStays
  <2>7. \A t \in Threads : ThreadPlayer(t)'
    BY <1>3, <2>1, <2>2, SteadyThreadStays
  <2>8. \A s2 \in Sessions : replaced'[s2] # NoSession => UserOf[replaced'[s2]] = UserOf[s2]
    BY <1>3 DEF Owners
  <2> QED
    BY <2>4, <2>5, <2>6, <2>7, <2>8 DEF Owners
<1> QED
  BY <1>1, <1>4, <1>5 DEF Enter

LEMMA ReturnOwners ==
  ASSUME Typed, Typed', Custody, Requests, Owners, NEW u \in Users, AcceptReturn(u)
  PROVE  Owners'
<1>1. PICK s \in Sessions : s = Head(dbJobs[u]).session
  BY HeadRequest DEF AcceptReturn, EntryKinds
<1>2. phase[s] = "RETURNING_TO_LOBBY" /\ pc[<<"recv", s>>] = "idle"
  BY <1>1, HeadRequest DEF AcceptReturn, EntryKinds, Asks
<1>3. UNCHANGED <<pc, arg, replaced, conn, playerVars>>
  BY DEF AcceptReturn
<1>4. CASE UNCHANGED <<phase, player>>
  BY <1>3, <1>4, SamePlayers, QuietOwners
<1>5. CASE /\ conn[s] /\ player' = [player EXCEPT ![s] = NoPlayer]
           /\ TryChangePhase(s, "RETURNING_TO_LOBBY", "LOBBY")
  <2>1. /\ player'[s] = NoPlayer /\ phase'[s] = "LOBBY"
        /\ \A s2 \in Sessions \ {s} : player'[s2] = player[s2] /\ phase'[s2] = phase[s2]
    BY <1>2, <1>5 DEF TryChangePhase, Typed, TypeOK
  <2>2. ~PlaysOn(s) /\ pc[<<"disc", s>>] = "idle"
    BY <1>2, <1>5 DEF Owners, SessionPlayer, Requests, SessionThreads
  <2>3. ASSUME NEW q \in Players PROVE PlayerOwned(q)'
    <3>1. PlayerOwned(q) /\ (presence[q] # "NONE" => owner[q] \in Sessions)
      BY DEF Owners, PlayerOwned, Typed, TypeOK, RoomsTypeOK
    <3>2. Playing(q) => owner[q] # s
      BY <2>2, <3>1 DEF PlayerOwned, PlaysOn, Players, NoPlayer
    <3> QED
      BY <1>3, <2>1, <3>1, <3>2 DEF PlayerOwned, Playing
  <2>4. SessionPlayer(s)'
    BY <1>2, <1>3, <2>1, <2>2 DEF SessionPlayer, PlaysOn
  <2>5. ASSUME NEW s2 \in Sessions \ {s} PROVE SessionPlayer(s2)'
    <3>1. SteadySession(s2)
      BY <1>3, <2>1 DEF SteadySession
    <3>2. PlaysOn(s2)' => PlaysOn(s2)
      BY <1>3, <2>1 DEF PlaysOn, Playing
    <3> QED
      BY <1>3, <3>1, <3>2, SteadySessionStays
  <2>6. \A t \in Threads : ThreadPlayer(t)'
    BY <1>3, SteadyThreadStays
  <2>7. \A s2 \in Sessions : replaced'[s2] # NoSession => UserOf[replaced'[s2]] = UserOf[s2]
    BY <1>3 DEF Owners
  <2> QED
    BY <2>3, <2>4, <2>5, <2>6, <2>7 DEF Owners
<1> QED
  BY <1>1, <1>4, <1>5 DEF AcceptReturn

LEMMA DbOwners ==
  ASSUME Typed, Typed', Custody, Requests, SaveJobs, Owners, NEW u \in Users, DbStep(u)
  PROVE  Owners'
<1>1. CASE SelectCharacter(u)
  <2>1. PICK s \in Sessions : s = Head(dbJobs[u]).session
    BY <1>1, HeadRequest DEF SelectCharacter, EntryKinds
  <2>2. phase[s] = "ENTERING_GAME"
    BY <1>1, <2>1, HeadRequest DEF SelectCharacter, EntryKinds, Asks
  <2>3. phase' = phase \/ CancelGameEntry(s)
    BY <1>1, <2>1 DEF SelectCharacter
  <2>4. /\ phase'[s] \in {"ENTERING_GAME", "LOBBY"}
        /\ \A s2 \in Sessions \ {s} : phase'[s2] = phase[s2]
    BY <2>2, <2>3 DEF CancelGameEntry, TryChangePhase, Typed, TypeOK
  <2>5. UNCHANGED <<pc, arg, replaced, conn>> /\ SteadyPlayers
    BY <1>1, SamePlayers DEF SelectCharacter
  <2> QED
    BY <2>2, <2>4, <2>5, EntryEndsOwners
<1>2. CASE CheckConnected(u) \/ ReleaseSaved(u)
  BY <1>2, SamePlayers, QuietOwners DEF CheckConnected, ReleaseSaved
<1>3. CASE MarkSaved(u)
  <2>1. PICK p \in Players : presence[p] = "LEFT_IN_ROOM" /\ presence' = [presence EXCEPT ![p] = "SAVED"]
    BY <1>3, MarkSavedJobs
  <2>2. SteadyPlayers
    BY <1>3, <2>1 DEF MarkSaved, SteadyPlayers, Playing, Typed, TypeOK, RoomsTypeOK
  <2> QED
    BY <1>3, <2>2, QuietOwners DEF MarkSaved
<1> QED
  BY <1>1, <1>2, <1>3, EnterOwners, ReturnOwners DEF DbStep

LEMMA TimerOwners ==
  ASSUME Typed, Custody, Requests, Owners, NEW timer \in timers, ExpireTimer(timer)
  PROVE  Owners'
<1>1. timer.user \in Users /\ timer.session \in Sessions
  BY DEF Typed, TypeOK, Timer
<1>2. UNCHANGED <<pc, arg, replaced, conn>> /\ SteadyPlayers
  BY SamePlayers DEF ExpireTimer
<1>3. CASE ~Expires(timer.user, timer.token)
  BY <1>2, <1>3, QuietOwners DEF ExpireTimer
<1>4. CASE Expires(timer.user, timer.token)
  <2>1. phase[timer.session] = "ENTERING_GAME"
    <3>1. parked[timer.user].kind = "load" /\ parked[timer.user].session = timer.session
      BY <1>1, <1>4 DEF Expires, Requests, TimerRequest
    <3>2. ParkedRequest(timer.user) /\ parked[timer.user] # NoLoad
      BY <1>1, <1>4 DEF Expires, Requests
    <3> QED
      BY <3>1, <3>2 DEF ParkedRequest, Asks
  <2>2. /\ phase'[timer.session] \in {"ENTERING_GAME", "LOBBY"}
        /\ \A s2 \in Sessions \ {timer.session} : phase'[s2] = phase[s2]
    BY <1>1, <1>4, <2>1 DEF ExpireTimer, CancelGameEntry, TryChangePhase, Typed, TypeOK
  <2> QED
    BY <1>1, <1>2, <2>1, <2>2, EntryEndsOwners
<1> QED
  BY <1>3, <1>4

LEMMA RoomOwners ==
  ASSUME Typed, Typed', Custody, Owners, NEW r \in Rooms, RunRoom(r)
  PROVE  Owners'
<1>1. SteadyPlayers
  BY RoomEffect DEF RunRoom, SteadyPlayers, Playing
<1> QED
  BY <1>1, QuietOwners DEF RunRoom

LEMMA NextOwners ==
  ASSUME Typed, Typed', Custody, Registration, Requests, SaveJobs, Owners, [Next]_vars
  PROVE  Owners'
<1>1. ASSUME NEW s \in Sessions,
             Handle(s) \/ Disconnect(s) \/ BindStep(s) \/ DiscStep(s) \/ ParkReturn(s)
      PROVE  Owners'
  BY <1>1, HandleOwners, BindOwners, SessionOwners
<1>2. CASE UNCHANGED vars
  BY <1>2, SamePlayers, QuietOwners
<1> QED
  BY <1>1, <1>2, ThreadOwners, DbOwners, TimerOwners, RoomOwners DEF Next, ServerStep

-----------------------------------------------------------------------------
(* Holds, with the windows closed.  Whatever is lent is held, or the        *)
(* session it is lent to is the registered one, or the connection that      *)
(* replaced that session is on its way to hold it.                         *)

Lent(p) == presence[p] \in {"LOADED", "IN_ROOM", "LEFT_IN_ROOM"}

(* The labels from the hold of a thread to the end of its use of it.       *)
Holding == {"mark", "check", "release"}

(* The account is held for p, and no thread will release it meanwhile.     *)
Covered(p) ==
  /\ UserOfPlayer(p) \in held
  /\ \A t \in Threads :
       ThreadUser(t) = UserOfPlayer(p) /\ pc[t] \in Holding => arg[t] = p

(* The lobby connection that replaced s will hold the account for p.       *)
WillHold(s, p) ==
  \E other \in Sessions :
    /\ replaced[other] = s
    /\ \/ pc[<<"bind", other>>] = "replace"
       \/ pc[<<"bind", other>>] = "hold" /\ arg[<<"bind", other>>] = p

(* The session of p is the account's, or the one that replaced it knows.   *)
Attended(p) == registered[UserOfPlayer(p)] = owner[p] \/ WillHold(owner[p], p)

NobodyLent(u) == \A p \in Players : Lent(p) => UserOfPlayer(p) # u

PlayerHeld(p) ==
  /\ presence[p] = "LEFT_IN_ROOM" => Covered(p)
  /\ Playing(p) => Attended(p) \/ Covered(p)
  /\ \A q \in Players : Lent(p) /\ Lent(q) /\ UserOfPlayer(p) = UserOfPlayer(q) => p = q

ThreadHolds(t) ==
  /\ pc[t] = "release" => ~Lent(arg[t])
  /\ pc[t] \in {"mark", "check"} /\ Lent(arg[t]) => Covered(arg[t])

SessionRegistered(s) ==
  /\ conn[s] /\ phase[s] = "ENTERING_GAME" => registered[UserOf[s]] = s
  /\ pc[<<"bind", s>>] \in {"replace", "hold"} =>
       registered[UserOf[s]] \in {s, NoSession}

LoadAsked(u) ==
  \E s \in Sessions : \E i \in Nat :
    Request(u, i, s) /\ conn[s] /\ dbJobs[u][i].kind \in {"load", "loading"}

SavedRuns(u) ==
  \E p \in Players : \E i \in Nat : SaveAt(u, i, p) /\ dbJobs[u][i].kind = "saved"

Holds ==
  /\ \A p \in Players : PlayerHeld(p)
  /\ \A t \in Threads : ThreadHolds(t)
  /\ \A s \in Sessions : SessionRegistered(s)
  /\ \A u \in Users : LoadAsked(u) \/ SavedRuns(u) => NobodyLent(u)

LEMMA InitHolds == Init => Holds
  BY DEF Init, RoomsInit, Holds, PlayerHeld, Playing, Lent, ThreadHolds, SessionRegistered,
     NobodyLent, Threads

(* Players of a step: nobody new is lent anything, and who leaves was held. *)
SteadyLoans ==
  \A p \in Players : Lent(p)' =>
    /\ Lent(p) /\ owner'[p] = owner[p]
    /\ Playing(p)' => Playing(p)
    /\ presence'[p] = "LEFT_IN_ROOM" => presence[p] = "LEFT_IN_ROOM" \/ Covered(p)

LEMMA UnchangedLoans == ASSUME UNCHANGED <<presence, owner>> PROVE SteadyLoans
  BY DEF SteadyLoans, Lent, Playing

(* What a step has to show, when nobody new is lent anything.              *)
LEMMA HoldsStep ==
  ASSUME Typed, Holds, SteadyLoans,
         \A p \in Players : Lent(p)' /\ Covered(p) => Covered(p)',
         \A p \in Players : Playing(p)' /\ Playing(p) /\ Attended(p) => Attended(p)' \/ Covered(p)',
         \A t \in Threads : ThreadHolds(t)',
         \A s \in Sessions : SessionRegistered(s)',
         \A u \in Users : LoadAsked(u)' \/ SavedRuns(u)' =>
           LoadAsked(u) \/ SavedRuns(u) \/ NobodyLent(u)'
  PROVE  Holds'
<1>1. \A p \in Players : Playing(p)' => Lent(p)'
  BY DEF Playing, Lent
<1>2. ASSUME NEW p \in Players PROVE PlayerHeld(p)'
  <2>1. ASSUME presence'[p] = "LEFT_IN_ROOM" PROVE Covered(p)'
    <3>1. Lent(p)'
      BY <2>1 DEF Lent
    <3> QED
      BY <2>1, <3>1 DEF Holds, PlayerHeld, SteadyLoans
  <2>2. ASSUME Playing(p)' PROVE Attended(p)' \/ Covered(p)'
    <3>1. Lent(p)' /\ Playing(p)
      BY <1>1, <2>2 DEF SteadyLoans
    <3> QED
      BY <2>2, <3>1 DEF Holds, PlayerHeld
  <2>3. ASSUME NEW q \in Players, Lent(p)', Lent(q)', UserOfPlayer(p)' = UserOfPlayer(q)'
        PROVE  p = q
    <3>1. Lent(p) /\ Lent(q) /\ UserOfPlayer(p) = UserOfPlayer(q)
      BY <2>3 DEF SteadyLoans, UserOfPlayer
    <3> QED
      BY <3>1 DEF Holds, PlayerHeld
  <2> QED
    BY <2>1, <2>2, <2>3 DEF PlayerHeld
<1>3. \A u \in Users : NobodyLent(u) => NobodyLent(u)'
  BY DEF NobodyLent, SteadyLoans, UserOfPlayer
<1> QED
  BY <1>2, <1>3 DEF Holds

(* Threads of a step: nobody new has the account held.                     *)
SteadyHolders ==
  \A t \in Threads : pc'[t] \in Holding =>
    /\ pc[t] \in Holding /\ arg'[t] = arg[t]
    /\ pc'[t] = pc[t] \/ (pc'[t] = "release" /\ ~Lent(arg[t])')

LEMMA HoldersStay ==
  ASSUME Typed, Owners, Holds, SteadyLoans, SteadyHolders,
         \A p \in Players : Lent(p)' /\ Covered(p) => UserOfPlayer(p) \in held'
  PROVE  /\ \A p \in Players : Lent(p)' /\ Covered(p) => Covered(p)'
         /\ \A t \in Threads : ThreadHolds(t)'
<1>1. ASSUME NEW p \in Players, Lent(p)', Covered(p) PROVE Covered(p)'
  <2>1. UserOfPlayer(p)' = UserOfPlayer(p)
    BY <1>1 DEF SteadyLoans, UserOfPlayer
  <2> QED
    BY <1>1, <2>1 DEF Covered, SteadyHolders, ThreadUser
<1>2. ASSUME NEW t \in Threads PROVE ThreadHolds(t)'
  <2>1. CASE pc'[t] \notin Holding
    BY <2>1 DEF ThreadHolds, Holding
  <2>2. CASE pc'[t] \in Holding
    <3>1. arg[t] \in Players /\ arg'[t] = arg[t] /\ pc[t] \in Holding
      BY <2>2 DEF SteadyHolders, Holding, Owners, ThreadPlayer, Typed, TypeOK
    <3>2. Lent(arg[t])' => Lent(arg[t])
      <4>1. PICK p \in Players : p = arg[t]
        BY <3>1
      <4>2. Lent(p)' => Lent(p)
        BY DEF SteadyLoans
      <4> QED
        BY <3>1, <4>1, <4>2 DEF Lent
    <3>3. ASSUME pc'[t] = "release" PROVE ~Lent(arg[t])'
      BY <3>1, <3>2, <2>2, <3>3 DEF SteadyHolders, Holds, ThreadHolds
    <3>4. ASSUME pc'[t] \in {"mark", "check"}, Lent(arg[t])' PROVE Covered(arg[t])'
      <4>1. pc'[t] = pc[t]
        BY <2>2, <3>4 DEF SteadyHolders
      <4>2. Covered(arg[t])
        BY <3>2, <3>4, <4>1 DEF Holds, ThreadHolds
      <4>3. PICK p \in Players : p = arg[t]
        BY <3>1
      <4>4. Lent(p)' /\ Covered(p)
        BY <3>1, <3>4, <4>2, <4>3 DEF Lent
      <4>5. Covered(p)'
        BY <1>1, <4>4
      <4> QED
        BY <3>1, <4>3, <4>5 DEF Covered, UserOfPlayer
    <3> QED
      BY <3>3, <3>4 DEF ThreadHolds
  <2> QED
    BY <2>1, <2>2
<1> QED
  BY <1>1, <1>2

(* Sessions of a step: registrations and replacements under way stay.      *)
SteadyBinds ==
  /\ UNCHANGED registered
  /\ \A s \in Sessions : pc[<<"bind", s>>] \in {"replace", "hold"} =>
       /\ pc'[<<"bind", s>>] = pc[<<"bind", s>>] /\ arg'[<<"bind", s>>] = arg[<<"bind", s>>]
       /\ replaced'[s] = replaced[s]

LEMMA BindsStay ==
  ASSUME SteadyLoans, SteadyBinds
  PROVE  \A p \in Players : Playing(p)' /\ Playing(p) /\ Attended(p) => Attended(p)' \/ Covered(p)'
<1> SUFFICES ASSUME NEW p \in Players, Playing(p)', Attended(p) PROVE Attended(p)'
  OBVIOUS
<1>1. owner'[p] = owner[p]
  BY DEF SteadyLoans, Playing, Lent
<1>2. CASE registered[UserOfPlayer(p)] = owner[p]
  BY <1>1, <1>2 DEF Attended, SteadyBinds, UserOfPlayer
<1>3. CASE WillHold(owner[p], p)
  <2>1. WillHold(owner[p], p)'
    BY <1>1, <1>3 DEF WillHold, SteadyBinds
  <2> QED
    BY <2>1 DEF Attended
<1> QED
  BY <1>2, <1>3 DEF Attended

(* No new session claims a registration.                                   *)
SteadySessions ==
  \A s \in Sessions :
    /\ conn'[s] /\ phase'[s] = "ENTERING_GAME" =>
         registered[UserOf[s]] = s \/ (conn[s] /\ phase[s] = "ENTERING_GAME")
    /\ pc'[<<"bind", s>>] \in {"replace", "hold"} => pc[<<"bind", s>>] \in {"replace", "hold"}

LEMMA SessionsStay ==
  ASSUME Holds, SteadySessions, UNCHANGED registered
  PROVE  \A s \in Sessions : SessionRegistered(s)'
  BY DEF Holds, SessionRegistered, SteadySessions

(* Queues of a step: no load or release is new that was not asked for.     *)
SteadyAsks ==
  \A u \in Users : LoadAsked(u)' \/ SavedRuns(u)' => LoadAsked(u) \/ SavedRuns(u)

LEMMA QuietHolds ==
  ASSUME Typed, Owners, Holds, UNCHANGED held, SteadyLoans, SteadyHolders, SteadyBinds,
         SteadySessions, SteadyAsks
  PROVE  Holds'
<1>1. \A p \in Players : Lent(p)' /\ Covered(p) => UserOfPlayer(p) \in held'
  BY DEF Covered
<1>2. /\ \A p \in Players : Lent(p)' /\ Covered(p) => Covered(p)'
      /\ \A t \in Threads : ThreadHolds(t)'
  BY <1>1, HoldersStay
<1>3. \A s \in Sessions : SessionRegistered(s)'
  BY SessionsStay DEF SteadyBinds
<1> QED
  BY <1>2, <1>3, BindsStay, HoldsStep DEF SteadyAsks

LEMMA SavedStay ==
  ASSUME SavesShift
  PROVE  \A u \in Users : SavedRuns(u)' => SavedRuns(u)
<1> SUFFICES ASSUME NEW u \in Users, NEW p \in Players, NEW i \in Nat,
                    SaveAt(u, i, p)', dbJobs'[u][i].kind = "saved"
             PROVE  SavedRuns(u)
  BY DEF SavedRuns
<1>1. PICK d \in {0, 1} : \A j \in Nat : \A q : SaveAt(u, j, q)' =>
        SaveAt(u, j + d, q) /\ dbJobs'[u][j] = dbJobs[u][j + d]
  BY DEF SavesShift
<1>2. SaveAt(u, i + d, p) /\ dbJobs[u][i + d].kind = "saved" /\ i + d \in Nat
  BY <1>1
<1> QED
  BY <1>2 DEF SavedRuns

LEMMA LoadsMoved ==
  ASSUME Typed, Typed', NEW u \in Users, NEW d \in {0, 1}, NEW n \in Nat, NEW job,
         Moved(u, d, n, job), \A s \in Sessions : conn'[s] => conn[s],
         NEW v \in Users, LoadAsked(v)'
  PROVE  \/ LoadAsked(v)
         \/ /\ v = u /\ n # 0 /\ job.kind \in {"load", "loading"}
            /\ job.session \in Sessions /\ conn[job.session]
<1>1. PICK s \in Sessions, i \in Nat :
        Request(v, i, s)' /\ conn'[s] /\ dbJobs'[v][i].kind \in {"load", "loading"}
  BY DEF LoadAsked
<1>2. conn[s]
  BY <1>1
<1>3. CASE v = u /\ i = n /\ n # 0 /\ dbJobs'[u][i] = job /\ job.session = s
  BY <1>1, <1>2, <1>3
<1>4. CASE v = u /\ Request(u, i + d, s) /\ dbJobs'[u][i] = dbJobs[u][i + d]
  <2>1. i + d \in Nat
    OBVIOUS
  <2> QED
    BY <1>1, <1>2, <1>4, <2>1 DEF LoadAsked
<1>5. CASE Request(v, i, s) /\ dbJobs'[v] = dbJobs[v]
  BY <1>1, <1>2, <1>5 DEF LoadAsked
<1> QED
  BY <1>1, <1>3, <1>4, <1>5, RequestMoved

LEMMA SameAsks ==
  ASSUME UNCHANGED dbJobs, \A s \in Sessions : conn'[s] => conn[s]
  PROVE  SteadyAsks
<1>1. \A u \in Users : LoadAsked(u)' => LoadAsked(u)
  BY DEF LoadAsked, Request
<1>2. \A u \in Users : SavedRuns(u)' => SavedRuns(u)
  BY SameShift, SavedStay
<1> QED
  BY <1>1, <1>2 DEF SteadyAsks

LEMMA MovedAsks ==
  ASSUME Typed, Typed', NEW u \in Users, NEW d \in {0, 1}, NEW n \in Nat, NEW job,
         Moved(u, d, n, job), n # 0 => job.kind \notin {"load", "loading", "saved"},
         UNCHANGED conn
  PROVE  SteadyAsks
<1>1. ASSUME NEW v \in Users, LoadAsked(v)' PROVE LoadAsked(v)
  BY <1>1, LoadsMoved
<1>2. ASSUME NEW v \in Users, SavedRuns(v)' PROVE SavedRuns(v)
  <2>1. PICK p \in Players, i \in Nat : SaveAt(v, i, p)' /\ dbJobs'[v][i].kind = "saved"
    BY <1>2 DEF SavedRuns
  <2>2. CASE v # u
    BY <2>1, <2>2 DEF SavedRuns, SaveAt, Moved
  <2>3. CASE v = u
    <3>1. i \in 1 .. Len(dbJobs'[u]) /\ i # n /\ i + d \in Nat
      BY <2>1, <2>3 DEF SaveAt, Moved
    <3>2. SaveAt(u, i + d, p) /\ dbJobs[u][i + d].kind = "saved"
      BY <2>1, <2>3, <3>1 DEF SaveAt, Moved
    <3> QED
      BY <2>3, <3>1, <3>2 DEF SavedRuns
  <2> QED
    BY <2>2, <2>3
<1> QED
  BY <1>1, <1>2 DEF SteadyAsks

LEMMA PushAsks ==
  ASSUME Typed, Typed', NEW u \in Users, NEW kind \in {"select", "accept"},
         NEW s \in Sessions, PushDb(u, kind, s), UNCHANGED conn
  PROVE  SteadyAsks
<1>1. PICK job \in DbJob : job = [kind |-> kind, session |-> s]
  BY DEF DbJob, SessionJob
<1>2. PICK n \in Nat \ {0} : Moved(u, 0, n, job)
  BY <1>1, AppendMoves DEF PushDb
<1> QED
  BY <1>1, <1>2, MovedAsks

LEMMA PopAsks ==
  ASSUME Typed, Typed', NEW u \in Users, dbJobs[u] # <<>>, dbJobs' = PopDb(u),
         UNCHANGED conn
  PROVE  SteadyAsks
<1>1. Moved(u, 1, 0, NoLoad)
  BY PopMoves
<1> QED
  BY <1>1, MovedAsks

LEMMA CheckAsks ==
  ASSUME Typed, Typed', Requests, NEW u \in Users, CheckConnected(u)
  PROVE  SteadyAsks
<1>1. PICK s \in Sessions : s = Head(dbJobs[u]).session /\ DbHead(u, "load")
  BY HeadRequest DEF CheckConnected, EntryKinds
<1>2. dbJobs[u] # <<>> /\ Request(u, 1, s) /\ dbJobs[u][1].kind = "load"
  BY <1>1, HeadRequest DEF EntryKinds
<1>3. UNCHANGED conn
  BY DEF CheckConnected
<1>4. CASE conn[s]
  <2>1. PICK job \in DbJob : job = [kind |-> "loading", session |-> s]
    BY DEF DbJob, SessionJob
  <2>2. Moved(u, 0, 1, job)
    BY <1>1, <1>2, <1>4, <2>1, ContinueMoves DEF CheckConnected
  <2>3. LoadAsked(u)
    <3>1. 1 \in Nat
      OBVIOUS
    <3> QED
      BY <1>2, <1>4, <3>1 DEF LoadAsked
  <2>4. SavesShift
    <3>1. job.kind \notin {"save", "saved"}
      BY <2>1
    <3> QED
      BY <2>2, <3>1, MovedShift
  <2>5. ASSUME NEW v \in Users, LoadAsked(v)' PROVE LoadAsked(v)
    BY <1>3, <2>2, <2>3, <2>5, LoadsMoved
  <2> QED
    BY <2>4, <2>5, SavedStay DEF SteadyAsks
<1>5. CASE ~conn[s]
  <2>1. dbJobs' = PopDb(u)
    BY <1>1, <1>5 DEF CheckConnected
  <2> QED
    BY <1>2, <1>3, <2>1, PopAsks
<1> QED
  BY <1>4, <1>5

(* A session that waits for its entry: an account nobody holds lends none. *)
LEMMA FreeAccount ==
  ASSUME Typed, Requests, Owners, Holds, NEW s \in Sessions, conn[s],
         phase[s] = "ENTERING_GAME",
         \A p \in Players : Lent(p) /\ UserOfPlayer(p) = UserOf[s] => ~Covered(p)
  PROVE  NobodyLent(UserOf[s])
<1> SUFFICES ASSUME NEW p \in Players, Lent(p), UserOfPlayer(p) = UserOf[s]
             PROVE  FALSE
  BY DEF NobodyLent
<1>1. Playing(p) /\ Attended(p)
  BY DEF Holds, PlayerHeld, Lent, Playing
<1>2. player[owner[p]] = p /\ owner[p] \in Sessions
  BY <1>1 DEF Owners, PlayerOwned, Playing, Typed, TypeOK, RoomsTypeOK
<1>3. registered[UserOf[s]] = s
  BY DEF Holds, SessionRegistered
<1>4. owner[p] # s
  <2>1. player[s] = NoPlayer
    BY DEF Owners, SessionPlayer
  <2> QED
    BY <1>2, <2>1 DEF Players, NoPlayer
<1>5. PICK other \in Sessions : /\ replaced[other] = owner[p]
                                /\ pc[<<"bind", other>>] \in {"replace", "hold"}
  BY <1>1, <1>3, <1>4 DEF Attended, WillHold
<1>6. UserOf[other] = UserOf[s]
  BY <1>2, <1>5, WorldAssumption DEF Owners, UserOfPlayer
<1>7. other = s
  BY <1>3, <1>5, <1>6, WorldAssumption DEF Holds, SessionRegistered
<1> QED
  BY <1>5, <1>7 DEF Requests, SessionThreads

(* A step of thread t that ends no hold, begins none and replaces nobody.  *)
AsideStep(t) ==
  /\ \A t2 \in Threads \ {t} : pc'[t2] = pc[t2] /\ arg'[t2] = arg[t2]
  /\ pc'[t] \notin Holding
  /\ t[1] = "bind" => {pc[t], pc'[t]} \cap {"replace", "hold"} = {}
  /\ \A s \in Sessions : pc[<<"bind", s>>] \in {"replace", "hold"} => replaced'[s] = replaced[s]
  /\ \A s \in Sessions : (conn'[s] => conn[s])
                         /\ (phase'[s] = "ENTERING_GAME" => phase[s] = "ENTERING_GAME")
  /\ UNCHANGED <<held, presence, owner>>

LEMMA AsideFacts ==
  ASSUME NEW t \in Threads, AsideStep(t)
  PROVE  /\ SteadyLoans /\ SteadyHolders /\ SteadySessions
         /\ \A s \in Sessions : pc[<<"bind", s>>] \in {"replace", "hold"} =>
              /\ pc'[<<"bind", s>>] = pc[<<"bind", s>>] /\ arg'[<<"bind", s>>] = arg[<<"bind", s>>]
              /\ replaced'[s] = replaced[s]
<1>1. SteadyLoans
  BY UnchangedLoans DEF AsideStep
<1>2. SteadyHolders
  BY DEF AsideStep, SteadyHolders
<1>3. \A s \in Sessions : t = <<"bind", s>> \/ <<"bind", s>> \in Threads \ {t}
  BY ThreadNames
<1>4. \A s \in Sessions : t = <<"bind", s>> => t[1] = "bind"
  OBVIOUS
<1>5. SteadySessions
  BY <1>3, <1>4 DEF AsideStep, SteadySessions
<1> QED
  BY <1>1, <1>2, <1>3, <1>4, <1>5 DEF AsideStep

LEMMA AsideHolds ==
  ASSUME Typed, Owners, Holds, NEW t \in Threads, AsideStep(t), UNCHANGED registered,
         SteadyAsks
  PROVE  Holds'
<1>1. UNCHANGED held
  BY DEF AsideStep
<1> QED
  BY <1>1, AsideFacts, QuietHolds DEF SteadyBinds

LEMMA UnregisterHolds ==
  ASSUME Typed, Owners, Holds, NEW t \in Threads, AsideStep(t), SteadyAsks,
         NEW s \in Sessions, Unregister(s), ~conn[s], ~PlaysOn(s)
  PROVE  Holds'
<1>1. SteadyLoans /\ SteadyHolders /\ SteadySessions
  BY AsideFacts
<1>2. \A u \in Users : registered'[u] = registered[u]
                       \/ (u = UserOf[s] /\ registered[u] = s /\ registered'[u] = NoSession)
  BY DEF Unregister, Typed, TypeOK
<1>3. ASSUME NEW p \in Players, Playing(p)', Playing(p), Attended(p) PROVE Attended(p)'
  <2>1. owner'[p] = owner[p] /\ owner[p] \in Sessions /\ player[owner[p]] = p
    BY <1>3 DEF Owners, PlayerOwned, Playing, AsideStep, Typed, TypeOK, RoomsTypeOK
  <2>2. owner[p] # s
    BY <1>3, <2>1 DEF PlaysOn, Players, NoPlayer
  <2>3. CASE registered[UserOfPlayer(p)] = owner[p]
    <3>1. UserOfPlayer(p) \in Users
      BY <2>1, WorldAssumption DEF UserOfPlayer
    <3>2. registered'[UserOfPlayer(p)] = owner[p]
      BY <1>2, <2>2, <2>3, <3>1
    <3> QED
      BY <2>1, <3>2 DEF Attended, UserOfPlayer
  <2>4. CASE WillHold(owner[p], p)
    <3>1. WillHold(owner[p], p)'
      BY <2>1, <2>4, AsideFacts DEF WillHold
    <3> QED
      BY <3>1 DEF Attended
  <2> QED
    BY <1>3, <2>3, <2>4 DEF Attended
<1>4. ASSUME NEW s2 \in Sessions PROVE SessionRegistered(s2)'
  <2>1. UserOf[s2] \in Users /\ SessionRegistered(s2) /\ s # NoSession
    BY WorldAssumption DEF Holds
  <2>2. ASSUME conn'[s2], phase'[s2] = "ENTERING_GAME" PROVE registered'[UserOf[s2]] = s2
    <3>1. conn[s2] /\ registered[UserOf[s2]] = s2
      BY <2>1, <2>2 DEF AsideStep, SessionRegistered
    <3> QED
      BY <1>2, <2>1, <3>1
  <2>3. pc'[<<"bind", s2>>] \in {"replace", "hold"} => pc[<<"bind", s2>>] \in {"replace", "hold"}
    BY <1>1 DEF SteadySessions
  <2> QED
    BY <1>2, <2>1, <2>2, <2>3 DEF SessionRegistered
<1>5. \A p \in Players : Lent(p)' /\ Covered(p) => UserOfPlayer(p) \in held'
  BY DEF Covered, AsideStep
<1>6. /\ \A p \in Players : Lent(p)' /\ Covered(p) => Covered(p)'
      /\ \A t2 \in Threads : ThreadHolds(t2)'
  BY <1>1, <1>5, HoldersStay
<1> QED
  BY <1>1, <1>3, <1>4, <1>6, HoldsStep DEF SteadyAsks

LEMMA HandleHolds ==
  ASSUME Windows = {}, Typed, Typed', Requests, Owners, Holds, NEW s \in Sessions, Handle(s)
  PROVE  Holds'
<1>1. UNCHANGED <<held, registered, presence, owner, conn, replaced>>
  BY DEF Handle, HandleConnectLobby, HandleEnterGame, HandleInGame, HandleReturnToLobby,
     ReceiveInGame
<1>2. CASE HandleConnectLobby(s)
  <2>1. pc[<<"bind", s>>] = "idle"
    BY <1>2 DEF HandleConnectLobby, Receive, Requests, SessionThreads
  <2>2. UNCHANGED <<arg, dbJobs>> /\ pc' = [pc EXCEPT ![<<"bind", s>>] = "register"]
        /\ \A s2 \in Sessions : phase'[s2] = "ENTERING_GAME" => phase[s2] = "ENTERING_GAME"
    BY <1>2 DEF HandleConnectLobby, Goto, TryChangePhase, Typed, TypeOK
  <2>3. AsideStep(<<"bind", s>>) /\ <<"bind", s>> \in Threads
    BY <1>1, <2>1, <2>2, ThreadNames DEF AsideStep, Holding, Typed, TypeOK
  <2> QED
    BY <1>1, <2>2, <2>3, SameAsks, AsideHolds
<1>3. CASE HandleEnterGame(s)
  <2>1. registered[UserOf[s]] = s /\ UNCHANGED <<pc, arg>>
        /\ \A s2 \in Sessions \ {s} : phase'[s2] = phase[s2]
    BY <1>3 DEF HandleEnterGame, TryChangePhase, Typed, TypeOK
  <2>2. SteadyLoans /\ SteadyHolders /\ SteadyBinds /\ SteadySessions
    BY <1>1, <2>1, UnchangedLoans DEF SteadyHolders, SteadyBinds, SteadySessions
  <2>3. UserOf[s] \in Users /\ PushDb(UserOf[s], "select", s)
    BY <1>3, WorldAssumption DEF HandleEnterGame
  <2>4. SteadyAsks
    BY <1>1, <2>3, PushAsks
  <2> QED
    BY <1>1, <2>2, <2>4, QuietHolds
<1>4. ASSUME NEW packet \in Packets, HandleInGame(s, packet) PROVE Holds'
  <2>1. SteadyLoans /\ SteadyHolders /\ SteadyBinds /\ SteadySessions /\ SteadyAsks
    BY <1>1, <1>4, UnchangedLoans, SameAsks
    DEF HandleInGame, SteadyHolders, SteadyBinds, SteadySessions
  <2> QED
    BY <1>1, <2>1, QuietHolds
<1>5. CASE HandleReturnToLobby(s)
  <2>1. /\ UNCHANGED dbJobs
        /\ pc' = [pc EXCEPT ![<<"recv", s>>] = "hold"]
        /\ arg' = [arg EXCEPT ![<<"recv", s>>] = player[s]]
        /\ \A s2 \in Sessions : phase'[s2] = "ENTERING_GAME" => phase[s2] = "ENTERING_GAME"
    BY <1>5 DEF HandleReturnToLobby, Goto, TryChangePhase, Typed, TypeOK
  <2>2. AsideStep(<<"recv", s>>) /\ <<"recv", s>> \in Threads
    BY <1>1, <2>1, ThreadNames DEF AsideStep, Holding, Typed, TypeOK
  <2> QED
    BY <1>1, <2>1, <2>2, SameAsks, AsideHolds
<1> QED
  BY <1>2, <1>3, <1>4, <1>5 DEF Handle

LEMMA SessionHolds ==
  ASSUME Typed, Typed', Requests, Owners, Holds, NEW s \in Sessions,
         Disconnect(s) \/ DiscStep(s) \/ ParkReturn(s)
  PROVE  Holds'
<1>1. UNCHANGED <<held, presence, owner, replaced, phase>>
      /\ \A s2 \in Sessions : conn'[s2] => conn[s2]
  BY DEF Disconnect, DiscStep, ReadPlayer, UnregisterUser, ParkReturn, Park, Typed, TypeOK
<1>2. CASE Disconnect(s) \/ ReadPlayer(s)
  <2>1. AsideStep(<<"disc", s>>) /\ <<"disc", s>> \in Threads
    <3>1. <<"disc", s>> \in Threads /\ <<"disc", s>>[1] = "disc"
      BY ThreadNames
    <3>2. /\ \A t \in Threads \ {<<"disc", s>>} : pc'[t] = pc[t] /\ arg'[t] = arg[t]
          /\ pc'[<<"disc", s>>] \in {"read", "unregister", "hold"}
      BY <1>2, <3>1 DEF Disconnect, ReadPlayer, Goto, Typed, TypeOK
    <3> QED
      BY <1>1, <3>1, <3>2 DEF AsideStep, Holding
  <2>2. UNCHANGED <<registered, dbJobs>>
    BY <1>2 DEF Disconnect, ReadPlayer
  <2> QED
    BY <1>1, <2>1, <2>2, SameAsks, AsideHolds
<1>3. CASE UnregisterUser(s)
  <2>1. AsideStep(<<"disc", s>>) /\ <<"disc", s>> \in Threads
    BY <1>1, <1>3, ThreadNames DEF AsideStep, Holding, UnregisterUser, Goto, Typed, TypeOK
  <2>2. UNCHANGED dbJobs /\ Unregister(s) /\ pc[<<"disc", s>>] = "unregister"
    BY <1>3 DEF UnregisterUser
  <2>3. ~conn[s] /\ ~PlaysOn(s)
    BY <2>2 DEF Requests, SessionThreads, Owners, SessionPlayer
  <2> QED
    BY <1>1, <2>1, <2>2, <2>3, SameAsks, UnregisterHolds
<1>4. CASE ParkReturn(s)
  <2>1. AsideStep(<<"recv", s>>) /\ <<"recv", s>> \in Threads
    BY <1>1, <1>4, ThreadNames DEF AsideStep, Holding, ParkReturn, Goto, Typed, TypeOK
  <2>2. UNCHANGED <<registered, conn>>
        /\ (UNCHANGED dbJobs \/ PushDb(UserOf[s], "accept", s)) /\ UserOf[s] \in Users
    BY <1>4, WorldAssumption DEF ParkReturn
  <2>3. SteadyAsks
    BY <2>2, SameAsks, PushAsks
  <2> QED
    BY <2>1, <2>2, <2>3, AsideHolds
<1> QED
  BY <1>2, <1>3, <1>4 DEF DiscStep

LEMMA RegisterHolds ==
  ASSUME Windows = {}, Typed, Typed', Custody, Requests, Owners, Holds, NEW s \in Sessions,
         RegisterUser(s)
  PROVE  Holds'
<1> DEFINE u == UserOf[s]
           t == <<"bind", s>>
<1>1. /\ UNCHANGED <<held, presence, owner, conn, phase, dbJobs, arg>>
      /\ pc[t] = "register" /\ pc'[t] \in {"verify", "replace"}
      /\ registered[u] # NoSession => pc'[t] = "replace"
      /\ replaced'[s] = registered[u] /\ registered'[u] = s
      /\ \A s2 \in Sessions \ {s} : replaced'[s2] = replaced[s2]
      /\ \A v \in Users \ {u} : registered'[v] = registered[v]
      /\ t \in Threads /\ \A t2 \in Threads \ {t} : pc'[t2] = pc[t2]
      /\ u \in Users /\ s # NoSession
  BY ThreadNames, WorldAssumption DEF RegisterUser, Goto, Typed, TypeOK
<1>2. /\ \A s2 \in Sessions : UserOf[s2] = u =>
           /\ ~(conn[s2] /\ phase[s2] = "ENTERING_GAME")
           /\ pc[<<"bind", s2>>] \notin {"replace", "hold"}
  BY DEF RegisterUser, EntryInFlight, ReplacementPending
<1>3. SteadyLoans /\ SteadyHolders /\ SteadyAsks
  BY <1>1, UnchangedLoans, SameAsks DEF SteadyHolders, Holding
<1>4. \A s2 \in Sessions \ {s} : pc'[<<"bind", s2>>] = pc[<<"bind", s2>>]
  BY <1>1, ThreadNames
<1>5. ASSUME NEW p \in Players, Playing(p), Attended(p) PROVE Attended(p)'
  <2>1. owner'[p] = owner[p] /\ owner[p] \in Sessions /\ owner[p] # NoSession
    BY <1>1, <1>5, WorldAssumption DEF Owners, PlayerOwned, Playing, Typed, TypeOK, RoomsTypeOK
  <2>2. CASE registered[UserOfPlayer(p)] = owner[p] /\ UserOfPlayer(p) = u
    <3>1. WillHold(owner[p], p)'
      BY <1>1, <2>1, <2>2 DEF WillHold
    <3> QED
      BY <3>1 DEF Attended
  <2>3. CASE registered[UserOfPlayer(p)] = owner[p] /\ UserOfPlayer(p) # u
    BY <1>1, <2>1, <2>3, WorldAssumption DEF Attended, UserOfPlayer
  <2>4. CASE WillHold(owner[p], p)
    <3>1. PICK other \in Sessions :
            /\ replaced[other] = owner[p]
            /\ \/ pc[<<"bind", other>>] = "replace"
               \/ pc[<<"bind", other>>] = "hold" /\ arg[<<"bind", other>>] = p
      BY <2>4 DEF WillHold
    <3>2. other # s
      BY <1>1, <3>1
    <3>3. WillHold(owner[p], p)'
      BY <1>1, <1>4, <2>1, <3>1, <3>2 DEF WillHold
    <3> QED
      BY <3>3 DEF Attended
  <2> QED
    BY <1>5, <2>2, <2>3, <2>4 DEF Attended
<1>6. ASSUME NEW s2 \in Sessions PROVE SessionRegistered(s2)'
  <2>1. UserOf[s2] \in Users /\ SessionRegistered(s2)
    BY WorldAssumption DEF Holds
  <2>2. CASE s2 = s
    <3>1. phase[s] = "CONNECTING_LOBBY"
      BY <1>1 DEF Requests, SessionThreads
    <3> QED
      BY <1>1, <2>2, <3>1 DEF SessionRegistered
  <2>3. CASE s2 # s /\ UserOf[s2] = u
    BY <1>1, <1>2, <1>4, <2>3 DEF SessionRegistered
  <2>4. CASE UserOf[s2] # u
    <3>1. s2 # s
      BY <2>4
    <3> QED
      BY <1>1, <1>4, <2>1, <2>4, <3>1 DEF SessionRegistered
  <2> QED
    BY <2>2, <2>3, <2>4
<1>7. /\ \A p \in Players : Lent(p)' /\ Covered(p) => Covered(p)'
      /\ \A t2 \in Threads : ThreadHolds(t2)'
  BY <1>1, <1>3, HoldersStay DEF Covered
<1> QED
  BY <1>3, <1>5, <1>6, <1>7, HoldsStep DEF SteadyAsks

LEMMA ReplaceHolds ==
  ASSUME Typed, Typed', Owners, Holds, NEW s \in Sessions, ReadReplaced(s)
  PROVE  Holds'
<1> DEFINE t == <<"bind", s>>
<1>1. /\ UNCHANGED <<held, presence, owner, conn, phase, dbJobs, registered, replaced>>
      /\ t \in Threads /\ \A t2 \in Threads \ {t} : pc'[t2] = pc[t2] /\ arg'[t2] = arg[t2]
      /\ pc[t] = "replace" /\ arg'[t] = player[replaced[s]]
      /\ pc'[t] = IF player[replaced[s]] = NoPlayer THEN "kick" ELSE "hold"
  BY ThreadNames DEF ReadReplaced, Goto, Typed, TypeOK
<1>2. SteadyLoans /\ SteadyHolders /\ SteadyAsks
  BY <1>1, UnchangedLoans, SameAsks DEF SteadyHolders, Holding
<1>3. \A s2 \in Sessions \ {s} :
        /\ pc'[<<"bind", s2>>] = pc[<<"bind", s2>>]
        /\ arg'[<<"bind", s2>>] = arg[<<"bind", s2>>]
  BY <1>1, ThreadNames
<1>4. \A s2 \in Sessions : SessionRegistered(s2)'
  <2>1. SteadySessions
    BY <1>1, <1>3 DEF SteadySessions
  <2> QED
    BY <1>1, <2>1, SessionsStay
<1>5. ASSUME NEW p \in Players, Playing(p), Attended(p) PROVE Attended(p)'
  <2>1. CASE registered[UserOfPlayer(p)] = owner[p]
    BY <1>1, <2>1 DEF Attended, UserOfPlayer
  <2>2. CASE WillHold(owner[p], p)
    <3>1. PICK other \in Sessions :
            /\ replaced[other] = owner[p]
            /\ \/ pc[<<"bind", other>>] = "replace"
               \/ pc[<<"bind", other>>] = "hold" /\ arg[<<"bind", other>>] = p
      BY <2>2 DEF WillHold
    <3>2. CASE other # s
      <4>1. WillHold(owner[p], p)'
        BY <1>1, <1>3, <3>1, <3>2 DEF WillHold
      <4> QED
        BY <4>1 DEF Attended
    <3>3. CASE other = s
      <4>1. player[owner[p]] = p /\ p # NoPlayer
        BY <1>5 DEF Owners, PlayerOwned, Players, NoPlayer
      <4>2. pc'[t] = "hold" /\ arg'[t] = p
        BY <1>1, <3>1, <3>3, <4>1
      <4>3. WillHold(owner[p], p)'
        BY <1>1, <3>1, <3>3, <4>2 DEF WillHold
      <4> QED
        BY <4>3 DEF Attended
    <3> QED
      BY <3>2, <3>3
  <2> QED
    BY <1>5, <2>1, <2>2 DEF Attended
<1>6. /\ \A p \in Players : Lent(p)' /\ Covered(p) => Covered(p)'
      /\ \A t2 \in Threads : ThreadHolds(t2)'
  BY <1>1, <1>2, HoldersStay DEF Covered
<1> QED
  BY <1>2, <1>4, <1>5, <1>6, HoldsStep DEF SteadyAsks

LEMMA BindHolds ==
  ASSUME Windows = {}, Typed, Typed', Custody, Requests, Owners, Holds, NEW s \in Sessions,
         BindStep(s)
  PROVE  Holds'
<1> DEFINE t == <<"bind", s>>
<1>0. t \in Threads /\ t[1] = "bind"
  BY ThreadNames
<1>1. CASE RejectLobbyConnect(s) \/ KickReplaced(s) \/ FinishLobbyConnect(s)
  <2>1. /\ \A t2 \in Threads \ {t} : pc'[t2] = pc[t2] /\ arg'[t2] = arg[t2]
        /\ pc[t] \in {"register", "kick", "verify"} /\ pc'[t] \in {"idle", "verify"}
    BY <1>0, <1>1 DEF RejectLobbyConnect, KickReplaced, FinishLobbyConnect, Goto, Typed, TypeOK
  <2>2. /\ UNCHANGED <<held, presence, owner, conn, dbJobs>>
        /\ \A s2 \in Sessions : phase'[s2] = "ENTERING_GAME" => phase[s2] = "ENTERING_GAME"
    BY <1>1 DEF RejectLobbyConnect, KickReplaced, FinishLobbyConnect, TryChangePhase, Typed, TypeOK
  <2>3. \A s2 \in Sessions :
          pc[<<"bind", s2>>] \in {"replace", "hold"} => replaced'[s2] = replaced[s2]
    BY <1>1, <2>1 DEF RejectLobbyConnect, KickReplaced, FinishLobbyConnect, Typed, TypeOK
  <2>4. AsideStep(t) /\ SteadyAsks
    BY <1>0, <2>1, <2>2, <2>3, SameAsks DEF AsideStep, Holding
  <2>5. CASE UNCHANGED registered
    BY <1>0, <2>4, <2>5, AsideHolds
  <2>6. CASE FinishLobbyConnect(s) /\ ~UNCHANGED registered
    <3>1. ~conn[s] /\ Unregister(s) /\ pc[t] = "verify"
      BY <2>6 DEF FinishLobbyConnect
    <3>2. ~PlaysOn(s)
      BY <3>1 DEF Requests, SessionThreads, Owners, SessionPlayer, PlaysOn
    <3> QED
      BY <1>0, <2>4, <3>1, <3>2, UnregisterHolds
  <2> QED
    BY <1>1, <2>5, <2>6 DEF RejectLobbyConnect, KickReplaced
<1>2. CASE CheckPresence(s)
  <2>1. /\ UNCHANGED <<held, presence, owner, conn, phase, dbJobs, registered, replaced, arg>>
        /\ \A t2 \in Threads \ {t} : pc'[t2] = pc[t2]
        /\ pc[t] = "check"
        /\ pc'[t] = IF presence[arg[t]] \in {"LEFT_BEFORE_ROOM", "SAVED"} THEN "release" ELSE "kick"
    BY <1>0, <1>2 DEF CheckPresence, Goto, Typed, TypeOK
  <2>2. SteadyLoans /\ SteadyAsks
    BY <2>1, UnchangedLoans, SameAsks
  <2>3. SteadyHolders
    BY <2>1 DEF SteadyHolders, Holding, Lent
  <2>4. SteadyBinds /\ SteadySessions
    BY <2>1, ThreadNames DEF SteadyBinds, SteadySessions
  <2> QED
    BY <2>1, <2>2, <2>3, <2>4, QuietHolds
<1> QED
  BY <1>1, <1>2, RegisterHolds, ReplaceHolds DEF BindStep

(* A player a thread of the account works with is one of the account's.    *)
LEMMA ThreadArg ==
  ASSUME Typed, Custody, Owners, NEW t \in Threads, pc[t] \in Holding \cup {"hold"}
  PROVE  /\ arg[t] \in Players /\ presence[arg[t]] # "NONE"
         /\ UserOfPlayer(arg[t]) = ThreadUser(t)
<1>1. arg[t] \in Players /\ UserOfPlayer(arg[t]) = ThreadUser(t)
  BY DEF Owners, ThreadPlayer, Holding, Typed, TypeOK
<1>2. presence[arg[t]] # "NONE"
  BY <1>1 DEF Custody, Unborn
<1> QED
  BY <1>1, <1>2

LEMMA TakeHolds ==
  ASSUME Windows = {}, Typed, Typed', Custody, Owners, Holds, NEW t \in Threads, TakeHold(t)
  PROVE  Holds'
<1> DEFINE u == ThreadUser(t)
<1>1. /\ UNCHANGED <<presence, owner, conn, phase, dbJobs, registered, replaced, arg>>
      /\ \A t2 \in Threads \ {t} : pc'[t2] = pc[t2]
      /\ pc[t] = "hold" /\ pc'[t] = IF t[1] = "bind" THEN "check" ELSE "mark"
      /\ held' = held \cup {u} /\ ~HeldForAnother(t)
  BY DEF TakeHold, Hold, Goto, Typed, TypeOK
<1>2. PICK a \in Players : a = arg[t] /\ UserOfPlayer(a) = u /\ presence[a] # "NONE"
  BY <1>1, ThreadArg
<1>3. SteadyLoans /\ SteadyAsks
  BY <1>1, UnchangedLoans, SameAsks
<1>4. ASSUME NEW p \in Players, Lent(p), Covered(p), UserOfPlayer(p) = u PROVE p = a
  BY <1>1, <1>2, <1>4 DEF HeldForAnother, OthersOfAccount, Covered, Lent
<1>5. ASSUME NEW t2 \in Threads, pc[t2] \in Holding, ThreadUser(t2) = u PROVE arg[t2] = a
  <2>1. arg[t2] \in Players /\ presence[arg[t2]] # "NONE" /\ UserOfPlayer(arg[t2]) = u
    BY <1>5, ThreadArg
  <2> QED
    BY <1>1, <1>2, <1>5, <2>1 DEF HeldForAnother, OthersOfAccount, Holding
<1>6. Covered(a)'
  <2>1. UserOfPlayer(a)' = u
    BY <1>1, <1>2 DEF UserOfPlayer
  <2>2. ASSUME NEW t2 \in Threads, ThreadUser(t2) = u, pc'[t2] \in Holding PROVE arg'[t2] = a
    BY <1>1, <1>2, <1>5, <2>2
  <2> QED
    BY <1>1, <2>1, <2>2 DEF Covered, ThreadUser
<1>7. ASSUME NEW p \in Players, Lent(p), Covered(p) PROVE Covered(p)'
  <2>1. CASE UserOfPlayer(p) = u
    BY <1>4, <1>6, <1>7, <2>1
  <2>2. CASE UserOfPlayer(p) # u
    <3>1. \A t2 \in Threads : ThreadUser(t2) = UserOfPlayer(p) => t2 # t
      BY <2>2
    <3> QED
      BY <1>1, <1>7, <3>1 DEF Covered, UserOfPlayer, ThreadUser
  <2> QED
    BY <2>1, <2>2
<1>8. ASSUME NEW t2 \in Threads PROVE ThreadHolds(t2)'
  <2>1. CASE t2 = t
    <3>1. Covered(arg[t])'
      BY <1>1, <1>2, <1>6 DEF Covered, UserOfPlayer
    <3> QED
      BY <1>1, <2>1, <3>1 DEF ThreadHolds
  <2>2. CASE t2 # t
    <3>1. pc'[t2] = pc[t2] /\ arg'[t2] = arg[t2] /\ ThreadHolds(t2)
      BY <1>1, <2>2 DEF Holds
    <3>2. ASSUME pc[t2] \in {"mark", "check"}, Lent(arg[t2]) PROVE Covered(arg[t2])'
      <4>1. PICK p \in Players : p = arg[t2]
        BY <3>2, ThreadArg DEF Holding
      <4>2. Covered(p)'
        BY <1>7, <3>1, <3>2, <4>1 DEF ThreadHolds
      <4> QED
        BY <1>1, <4>1, <4>2 DEF Covered, UserOfPlayer
    <3> QED
      BY <1>1, <3>1, <3>2 DEF ThreadHolds, Lent
  <2> QED
    BY <2>1, <2>2
<1>9. ASSUME NEW p \in Players, Playing(p), Attended(p) PROVE Attended(p)' \/ Covered(p)'
  <2>1. CASE registered[UserOfPlayer(p)] = owner[p]
    BY <1>1, <2>1 DEF Attended, UserOfPlayer
  <2>2. CASE WillHold(owner[p], p)
    <3>1. PICK other \in Sessions :
            /\ replaced[other] = owner[p]
            /\ \/ pc[<<"bind", other>>] = "replace"
               \/ pc[<<"bind", other>>] = "hold" /\ arg[<<"bind", other>>] = p
      BY <2>2 DEF WillHold
    <3>2. CASE t = <<"bind", other>>
      BY <1>1, <1>2, <1>6, <3>1, <3>2
    <3>3. CASE t # <<"bind", other>>
      <4>1. pc'[<<"bind", other>>] = pc[<<"bind", other>>]
        BY <1>1, <3>3, ThreadNames
      <4>2. WillHold(owner[p], p)'
        BY <1>1, <3>1, <4>1 DEF WillHold
      <4> QED
        BY <4>2 DEF Attended
    <3> QED
      BY <3>2, <3>3
  <2> QED
    BY <1>9, <2>1, <2>2 DEF Attended
<1>10. \A s \in Sessions : SessionRegistered(s)'
  <2>1. SteadySessions
    BY <1>1, ThreadNames DEF SteadySessions
  <2> QED
    BY <1>1, <2>1, SessionsStay
<1> QED
  BY <1>3, <1>7, <1>8, <1>9, <1>10, HoldsStep DEF SteadyAsks, SteadyLoans

LEMMA MarkHolds ==
  ASSUME Typed, Typed', Custody, Owners, Holds, NEW t \in Threads, MarkDisconnected(t)
  PROVE  Holds'
<1>1. PICK a \in Players : a = arg[t]
  BY DEF MarkDisconnected, Typed, ThreadsOK
<1>2. /\ UNCHANGED <<held, owner, conn, phase, dbJobs, registered, replaced, arg>>
      /\ \A t2 \in Threads \ {t} : pc'[t2] = pc[t2]
      /\ pc[t] = "mark" /\ presence'[a] = AfterDisconnect(presence[a])
      /\ pc'[t] = IF presence'[a] = "LEFT_IN_ROOM" THEN "leave" ELSE "release"
      /\ \A p \in Players \ {a} : presence'[p] = presence[p]
  BY <1>1 DEF MarkDisconnected, Goto, Typed, TypeOK, RoomsTypeOK
<1>3. SteadyLoans
  <2>1. Lent(a) => Covered(a)
    BY <1>1, <1>2 DEF Holds, ThreadHolds
  <2> QED
    BY <1>2, <2>1 DEF SteadyLoans, Lent, Playing, AfterDisconnect
<1>4. presence'[a] # "LEFT_IN_ROOM" => ~Lent(a)'
  BY <1>2 DEF Lent, AfterDisconnect, Typed, TypeOK, RoomsTypeOK
<1>5. SteadyHolders
  <2>1. pc'[t] \in Holding => pc'[t] = "release" /\ ~Lent(arg[t])'
    BY <1>1, <1>2, <1>4 DEF Holding, Lent
  <2> QED
    BY <1>2, <2>1 DEF SteadyHolders, Holding
<1>6. SteadyBinds /\ SteadySessions /\ SteadyAsks
  <2>1. \A s \in Sessions : pc'[<<"bind", s>>] \in {"replace", "hold"} \/ pc[<<"bind", s>>] \in {"replace", "hold"} =>
          pc'[<<"bind", s>>] = pc[<<"bind", s>>]
    BY <1>2, ThreadNames
  <2> QED
    BY <1>2, <2>1, SameAsks DEF SteadyBinds, SteadySessions
<1> QED
  BY <1>2, <1>3, <1>5, <1>6, QuietHolds

LEMMA PushLeaveHolds ==
  ASSUME Typed, Typed', Custody, Owners, Holds, NEW t \in Threads, PushLeave(t)
  PROVE  Holds'
<1>1. /\ UNCHANGED <<held, presence, owner, conn, phase, dbJobs, registered, replaced, arg>>
      /\ \A t2 \in Threads \ {t} : pc'[t2] = pc[t2]
      /\ pc[t] = "leave" /\ arg[t] \in Players
  BY DEF PushLeave, Goto, Typed, TypeOK, ThreadsOK
<1>2. room[arg[t]] # NoRoom
  <2>1. Departed(arg[t])
    BY <1>1 DEF Custody, Leaving
  <2> QED
    BY <1>1, <2>1 DEF Owners, PlayerOwned, Departed
<1>3. pc'[t] \in {"park", "unregister"}
  BY <1>1, <1>2 DEF PushLeave, Goto, AfterLeaving, Typed, TypeOK
<1>4. AsideStep(t) /\ SteadyAsks
  BY <1>1, <1>3, SameAsks DEF AsideStep, Holding
<1> QED
  BY <1>1, <1>4, AsideHolds

(* The hold that covers a lent player stays, and nobody is lent anything   *)
(* when a load is asked for or a save has run.                             *)
LEMMA LoansStay ==
  ASSUME Typed, Typed', Owners, Holds, SteadyLoans, SteadyHolders, SteadyBinds, SteadySessions,
         \A p \in Players : Lent(p) /\ Covered(p) => UserOfPlayer(p) \in held',
         \A v \in Users : LoadAsked(v)' \/ SavedRuns(v)' =>
           LoadAsked(v) \/ SavedRuns(v) \/ NobodyLent(v)'
  PROVE  Holds'
<1>1. \A p \in Players : Lent(p)' /\ Covered(p) => UserOfPlayer(p) \in held'
  BY DEF SteadyLoans
<1>2. /\ \A p \in Players : Lent(p)' /\ Covered(p) => Covered(p)'
      /\ \A t2 \in Threads : ThreadHolds(t2)'
  BY <1>1, HoldersStay
<1>3. \A s \in Sessions : SessionRegistered(s)'
  BY SessionsStay DEF SteadyBinds
<1> QED
  BY <1>2, <1>3, BindsStay, HoldsStep

LEMMA NobodyNew ==
  ASSUME SteadyLoans
  PROVE  \A u \in Users : NobodyLent(u) => NobodyLent(u)'
  BY DEF NobodyLent, SteadyLoans, UserOfPlayer

LEMMA DropHolds ==
  ASSUME Typed, Typed', Custody, Requests, Owners, Holds, NEW t \in Threads, DropHold(t)
  PROVE  Holds'
<1>1. PICK u \in Users : u = ThreadUser(t)
  BY WorldAssumption, ThreadNames DEF ThreadUser
<1>2. /\ UNCHANGED <<presence, owner, conn, phase, registered, replaced, arg>>
      /\ \A t2 \in Threads \ {t} : pc'[t2] = pc[t2]
      /\ pc[t] = "release" /\ pc'[t] \in {"kick", "park", "unregister"}
      /\ held' = held \ {u}
  BY <1>1 DEF DropHold, ReleaseHold, Release, Goto, AfterLeaving, Typed, TypeOK
<1>3. \A p \in Players : Lent(p) /\ UserOfPlayer(p) = u => ~Covered(p)
  BY <1>1, <1>2 DEF Covered, Holding, Holds, ThreadHolds
<1>4. SteadyLoans /\ SteadyHolders
  BY <1>2, UnchangedLoans DEF SteadyHolders, Holding
<1>5. SteadyBinds /\ SteadySessions
  <2>1. \A s \in Sessions : pc'[<<"bind", s>>] \in {"replace", "hold"} \/ pc[<<"bind", s>>] \in {"replace", "hold"} =>
          pc'[<<"bind", s>>] = pc[<<"bind", s>>]
    BY <1>2, ThreadNames
  <2> QED
    BY <1>2, <2>1 DEF SteadyBinds, SteadySessions
<1>6. \A v \in Users : SavedRuns(v)' => SavedRuns(v)
  BY DropHoldShift, SavedStay
<1>7. ASSUME NEW v \in Users, LoadAsked(v)' PROVE LoadAsked(v) \/ NobodyLent(v)
  <2>1. CASE parked[u] = NoLoad
    <3>1. UNCHANGED dbJobs
      BY <1>1, <2>1 DEF DropHold, ReleaseHold
    <3> QED
      BY <1>2, <1>7, <3>1 DEF LoadAsked, Request
  <2>2. CASE parked[u] # NoLoad
    <3>1. PICK job \in DbJob : job = ParkedJob(u)
      BY <2>2, ParkedJobTyped DEF Typed, TypeOK
    <3>2. PICK n \in Nat \ {0} : Moved(u, 0, n, job)
      <4>1. dbJobs' = [dbJobs EXCEPT ![u] = Append(@, job)]
        BY <1>1, <2>2, <3>1 DEF DropHold, ReleaseHold
      <4> QED
        BY <4>1, AppendMoves
    <3>3. \/ LoadAsked(v)
          \/ /\ v = u /\ job.kind \in {"load", "loading"}
             /\ job.session \in Sessions /\ conn[job.session]
      BY <1>2, <1>7, <3>2, LoadsMoved
    <3>4. job.session = parked[u].session /\ job.kind = parked[u].kind
      BY <3>1 DEF ParkedJob
    <3>5. ASSUME job.kind \in {"load", "loading"}, job.session \in Sessions, conn[job.session]
          PROVE  NobodyLent(u)
      <4>1. UserOf[job.session] = u /\ phase[job.session] = "ENTERING_GAME"
        BY <2>2, <3>4, <3>5 DEF Requests, ParkedRequest, Asks
      <4> QED
        BY <1>3, <3>5, <4>1, FreeAccount
    <3> QED
      BY <3>3, <3>5
  <2> QED
    BY <2>1, <2>2
<1> QED
  <2>1. \A p \in Players : Lent(p) /\ Covered(p) => UserOfPlayer(p) \in held'
    BY <1>2, <1>3 DEF Covered
  <2>2. \A v \in Users : LoadAsked(v)' \/ SavedRuns(v)' =>
           LoadAsked(v) \/ SavedRuns(v) \/ NobodyLent(v)'
    BY <1>4, <1>6, <1>7, NobodyNew
  <2> QED
    BY <1>4, <1>5, <2>1, <2>2, LoansStay

LEMMA ThreadStepHolds ==
  ASSUME Windows = {}, Typed, Typed', Custody, Requests, Owners, Holds, NEW t \in Threads,
         ThreadStep(t)
  PROVE  Holds'
  BY TakeHolds, MarkHolds, PushLeaveHolds, DropHolds DEF ThreadStep

LEMMA SelectHolds ==
  ASSUME Typed, Typed', Requests, Owners, Holds, NEW u \in Users, SelectCharacter(u)
  PROVE  Holds'
<1>1. PICK s \in Sessions : s = Head(dbJobs[u]).session /\ DbHead(u, "select")
  BY HeadRequest DEF SelectCharacter, EntryKinds
<1>2. UserOf[s] = u /\ dbJobs[u] # <<>> /\ phase[s] = "ENTERING_GAME"
  BY <1>1, HeadRequest DEF EntryKinds, Asks
<1>3. /\ UNCHANGED <<held, presence, owner, conn, registered, replaced, arg, pc>>
      /\ \A s2 \in Sessions : phase'[s2] = "ENTERING_GAME" => phase[s2] = "ENTERING_GAME"
  BY DEF SelectCharacter, CancelGameEntry, TryChangePhase, Park, Typed, TypeOK
<1>4. SteadyLoans /\ SteadyHolders /\ SteadyBinds /\ SteadySessions
  BY <1>3, UnchangedLoans DEF SteadyHolders, SteadyBinds, SteadySessions
<1>5. CASE dbJobs' = PopDb(u)
  <2>1. SteadyAsks
    BY <1>2, <1>3, <1>5, PopAsks
  <2> QED
    BY <1>3, <1>4, <2>1, QuietHolds
<1>6. CASE dbJobs' # PopDb(u)
  <2>1. /\ u \notin held
        /\ dbJobs' = [dbJobs EXCEPT ![u] = Append(Tail(@), [kind |-> "load", session |-> s])]
    BY <1>1, <1>6 DEF SelectCharacter, ParkResult
  <2>2. PICK job \in DbJob : job = [kind |-> "load", session |-> s]
    BY DEF DbJob, SessionJob
  <2>3. PICK n \in Nat \ {0} : Moved(u, 1, n, job)
    BY <1>2, <2>1, <2>2, RequeueMoves
  <2>4. ASSUME conn[s] PROVE NobodyLent(u)
    <3>1. \A p \in Players : Lent(p) /\ UserOfPlayer(p) = UserOf[s] => ~Covered(p)
      BY <1>2, <2>1 DEF Covered
    <3> QED
      BY <1>2, <2>4, <3>1, FreeAccount
  <2>5. ASSUME NEW v \in Users, LoadAsked(v)' PROVE LoadAsked(v) \/ NobodyLent(v)
    <3>1. LoadAsked(v) \/ (v = u /\ conn[job.session])
      BY <1>3, <2>3, <2>5, LoadsMoved
    <3> QED
      BY <2>2, <2>4, <3>1
  <2>6. \A v \in Users : SavedRuns(v)' => SavedRuns(v)
    <3>1. SavesShift
      BY <2>2, <2>3, MovedShift
    <3> QED
      BY <3>1, SavedStay
  <2>7. \A v \in Users : LoadAsked(v)' \/ SavedRuns(v)' =>
          LoadAsked(v) \/ SavedRuns(v) \/ NobodyLent(v)'
    BY <1>4, <2>5, <2>6, NobodyNew
  <2>8. \A p \in Players : Lent(p) /\ Covered(p) => UserOfPlayer(p) \in held'
    BY <1>3 DEF Covered
  <2> QED
    BY <1>4, <2>7, <2>8, LoansStay
<1> QED
  BY <1>5, <1>6

(* The entry that lends the account's progress to a new player.            *)
LEMMA EnterHolds ==
  ASSUME Typed, Typed', Custody, Requests, Owners, Holds, NEW u \in Users, Enter(u)
  PROVE  Holds'
<1>1. PICK s \in Sessions : s = Head(dbJobs[u]).session /\ DbHead(u, "loading")
  BY HeadRequest DEF Enter, EntryKinds
<1>2. /\ UserOf[s] = u /\ dbJobs[u] # <<>> /\ phase[s] = "ENTERING_GAME" /\ conn[s]
      /\ Request(u, 1, s) /\ dbJobs[u][1].kind = "loading"
  BY <1>1, HeadRequest DEF EntryKinds, Asks
<1>3. UNCHANGED <<held, conn, registered, replaced, arg, pc>> /\ dbJobs' = PopDb(u)
  BY DEF Enter
<1>4. SteadyAsks
  BY <1>2, <1>3, PopAsks
<1>5. CASE CancelGameEntry(s) /\ UNCHANGED <<playerVars, player>>
  <2>1. \A s2 \in Sessions : phase'[s2] = "ENTERING_GAME" => phase[s2] = "ENTERING_GAME"
    BY <1>5 DEF CancelGameEntry, TryChangePhase, Typed, TypeOK
  <2>2. SteadyLoans /\ SteadyHolders /\ SteadyBinds /\ SteadySessions
    BY <1>3, <1>5, <2>1, UnchangedLoans DEF SteadyHolders, SteadyBinds, SteadySessions
  <2> QED
    BY <1>3, <1>4, <2>2, QuietHolds
<1>6. CASE \E p \in Players :
             /\ presence[p] = "NONE"
             /\ presence' = [presence EXCEPT ![p] = "LOADED"]
             /\ owner' = [owner EXCEPT ![p] = s]
             /\ TryChangePhase(s, "ENTERING_GAME", "IN_GAME")
  <2>1. PICK p \in Players :
             /\ presence[p] = "NONE"
             /\ presence' = [presence EXCEPT ![p] = "LOADED"]
             /\ owner' = [owner EXCEPT ![p] = s]
             /\ TryChangePhase(s, "ENTERING_GAME", "IN_GAME")
    BY <1>6
  <2>2. /\ presence'[p] = "LOADED" /\ owner'[p] = s
        /\ \A q \in Players \ {p} : presence'[q] = presence[q] /\ owner'[q] = owner[q]
        /\ phase'[s] = "IN_GAME" /\ \A s2 \in Sessions \ {s} : phase'[s2] = phase[s2]
    BY <1>2, <2>1 DEF TryChangePhase, Typed, TypeOK, RoomsTypeOK
  <2>3. registered[u] = s
    BY <1>2 DEF Holds, SessionRegistered
  <2>4. NobodyLent(u)
    <3>1. LoadAsked(u)
      <4>1. 1 \in Nat
        OBVIOUS
      <4> QED
        BY <1>2, <4>1 DEF LoadAsked
    <3> QED
      BY <3>1 DEF Holds
  <2>5. \A q \in Players \ {p} :
          /\ Lent(q)' <=> Lent(q)
          /\ Playing(q)' <=> Playing(q)
          /\ UserOfPlayer(q)' = UserOfPlayer(q)
          /\ Covered(q) => Covered(q)'
          /\ Attended(q) => Attended(q)'
    BY <1>3, <2>2 DEF Lent, Playing, UserOfPlayer, Covered, Attended, WillHold, ThreadUser
  <2>6. UserOfPlayer(p)' = u /\ Lent(p)' /\ Playing(p)' /\ Attended(p)'
    BY <1>2, <1>3, <2>2, <2>3 DEF Lent, Playing, UserOfPlayer, Attended
  <2>7. \A q \in Players \ {p} : Lent(q)' => UserOfPlayer(q)' # u
    BY <2>4, <2>5 DEF NobodyLent
  <2>8. ASSUME NEW q \in Players PROVE PlayerHeld(q)'
    <3>1. ASSUME NEW q2 \in Players, Lent(q)', Lent(q2)', UserOfPlayer(q)' = UserOfPlayer(q2)'
          PROVE  q = q2
      <4>1. CASE q = p \/ q2 = p
        BY <2>6, <2>7, <3>1, <4>1
      <4>2. CASE q # p /\ q2 # p
        BY <2>5, <3>1, <4>2 DEF Holds, PlayerHeld
      <4> QED
        BY <4>1, <4>2
    <3>2. CASE q = p
      BY <2>2, <2>6, <3>1, <3>2 DEF PlayerHeld
    <3>3. CASE q # p
      <4>1. PlayerHeld(q)
        BY DEF Holds
      <4> QED
        BY <2>2, <2>5, <3>1, <3>3, <4>1 DEF PlayerHeld
    <3> QED
      BY <3>2, <3>3
  <2>9. ASSUME NEW t \in Threads PROVE ThreadHolds(t)'
    <3>1. ThreadHolds(t) /\ arg[t] # p
      BY <2>1 DEF Holds, Custody, Unborn
    <3>2. CASE pc[t] \notin Holding
      BY <1>3, <3>2 DEF ThreadHolds, Holding
    <3>3. CASE pc[t] \in Holding
      <4>1. PICK q \in Players \ {p} : q = arg[t]
        BY <3>1, <3>3, ThreadArg
      <4>2. Lent(arg[t])' <=> Lent(arg[t])
        BY <1>3, <2>5, <4>1 DEF Lent
      <4>3. Covered(arg[t]) => Covered(arg[t])'
        BY <1>3, <2>5, <4>1 DEF Covered, UserOfPlayer
      <4> QED
        BY <1>3, <3>1, <4>2, <4>3 DEF ThreadHolds
    <3> QED
      BY <3>2, <3>3
  <2>10. \A s2 \in Sessions : SessionRegistered(s2)'
    <3>1. SteadySessions
      BY <1>3, <2>2 DEF SteadySessions
    <3> QED
      BY <1>3, <3>1, SessionsStay
  <2>11. ASSUME LoadAsked(u)' \/ SavedRuns(u)' PROVE FALSE
    <3>1. Moved(u, 1, 0, NoLoad)
      BY <1>2, <1>3, PopMoves
    <3>2. CASE LoadAsked(u)'
      <4>1. PICK s2 \in Sessions, i \in Nat : Request(u, i, s2)' /\ conn'[s2]
              /\ dbJobs'[u][i].kind \in {"load", "loading"}
        BY <3>2 DEF LoadAsked
      <4>2. Request(u, i + 1, s2) /\ dbJobs'[u][i] = dbJobs[u][i + 1] /\ i # 0
        BY <3>1, <4>1, RequestMoved DEF Request
      <4>3. UserOf[s2] = u /\ phase[s2] = "ENTERING_GAME"
        <5>1. PICK j \in Nat : j = i + 1
          OBVIOUS
        <5>2. Request(u, j, s2) /\ dbJobs[u][j].kind \in {"load", "loading"}
          BY <4>1, <4>2, <5>1
        <5>3. UserOf[s2] = u /\ Asks(s2, dbJobs[u][j].kind)
          BY <5>2 DEF Requests, QueueRequests
        <5> QED
          BY <5>2, <5>3 DEF Asks
      <4>4. s2 = s
        BY <1>3, <2>3, <4>1, <4>3 DEF Holds, SessionRegistered
      <4>5. \A j \in Nat : Request(u, j, s) => j = 1
        BY <1>2 DEF Requests, QueueRequests
      <4>6. i + 1 = 1
        BY <4>2, <4>4, <4>5
      <4> QED
        BY <4>2, <4>6
    <3>3. CASE SavedRuns(u)'
      <4>1. PICK q \in Players, i \in Nat : SaveAt(u, i, q)' /\ dbJobs'[u][i].kind = "saved"
        BY <3>3 DEF SavedRuns
      <4>2. i \in 1 .. Len(dbJobs'[u]) /\ i \in Nat \ {0}
        BY <4>1 DEF SaveAt, Typed, TypeOK, RoomsTypeOK
      <4>3. i + 1 \in 2 .. Len(dbJobs[u]) /\ dbJobs'[u][i] = dbJobs[u][i + 1]
        BY <3>1, <4>2 DEF Moved
      <4> QED
        BY <4>1, <4>3 DEF Requests, HeadRuns
    <3> QED
      BY <2>11, <3>2, <3>3
  <2>12. ASSUME NEW v \in Users, LoadAsked(v)' \/ SavedRuns(v)' PROVE NobodyLent(v)'
    <3>1. v # u /\ NobodyLent(v)
      BY <1>4, <2>11, <2>12 DEF SteadyAsks, Holds
    <3> QED
      BY <2>5, <2>6, <3>1 DEF NobodyLent
  <2> QED
    BY <2>8, <2>9, <2>10, <2>12 DEF Holds
<1> QED
  BY <1>1, <1>5, <1>6 DEF Enter

LEMMA MarkSavedHolds ==
  ASSUME Typed, Typed', SaveJobs, Owners, Holds, NEW u \in Users, MarkSaved(u)
  PROVE  Holds'
<1>1. PICK p \in Players :
        /\ presence[p] = "LEFT_IN_ROOM" /\ UserOfPlayer(p) = u
        /\ presence' = [presence EXCEPT ![p] = "SAVED"]
        /\ Moved(u, 0, 1, [kind |-> "saved", player |-> p])
  BY MarkSavedJobs
<1>2. UNCHANGED <<held, owner, conn, phase, registered, replaced, arg, pc>>
  BY DEF MarkSaved
<1>3. presence'[p] = "SAVED" /\ \A q \in Players \ {p} : presence'[q] = presence[q]
  BY <1>1 DEF Typed, TypeOK, RoomsTypeOK
<1>4. SteadyLoans
  BY <1>1, <1>2, <1>3 DEF SteadyLoans, Lent, Playing
<1>5. SteadyHolders /\ SteadyBinds /\ SteadySessions
  BY <1>2 DEF SteadyHolders, SteadyBinds, SteadySessions
<1>6. NobodyLent(u)'
  <2>1. ASSUME NEW q \in Players, Lent(q)', UserOfPlayer(q)' = u PROVE FALSE
    <3>1. Lent(q) /\ UserOfPlayer(q) = u
      BY <1>2, <1>4, <2>1 DEF SteadyLoans, UserOfPlayer
    <3>2. Lent(p)
      BY <1>1 DEF Lent
    <3>3. q = p
      BY <1>1, <3>1, <3>2 DEF Holds, PlayerHeld
    <3> QED
      BY <1>3, <2>1, <3>3 DEF Lent
  <2> QED
    BY <2>1 DEF NobodyLent
<1>7. PICK job : job = [kind |-> "saved", player |-> p]
  OBVIOUS
<1>8. \A v \in Users : LoadAsked(v)' => LoadAsked(v)
  BY <1>1, <1>2, <1>7, LoadsMoved
<1>9. ASSUME NEW v \in Users, SavedRuns(v)', v # u PROVE SavedRuns(v)
  BY <1>1, <1>9 DEF SavedRuns, SaveAt, Moved
<1>10. \A q \in Players : Lent(q) /\ Covered(q) => UserOfPlayer(q) \in held'
  BY <1>2 DEF Covered
<1>11. \A v \in Users : LoadAsked(v)' \/ SavedRuns(v)' =>
         LoadAsked(v) \/ SavedRuns(v) \/ NobodyLent(v)'
  BY <1>6, <1>8, <1>9
<1> QED
  BY <1>4, <1>5, <1>10, <1>11, LoansStay

LEMMA ReleaseSavedHolds ==
  ASSUME Typed, Typed', Requests, Owners, Holds, NEW u \in Users, ReleaseSaved(u)
  PROVE  Holds'
<1>1. /\ UNCHANGED <<presence, owner, conn, phase, registered, replaced, arg, pc>>
      /\ held' = held \ {u} /\ dbJobs[u] # <<>> /\ Head(dbJobs[u]).kind = "saved"
  BY DEF ReleaseSaved, Release, DbHead
<1>2. NobodyLent(u)
  <2>1. /\ dbJobs[u] \in Seq(DbJob) /\ Head(dbJobs[u]) = dbJobs[u][1]
        /\ 1 \in 1 .. Len(dbJobs[u]) /\ Head(dbJobs[u]) \in DbJob
    BY <1>1, TailFacts DEF Typed, TypeOK, RoomsTypeOK
  <2>2. PICK p \in Players : p = Head(dbJobs[u]).player
    BY <1>1, <2>1 DEF DbJob, SessionJob, SaveJob
  <2>3. SaveAt(u, 1, p) /\ dbJobs[u][1].kind = "saved" /\ 1 \in Nat
    BY <1>1, <2>1, <2>2 DEF SaveAt
  <2>4. SavedRuns(u)
    BY <2>3 DEF SavedRuns
  <2> QED
    BY <2>4 DEF Holds
<1>3. SteadyLoans /\ SteadyHolders /\ SteadyBinds /\ SteadySessions
  BY <1>1, UnchangedLoans DEF SteadyHolders, SteadyBinds, SteadySessions
<1>4. \A p \in Players : Lent(p) /\ Covered(p) => UserOfPlayer(p) \in held'
  BY <1>1, <1>2 DEF Covered, NobodyLent
<1>5. \E n \in {0, 1} : \E d \in {0, 1} : \E job : Moved(u, d, n, job)
  <2>1. CASE parked[u] = NoLoad
    BY <1>1, <2>1, PopMoves DEF ReleaseSaved
  <2>2. CASE parked[u] # NoLoad
    <3>1. PICK job \in DbJob : job = ParkedJob(u)
      BY <2>2, ParkedJobTyped DEF Typed, TypeOK
    <3>2. dbJobs' = ContinueDb(u, job)
      BY <2>2, <3>1 DEF ReleaseSaved
    <3> QED
      BY <1>1, <3>1, <3>2, ContinueMoves
  <2> QED
    BY <2>1, <2>2
<1>6. ASSUME NEW v \in Users, LoadAsked(v)' PROVE LoadAsked(v) \/ v = u
  BY <1>1, <1>5, <1>6, LoadsMoved
<1>7. ASSUME NEW v \in Users, SavedRuns(v)', v # u PROVE SavedRuns(v)
  BY <1>5, <1>7 DEF SavedRuns, SaveAt, Moved
<1>8. \A v \in Users : LoadAsked(v)' \/ SavedRuns(v)' =>
        LoadAsked(v) \/ SavedRuns(v) \/ NobodyLent(v)'
  BY <1>2, <1>3, <1>6, <1>7, NobodyNew
<1> QED
  BY <1>3, <1>4, <1>8, LoansStay

LEMMA DbHolds ==
  ASSUME Typed, Typed', Custody, Requests, SaveJobs, Owners, Holds, NEW u \in Users, DbStep(u)
  PROVE  Holds'
<1>1. CASE CheckConnected(u) \/ AcceptReturn(u)
  <2>1. /\ UNCHANGED <<held, presence, owner, conn, registered, replaced, arg, pc>>
        /\ \A s \in Sessions : phase'[s] = "ENTERING_GAME" => phase[s] = "ENTERING_GAME"
    BY <1>1 DEF CheckConnected, AcceptReturn, TryChangePhase, Typed, TypeOK
  <2>2. SteadyLoans /\ SteadyHolders /\ SteadyBinds /\ SteadySessions
    BY <2>1, UnchangedLoans DEF SteadyHolders, SteadyBinds, SteadySessions
  <2>3. SteadyAsks
    <3>1. CASE AcceptReturn(u)
      BY <2>1, <3>1, PopAsks DEF AcceptReturn, DbHead
    <3> QED
      BY <1>1, <3>1, CheckAsks
  <2> QED
    BY <2>1, <2>2, <2>3, QuietHolds
<1> QED
  BY <1>1, SelectHolds, EnterHolds, MarkSavedHolds, ReleaseSavedHolds DEF DbStep

LEMMA TimerHolds ==
  ASSUME Typed, Typed', Owners, Holds, NEW timer \in timers, ExpireTimer(timer)
  PROVE  Holds'
<1>1. /\ UNCHANGED <<held, presence, owner, conn, registered, replaced, arg, pc, dbJobs>>
      /\ \A s \in Sessions : phase'[s] = "ENTERING_GAME" => phase[s] = "ENTERING_GAME"
  BY DEF ExpireTimer, Expire, CancelGameEntry, TryChangePhase, Typed, TypeOK
<1>2. SteadyLoans /\ SteadyHolders /\ SteadyBinds /\ SteadySessions /\ SteadyAsks
  BY <1>1, UnchangedLoans, SameAsks DEF SteadyHolders, SteadyBinds, SteadySessions
<1> QED
  BY <1>1, <1>2, QuietHolds

LEMMA RoomHolds ==
  ASSUME Typed, Typed', Custody, Custody', SaveJobs, Owners, Holds, NEW r \in Rooms, RunRoom(r)
  PROVE  Holds'
<1>1. UNCHANGED <<held, owner, conn, phase, registered, replaced, arg, pc>>
  BY RoomEffect DEF RunRoom
<1>2. SteadyLoans
  BY <1>1, RoomEffect DEF SteadyLoans, Lent, Playing
<1>3. SteadyHolders /\ SteadyBinds /\ SteadySessions
  BY <1>1 DEF SteadyHolders, SteadyBinds, SteadySessions
<1>4. SteadyAsks
  <2>1. CASE NoSave
    BY <1>1, <2>1, SameAsks
  <2>2. CASE ~NoSave
    <3>1. PICK p \in Players, n \in Nat \ {0}, job \in DbJob :
            UserOfPlayer(p) \in Users /\ job.kind = "save" /\ Moved(UserOfPlayer(p), 0, n, job)
      BY <2>2, RoomSaves
    <3> QED
      BY <1>1, <3>1, MovedAsks
  <2> QED
    BY <2>1, <2>2
<1> QED
  BY <1>1, <1>2, <1>3, <1>4, QuietHolds

LEMMA NextHolds ==
  ASSUME Windows = {}, Typed, Typed', Custody, Custody', Requests, SaveJobs, Owners, Holds,
         [Next]_vars
  PROVE  Holds'
<1>1. ASSUME NEW s \in Sessions,
             Handle(s) \/ Disconnect(s) \/ BindStep(s) \/ DiscStep(s) \/ ParkReturn(s)
      PROVE  Holds'
  BY <1>1, HandleHolds, BindHolds, SessionHolds
<1>2. CASE UNCHANGED vars
  <2>1. SteadyLoans /\ SteadyHolders /\ SteadyBinds /\ SteadySessions /\ SteadyAsks
    BY <1>2, UnchangedLoans, SameAsks DEF SteadyHolders, SteadyBinds, SteadySessions
  <2> QED
    BY <1>2, <2>1, QuietHolds
<1> QED
  BY <1>1, <1>2, ThreadStepHolds, DbHolds, TimerHolds, RoomHolds DEF Next, ServerStep

-----------------------------------------------------------------------------
(* What the windows closed give.                                           *)

LEMMA OwnersHold ==
  ASSUME "drop" \notin Windows
  PROVE  Spec => [](Typed /\ Custody /\ Registration /\ Requests /\ SaveJobs /\ Owners)
<1>1. Init => Typed /\ Custody /\ Registration /\ Requests /\ SaveJobs /\ Owners
  BY InitTyped, InitCustody, InitRegistration, InitRequests, InitSaveJobs, InitOwners
<1>2. Typed /\ Custody /\ Registration /\ Requests /\ SaveJobs /\ Owners /\ [Next]_vars =>
        (Typed /\ Custody /\ Registration /\ Requests /\ SaveJobs /\ Owners)'
  BY NextTyped, NextCustody, NextRegistration, NextRequests, NextSaveJobs, NextOwners
<1> QED
  BY <1>1, <1>2, PTL DEF Spec

(* A session that is gone leaves no player playing, if no session goes     *)
(* between the connection check of its load and the player's registration  *)
(* (GameEntry::Enter, GameSession::OnDisconnected).                        *)
THEOREM NobodyLeftBehind ==
  ASSUME "drop" \notin Windows
  PROVE  Spec => []NoPlayerLeftBehind
<1>1. Typed /\ Owners => NoPlayerLeftBehind
  <2> SUFFICES ASSUME Typed, Owners, NEW p \in Players, Playing(p), ~conn[owner[p]],
                      pc[<<"disc", owner[p]>>] = "idle"
               PROVE  FALSE
    BY DEF NoPlayerLeftBehind, Playing
  <2>1. player[owner[p]] = p /\ owner[p] \in Sessions
    BY DEF Owners, PlayerOwned, Playing, Typed, TypeOK, RoomsTypeOK
  <2>2. PlaysOn(owner[p])
    BY <2>1 DEF PlaysOn, Players, NoPlayer
  <2> QED
    BY <2>1, <2>2 DEF Owners, SessionPlayer
<1> QED
  BY <1>1, OwnersHold, PTL

Loans == Typed /\ Custody /\ Registration /\ Requests /\ SaveJobs /\ Owners /\ Holds

LEMMA LoansHold ==
  ASSUME Windows = {}
  PROVE  Spec => []Loans
<1>1. Init => Loans
  BY InitTyped, InitCustody, InitRegistration, InitRequests, InitSaveJobs, InitOwners,
     InitHolds DEF Loans
<1>2. Loans /\ [Next]_vars => Loans'
  <2>1. SUFFICES ASSUME Loans, [Next]_vars PROVE Loans'
    OBVIOUS
  <2>2. "drop" \notin Windows
    OBVIOUS
  <2>3. Typed' /\ Custody' /\ Registration'
    BY <2>1, NextTyped, NextCustody, NextRegistration DEF Loans
  <2>4. Requests' /\ SaveJobs' /\ Owners'
    BY <2>1, <2>2, <2>3, NextRequests, NextSaveJobs, NextOwners DEF Loans
  <2>5. Holds'
    BY <2>1, <2>3, NextHolds DEF Loans
  <2> QED
    BY <2>3, <2>4, <2>5 DEF Loans
<1> QED
  BY <1>1, <1>2, PTL DEF Spec

(* A departure that must be saved has the account held until the save has  *)
(* ended (LeaveGameAndSave, OnDuplicateConnection, SaveLeftPlayer).        *)
THEOREM SavesAreHeld ==
  ASSUME Windows = {}
  PROVE  Spec => []HoldCoversSave
<1>1. Loans => HoldCoversSave
  BY DEF Loans, Holds, PlayerHeld, Covered, HoldCoversSave
<1> QED
  BY <1>1, LoansHold, PTL

(* No load of an account's progress runs while a player of the account     *)
(* holds newer progress (SaveGate::Park, ProgressCoordinator::RequestLoad). *)
THEOREM LoadsFollowSaves ==
  ASSUME Windows = {}
  PROVE  Spec => []LoadsAfterSave
<1>1. Loans => LoadsAfterSave
  <2> SUFFICES ASSUME Loans, NEW u \in Users, DbHead(u, "loading"), NEW p \in Players,
                      UserOfPlayer(p) = u, Unsaved(p)
               PROVE  FALSE
    BY DEF LoadsAfterSave
  <2>1. PICK s : s = Head(dbJobs[u]).session
    OBVIOUS
  <2>2. s \in Sessions /\ Request(u, 1, s) /\ dbJobs[u][1].kind = "loading" /\ conn[s] /\ 1 \in Nat
    BY <2>1, HeadRequest DEF EntryKinds, Loans
  <2>3. LoadAsked(u)
    BY <2>2 DEF LoadAsked
  <2> QED
    BY <2>3 DEF Loans, Holds, NobodyLent, Lent, Unsaved
<1> QED
  BY <1>1, LoansHold, PTL

StageOf == [p \in Players |-> Stage(presence[p])]
BorrowerOf == [p \in Players |-> IF owner[p] = NoSession THEN NoSession ELSE UserOfPlayer(p)]

(* What a step does to the lease.                                          *)
LEMMA LeaseStep ==
  ASSUME Loans, Loans', [Next]_vars
  PROVE  \/ UNCHANGED <<StageOf, BorrowerOf>>
         \/ Lease!LeaseNext
<1>0. Typed /\ Typed' /\ Custody /\ Requests /\ SaveJobs /\ Owners /\ Holds
  BY DEF Loans
<1>1. ASSUME UNCHANGED <<presence, owner>> PROVE UNCHANGED <<StageOf, BorrowerOf>>
  BY <1>1 DEF StageOf, BorrowerOf, UserOfPlayer
<1>2. ASSUME UNCHANGED owner, NEW p \in Players,
             \A q \in Players \ {p} : presence'[q] = presence[q]
      PROVE  /\ UNCHANGED BorrowerOf
             /\ StageOf' = [StageOf EXCEPT ![p] = Stage(presence'[p])]
             /\ StageOf[p] = Stage(presence[p])
  BY <1>2 DEF StageOf, BorrowerOf, UserOfPlayer
<1>3. CASE \E u \in Users : Enter(u)
  <2>1. PICK u \in Users : Enter(u)
    BY <1>3
  <2>2. PICK s : s = Head(dbJobs[u]).session /\ DbHead(u, "loading")
    BY <2>1 DEF Enter
  <2>3. s \in Sessions /\ Request(u, 1, s) /\ dbJobs[u][1].kind = "loading" /\ conn[s]
        /\ UserOf[s] = u /\ 1 \in Nat
    BY <1>0, <2>2, HeadRequest DEF EntryKinds
  <2>4. CASE UNCHANGED playerVars
    BY <1>1, <2>4
  <2>5. CASE ~UNCHANGED playerVars
    <3>1. PICK p \in Players : /\ presence[p] = "NONE"
                               /\ presence' = [presence EXCEPT ![p] = "LOADED"]
                               /\ owner' = [owner EXCEPT ![p] = s]
      BY <2>1, <2>2, <2>5 DEF Enter
    <3>2. NobodyLent(u)
      <4>1. LoadAsked(u)
        BY <2>3 DEF LoadAsked
      <4> QED
        BY <1>0, <4>1 DEF Holds
    <3>3. ASSUME NEW q \in Players, BorrowerOf[q] = u PROVE StageOf[q] \in {"unplayed", "saved"}
      <4>1. owner[q] # NoSession /\ UserOfPlayer(q) = u
        BY <3>3, ProgressAssumption DEF BorrowerOf
      <4>2. ~Lent(q) /\ presence[q] # "NONE"
        BY <1>0, <3>2, <4>1 DEF NobodyLent, Owners, PlayerOwned
      <4>3. presence[q] \in {"LEFT_BEFORE_ROOM", "SAVED"}
        BY <1>0, <4>2 DEF Lent, Typed, TypeOK, RoomsTypeOK, Presences
      <4> QED
        BY <4>3 DEF StageOf, Stage
    <3>4. /\ presence'[p] = "LOADED" /\ owner'[p] = s
          /\ \A q \in Players \ {p} : presence'[q] = presence[q] /\ owner'[q] = owner[q]
      BY <1>0, <3>1 DEF Typed, TypeOK, RoomsTypeOK
    <3>5. StageOf[p] = "fresh"
      BY <3>1 DEF StageOf, Stage
    <3>6. StageOf' = [StageOf EXCEPT ![p] = "lent"]
      <4>1. Stage(presence'[p]) = "lent"
        BY <3>4 DEF Stage
      <4>2. StageOf' = [StageOf EXCEPT ![p] = Stage(presence'[p])]
        BY <3>4 DEF StageOf
      <4> QED
        BY <4>1, <4>2
    <3>7. BorrowerOf' = [BorrowerOf EXCEPT ![p] = u]
      BY <2>3, <3>4, WorldAssumption DEF BorrowerOf, UserOfPlayer
    <3>8. Lease!Lend(u, p)
      BY <3>3, <3>5, <3>6, <3>7 DEF Lease!Lend, Lease!Free, StageOf, BorrowerOf
    <3> QED
      BY <3>8 DEF Lease!LeaseNext
  <2> QED
    BY <2>4, <2>5
<1>4. CASE \E t \in Threads : MarkDisconnected(t)
  <2>0. PICK t \in Threads : MarkDisconnected(t)
    BY <1>4
  <2>1. PICK p \in Players :
          /\ presence'[p] = AfterDisconnect(presence[p]) /\ UNCHANGED owner
          /\ \A q \in Players \ {p} : presence'[q] = presence[q]
    <3>1. PICK p \in Players : p = arg[t]
      BY <1>0, <2>0 DEF MarkDisconnected, Typed, ThreadsOK
    <3>2. presence' = [presence EXCEPT ![p] = AfterDisconnect(presence[p])] /\ UNCHANGED owner
      BY <2>0, <3>1 DEF MarkDisconnected
    <3> QED
      BY <1>0, <3>1, <3>2 DEF Typed, TypeOK, RoomsTypeOK
  <2>2. /\ UNCHANGED BorrowerOf
        /\ StageOf' = [StageOf EXCEPT ![p] = Stage(presence'[p])]
        /\ StageOf[p] = Stage(presence[p])
    BY <1>2, <2>1
  <2>3. CASE presence[p] = "LOADED"
    <3>1. StageOf[p] = "lent" /\ Stage(presence'[p]) = "unplayed"
      BY <2>1, <2>2, <2>3 DEF Stage, AfterDisconnect
    <3>2. Lease!HandBack(p)
      BY <2>2, <3>1 DEF Lease!HandBack, StageOf, BorrowerOf
    <3> QED
      BY <3>2 DEF Lease!LeaseNext
  <2>4. CASE presence[p] # "LOADED"
    <3>1. Stage(presence'[p]) = Stage(presence[p])
      BY <2>1, <2>4 DEF Stage, AfterDisconnect
    <3>2. UNCHANGED StageOf
      BY <2>2, <3>1 DEF StageOf
    <3> QED
      BY <2>2, <3>2
  <2> QED
    BY <2>3, <2>4
<1>5. CASE \E u \in Users : MarkSaved(u)
  <2>1. PICK p \in Players :
          /\ presence[p] = "LEFT_IN_ROOM" /\ presence'[p] = "SAVED" /\ UNCHANGED owner
          /\ \A q \in Players \ {p} : presence'[q] = presence[q]
    <3>1. PICK u \in Users : MarkSaved(u)
      BY <1>5
    <3>2. PICK p \in Players :
            presence[p] = "LEFT_IN_ROOM" /\ presence' = [presence EXCEPT ![p] = "SAVED"]
      BY <1>0, <3>1, MarkSavedJobs
    <3>3. UNCHANGED owner
      BY <3>1 DEF MarkSaved
    <3> QED
      BY <1>0, <3>2, <3>3 DEF Typed, TypeOK, RoomsTypeOK
  <2>2. /\ UNCHANGED BorrowerOf
        /\ StageOf' = [StageOf EXCEPT ![p] = Stage(presence'[p])]
        /\ StageOf[p] = Stage(presence[p])
    BY <1>2, <2>1
  <2>3. StageOf[p] = "played" /\ Stage(presence'[p]) = "saved"
    BY <2>1, <2>2 DEF Stage
  <2>4. Lease!Save(p)
    BY <2>2, <2>3 DEF Lease!Save, StageOf, BorrowerOf
  <2> QED
    BY <2>4 DEF Lease!LeaseNext
<1>6. CASE \E r \in Rooms : RunRoom(r)
  <2>1. PICK r \in Rooms : RunRoom(r)
    BY <1>6
  <2>2. UNCHANGED owner
    BY <1>0, <2>1, RoomEffect
  <2>3. CASE UNCHANGED presence
    BY <1>1, <2>2, <2>3
  <2>4. CASE ~UNCHANGED presence
    <3>1. MarkEnteredRoom(r)
      BY <2>1, <2>4 DEF RunRoom, RoomStep, LeaveRoomAndSave, EnterPlayer, MapLoadComplete,
         ChangeChannel, UsePortal, StayInRoom, MovePlayer
    <3>2. PICK p \in Players : /\ presence[p] = "LOADED" /\ presence'[p] = "IN_ROOM"
                               /\ \A q \in Players \ {p} : presence'[q] = presence[q]
      BY <1>0, <2>4, <3>1 DEF MarkEnteredRoom, Typed, TypeOK, RoomsTypeOK
    <3>3. /\ UNCHANGED BorrowerOf
          /\ StageOf' = [StageOf EXCEPT ![p] = Stage(presence'[p])]
          /\ StageOf[p] = Stage(presence[p])
      BY <1>2, <2>2, <3>2
    <3>4. StageOf[p] = "lent" /\ Stage(presence'[p]) = "played"
      BY <3>2, <3>3 DEF Stage
    <3>5. Lease!Play(p)
      BY <3>3, <3>4 DEF Lease!Play, StageOf, BorrowerOf
    <3> QED
      BY <3>5 DEF Lease!LeaseNext
  <2> QED
    BY <2>3, <2>4
<1> QED
  BY <1>1, <1>3, <1>4, <1>5, <1>6, PlayersUntouched

(* The gate, the rooms, the sessions and the queues together implement the *)
(* lease: an account's progress is with one player at a time, and is lent  *)
(* again only when it was handed back unchanged or saved.                  *)
THEOREM ProgressIsLent ==
  ASSUME Windows = {}
  PROVE  Spec => ImplementsLease
<1>1. Init => Lease!LeaseInit
  <2> SUFFICES ASSUME Init PROVE Lease!LeaseInit
    OBVIOUS
  <2>1. presence = [p \in Players |-> "NONE"] /\ owner = [p \in Players |-> NoSession]
    BY DEF Init, RoomsInit
  <2> QED
    BY <2>1 DEF Lease!LeaseInit, Stage
<1>2. Loans /\ Loans' /\ [Next]_vars => [Lease!LeaseNext]_<<StageOf, BorrowerOf>>
  BY LeaseStep
<1> QED
  BY <1>1, <1>2, LoansHold, PTL DEF Spec, ImplementsLease, Lease!LeaseSpec, StageOf, BorrowerOf

-----------------------------------------------------------------------------
(* Nothing that waits is forgotten: the safety behind the liveness         *)
(* properties.  First, a queued job stays in its queue until it runs.      *)

InQueue(q, job) == \E i \in 1 .. Len(q) : q[i] = job

LEMMA InAppend ==
  ASSUME NEW S, NEW q \in Seq(S), NEW e \in S, NEW job, job = e \/ InQueue(q, job)
  PROVE  InQueue(Append(q, e), job)
<1>1. CASE job = e
  <2>1. Len(q) + 1 \in 1 .. Len(Append(q, e)) /\ Append(q, e)[Len(q) + 1] = job
    BY <1>1, AppendFacts
  <2> QED
    BY <2>1 DEF InQueue
<1>2. CASE InQueue(q, job)
  <2>1. PICK i \in 1 .. Len(q) : q[i] = job
    BY <1>2 DEF InQueue
  <2>2. i \in 1 .. Len(Append(q, e)) /\ Append(q, e)[i] = job
    BY <2>1, AppendFacts
  <2> QED
    BY <2>2 DEF InQueue
<1> QED
  BY <1>1, <1>2

LEMMA InTail ==
  ASSUME NEW S, NEW q \in Seq(S), q # <<>>, NEW job, InQueue(q, job), job # Head(q)
  PROVE  InQueue(Tail(q), job)
<1>1. PICK i \in 1 .. Len(q) : q[i] = job
  BY DEF InQueue
<1>2. i # 1 /\ Len(q) \in Nat
  BY <1>1
<1>3. i - 1 \in 1 .. Len(Tail(q)) /\ Tail(q)[i - 1] = q[i]
  BY <1>2
<1> QED
  BY <1>1, <1>3 DEF InQueue

LEMMA InContinued ==
  ASSUME NEW S, NEW q \in Seq(S), q # <<>>, NEW e \in S, NEW job,
         job = e \/ (InQueue(q, job) /\ job # Head(q))
  PROVE  InQueue(<<e>> \o Tail(q), job)
<1>1. Tail(q) \in Seq(S) /\ Len(Tail(q)) \in Nat
  OBVIOUS
<1>2. CASE job = e
  <2>1. 1 \in 1 .. Len(<<e>> \o Tail(q)) /\ (<<e>> \o Tail(q))[1] = job
    BY <1>1, <1>2
  <2> QED
    BY <2>1 DEF InQueue
<1>3. CASE InQueue(q, job) /\ job # Head(q)
  <2>1. PICK i \in 1 .. Len(Tail(q)) : Tail(q)[i] = job
    BY <1>3, InTail DEF InQueue
  <2>2. i + 1 \in 1 .. Len(<<e>> \o Tail(q)) /\ (<<e>> \o Tail(q))[i + 1] = job
    BY <1>1, <2>1
  <2> QED
    BY <2>2 DEF InQueue
<1> QED
  BY <1>2, <1>3

(* The account queues: what each operation leaves in them.                 *)
DbQueued(u, job) == InQueue(dbJobs[u], job)

LEMMA AppendKeeps ==
  ASSUME Typed, NEW u, NEW job \in DbJob, dbJobs' = [dbJobs EXCEPT ![u] = Append(@, job)]
  PROVE  /\ \A v \in Users : \A x : DbQueued(v, x) => DbQueued(v, x)'
         /\ u \in Users => DbQueued(u, job)'
<1>1. dbJobs \in [Users -> Seq(DbJob)]
  BY DEF Typed, TypeOK, RoomsTypeOK
<1>2. ASSUME NEW v \in Users, NEW x, (v = u /\ x = job) \/ DbQueued(v, x)
      PROVE  DbQueued(v, x)'
  <2>1. CASE v = u
    <3>1. dbJobs'[v] = Append(dbJobs[v], job) /\ dbJobs[v] \in Seq(DbJob)
      BY <1>1, <2>1
    <3>2. x = job \/ InQueue(dbJobs[v], x)
      BY <1>2 DEF DbQueued
    <3>3. InQueue(Append(dbJobs[v], job), x)
      BY <3>1, <3>2, InAppend
    <3> QED
      BY <3>1, <3>3 DEF DbQueued, InQueue
  <2>2. CASE v # u
    BY <1>1, <1>2, <2>2 DEF DbQueued, InQueue
  <2> QED
    BY <2>1, <2>2
<1> QED
  BY <1>2

LEMMA PopKeeps ==
  ASSUME Typed, NEW u \in Users, dbJobs[u] # <<>>, dbJobs' = PopDb(u),
         NEW v \in Users, NEW x, DbQueued(v, x), v = u => x # Head(dbJobs[u])
  PROVE  DbQueued(v, x)'
<1>1. dbJobs \in [Users -> Seq(DbJob)] /\ dbJobs[u] \in Seq(DbJob)
  BY DEF Typed, TypeOK, RoomsTypeOK
<1>2. CASE v = u
  <2>1. InQueue(Tail(dbJobs[u]), x)
    BY <1>1, <1>2, InTail DEF DbQueued
  <2>2. dbJobs'[v] = Tail(dbJobs[u])
    BY <1>1, <1>2 DEF PopDb
  <2> QED
    BY <2>1, <2>2 DEF DbQueued, InQueue
<1>3. CASE v # u
  BY <1>1, <1>3 DEF DbQueued, InQueue, PopDb
<1> QED
  BY <1>2, <1>3

LEMMA ContinueKeeps ==
  ASSUME Typed, NEW u \in Users, dbJobs[u] # <<>>, NEW job \in DbJob,
         dbJobs' = ContinueDb(u, job), NEW v \in Users, NEW x,
         \/ v = u /\ x = job
         \/ DbQueued(v, x) /\ (v = u => x # Head(dbJobs[u]))
  PROVE  DbQueued(v, x)'
<1>1. dbJobs \in [Users -> Seq(DbJob)] /\ dbJobs[u] \in Seq(DbJob)
  BY DEF Typed, TypeOK, RoomsTypeOK
<1>2. CASE v = u
  <2>1. x = job \/ (InQueue(dbJobs[u], x) /\ x # Head(dbJobs[u]))
    BY <1>2 DEF DbQueued
  <2>2. InQueue(<<job>> \o Tail(dbJobs[u]), x)
    BY <1>1, <2>1, InContinued
  <2>3. dbJobs'[v] = <<job>> \o Tail(dbJobs[u])
    BY <1>1, <1>2 DEF ContinueDb
  <2> QED
    BY <2>2, <2>3 DEF DbQueued, InQueue
<1>3. CASE v # u
  BY <1>1, <1>3 DEF DbQueued, InQueue, ContinueDb
<1> QED
  BY <1>2, <1>3

LEMMA RequeueKeeps ==
  ASSUME Typed, NEW u \in Users, dbJobs[u] # <<>>, NEW job \in DbJob,
         dbJobs' = [dbJobs EXCEPT ![u] = Append(Tail(@), job)], NEW v \in Users, NEW x,
         \/ v = u /\ x = job
         \/ DbQueued(v, x) /\ (v = u => x # Head(dbJobs[u]))
  PROVE  DbQueued(v, x)'
<1>1. /\ dbJobs \in [Users -> Seq(DbJob)] /\ dbJobs[u] \in Seq(DbJob)
      /\ Tail(dbJobs[u]) \in Seq(DbJob)
  BY TailFacts DEF Typed, TypeOK, RoomsTypeOK
<1>2. CASE v = u
  <2>1. x = job \/ InQueue(Tail(dbJobs[u]), x)
    BY <1>1, <1>2, InTail DEF DbQueued
  <2>2. InQueue(Append(Tail(dbJobs[u]), job), x)
    BY <1>1, <2>1, InAppend
  <2>3. dbJobs'[v] = Append(Tail(dbJobs[u]), job)
    BY <1>1, <1>2
  <2> QED
    BY <2>2, <2>3 DEF DbQueued, InQueue
<1>3. CASE v # u
  BY <1>1, <1>3 DEF DbQueued, InQueue
<1> QED
  BY <1>2, <1>3

LEMMA Requeued ==
  ASSUME Typed, NEW u \in Users, dbJobs[u] # <<>>, NEW job \in DbJob,
         dbJobs' = [dbJobs EXCEPT ![u] = Append(Tail(@), job)]
  PROVE  DbQueued(u, job)'
  BY RequeueKeeps

SaveOf(p) == [kind |-> "save", player |-> p]

LEMMA SaveKeeps ==
  ASSUME Typed, NEW p \in Players, SaveLeftPlayer(p)
  PROVE  /\ \A v \in Users : \A x : DbQueued(v, x) => DbQueued(v, x)'
         /\ \A u \in Users : u = UserOfPlayer(p) => DbQueued(u, SaveOf(p))'
<1>0. SaveOf(p) \in DbJob
  BY DEF DbJob, SaveJob, SaveOf
<1>1. PICK u, job : u = UserOfPlayer(p) /\ job = SaveOf(p) /\ job \in DbJob
  BY <1>0
<1>2. dbJobs' = [dbJobs EXCEPT ![u] = Append(@, job)]
  BY <1>1 DEF SaveLeftPlayer, SaveOf
<1>3. /\ \A v \in Users : \A x : DbQueued(v, x) => DbQueued(v, x)'
      /\ u \in Users => DbQueued(u, job)'
  BY <1>1, <1>2, AppendKeeps
<1> QED
  BY <1>1, <1>3 DEF DbQueued

LEMMA DbHeadTakes ==
  ASSUME Typed, NEW u \in Users, DbStep(u), NEW v \in Users, NEW x, DbQueued(v, x),
         v = u => x # Head(dbJobs[u])
  PROVE  DbQueued(v, x)'
<1>1. CASE SelectCharacter(u)
  <2>1. dbJobs[u] # <<>> /\ Head(dbJobs[u]).session \in Sessions
    BY <1>1, DbHeadFacts DEF SelectCharacter, DbHead
  <2>2. CASE dbJobs' = PopDb(u)
    BY <2>1, <2>2, PopKeeps
  <2>3. PICK job \in DbJob : job = [kind |-> "load", session |-> Head(dbJobs[u]).session]
    BY <2>1 DEF DbJob, SessionJob
  <2>4. CASE dbJobs' = [dbJobs EXCEPT ![u] = Append(Tail(@), job)]
    BY <2>1, <2>4, RequeueKeeps
  <2>5. ParkResult(u) \in {"NOT_HELD", "BUSY", "PARKED"}
    BY DEF ParkResult
  <2> QED
    BY <1>1, <2>2, <2>3, <2>4, <2>5 DEF SelectCharacter
<1>2. CASE CheckConnected(u)
  <2>1. dbJobs[u] # <<>> /\ Head(dbJobs[u]).session \in Sessions
    BY <1>2, DbHeadFacts DEF CheckConnected, DbHead
  <2>2. PICK job \in DbJob : job = [kind |-> "loading", session |-> Head(dbJobs[u]).session]
    BY <2>1 DEF DbJob, SessionJob
  <2>3. dbJobs' = PopDb(u) \/ dbJobs' = ContinueDb(u, job)
    BY <1>2, <2>2 DEF CheckConnected
  <2> QED
    BY <2>1, <2>3, PopKeeps, ContinueKeeps
<1>3. CASE Enter(u) \/ AcceptReturn(u)
  <2>1. dbJobs[u] # <<>> /\ dbJobs' = PopDb(u)
    BY <1>3 DEF Enter, AcceptReturn, DbHead
  <2> QED
    BY <2>1, PopKeeps
<1>4. CASE MarkSaved(u)
  <2>1. dbJobs[u] # <<>> /\ Head(dbJobs[u]).player \in Players
    BY <1>4, DbHeadFacts DEF MarkSaved, DbHead
  <2>2. PICK job \in DbJob : job = [kind |-> "saved", player |-> Head(dbJobs[u]).player]
    BY <2>1 DEF DbJob, SaveJob
  <2> QED
    BY <1>4, <2>1, <2>2, ContinueKeeps DEF MarkSaved
<1>5. CASE ReleaseSaved(u)
  <2>1. dbJobs[u] # <<>>
    BY <1>5 DEF ReleaseSaved, DbHead
  <2>2. parked[u] # NoLoad => ParkedJob(u) \in DbJob
    BY ParkedJobTyped DEF Typed, TypeOK
  <2> QED
    BY <1>5, <2>1, <2>2, PopKeeps, ContinueKeeps DEF ReleaseSaved
<1> QED
  BY <1>1, <1>2, <1>3, <1>4, <1>5 DEF DbStep

LEMMA DropHoldKeeps ==
  ASSUME Typed, NEW t \in Threads, DropHold(t)
  PROVE  /\ \A v \in Users : \A x : DbQueued(v, x) => DbQueued(v, x)'
         /\ \A u \in Users : \A job :
              u = ThreadUser(t) /\ parked[u] # NoLoad /\ job = ParkedJob(u) =>
                DbQueued(u, job)'
<1>1. PICK u : u = ThreadUser(t) /\ u \in Users
  BY WorldAssumption DEF ThreadUser, Threads
<1>2. CASE parked[u] = NoLoad
  BY <1>1, <1>2 DEF DropHold, ReleaseHold, DbQueued, InQueue
<1>3. CASE parked[u] # NoLoad
  <2>1. PICK job \in DbJob : job = ParkedJob(u)
    BY <1>1, <1>3, ParkedJobTyped DEF Typed, TypeOK
  <2>2. dbJobs' = [dbJobs EXCEPT ![u] = Append(@, job)]
    BY <1>1, <1>3, <2>1 DEF DropHold, ReleaseHold
  <2>3. /\ \A v \in Users : \A x : DbQueued(v, x) => DbQueued(v, x)'
        /\ DbQueued(u, job)'
    BY <1>1, <2>2, AppendKeeps
  <2> QED
    BY <1>1, <2>1, <2>3
<1> QED
  BY <1>1, <1>2, <1>3

LEMMA PushDbKeeps ==
  ASSUME Typed, NEW s \in Sessions, NEW kind \in {"select", "load", "loading", "accept"},
         PushDb(UserOf[s], kind, s)
  PROVE  /\ \A v \in Users : \A x : DbQueued(v, x) => DbQueued(v, x)'
         /\ UserOf[s] \in Users /\ DbQueued(UserOf[s], [kind |-> kind, session |-> s])'
<1>1. PICK u, job :
        u = UserOf[s] /\ u \in Users /\ job \in DbJob /\ job = [kind |-> kind, session |-> s]
  BY WorldAssumption DEF DbJob, SessionJob
<1>2. dbJobs' = [dbJobs EXCEPT ![u] = Append(@, job)]
  BY <1>1 DEF PushDb
<1>3. /\ \A v \in Users : \A x : DbQueued(v, x) => DbQueued(v, x)'
      /\ DbQueued(u, job)'
  BY <1>1, <1>2, AppendKeeps
<1> QED
  BY <1>1, <1>3 DEF DbQueued

(* Only the worker of the account's queue takes a job out, and the first.  *)
LEMMA JobsStayQueued ==
  ASSUME Typed, Custody, [Next]_vars, NEW v \in Users, NEW x, DbQueued(v, x),
         DbStep(v) => x # Head(dbJobs[v])
  PROVE  DbQueued(v, x)'
<1>1. CASE dbJobs' = dbJobs
  BY <1>1 DEF DbQueued, InQueue
<1>2. ASSUME NEW s \in Sessions, Handle(s) \/ Disconnect(s) \/ BindStep(s) \/ DiscStep(s) \/ ParkReturn(s)
      PROVE  DbQueued(v, x)'
  <2>1. CASE HandleEnterGame(s)
    BY <2>1, PushDbKeeps DEF HandleEnterGame
  <2>2. CASE ParkReturn(s)
    BY <1>1, <2>2, PushDbKeeps DEF ParkReturn
  <2>3. CASE ~HandleEnterGame(s) /\ ~ParkReturn(s)
    BY <1>1, <1>2, <2>3 DEF Handle, HandleConnectLobby, HandleInGame, HandleReturnToLobby,
       Disconnect, BindStep, RejectLobbyConnect, RegisterUser, ReadReplaced,
       CheckPresence, KickReplaced, FinishLobbyConnect, DiscStep, ReadPlayer, UnregisterUser
  <2> QED
    BY <2>1, <2>2, <2>3
<1>3. ASSUME NEW t \in Threads, ThreadStep(t) PROVE DbQueued(v, x)'
  BY <1>1, <1>3, DropHoldKeeps DEF ThreadStep, TakeHold, MarkDisconnected, PushLeave
<1>4. ASSUME NEW u \in Users, DbStep(u) PROVE DbQueued(v, x)'
  BY <1>4, DbHeadTakes
<1>5. ASSUME NEW r \in Rooms, RunRoom(r) PROVE DbQueued(v, x)'
  BY <1>1, <1>5, RoomEffect, SaveKeeps
<1>6. ASSUME NEW timer \in timers, ExpireTimer(timer) PROVE DbQueued(v, x)'
  BY <1>1, <1>6 DEF ExpireTimer
<1>7. CASE UNCHANGED vars
  BY <1>1, <1>7
<1> QED
  BY <1>2, <1>3, <1>4, <1>5, <1>6, <1>7 DEF Next, ServerStep

(* Entries.  A timer's token names one parked load; the load that is parked *)
(* under it is of the timer's session.                                     *)
Tokens ==
  /\ \A u \in Users : parked[u] # NoLoad => parked[u].token < nextToken
  /\ \A timer \in timers :
       /\ timer.token < nextToken
       /\ parked[timer.user] # NoLoad /\ parked[timer.user].token = timer.token =>
            parked[timer.user].session = timer.session

LEMMA QuietTokens ==
  ASSUME Typed, Tokens, nextToken' = nextToken, timers' \subseteq timers,
         \A u \in Users : parked'[u] \in {parked[u], NoLoad}
  PROVE  Tokens'
  BY DEF Tokens, Typed, TypeOK, Timer

LEMMA ParkTokens ==
  ASSUME Typed, Tokens, NEW u \in Users, NEW kind, NEW s \in Sessions, Park(u, kind, s),
         \/ timers' = timers
         \/ /\ ParkResult(u) = "PARKED"
            /\ timers' = timers \cup {[user |-> u, session |-> s, token |-> nextToken]}
  PROVE  Tokens'
<1>1. /\ parked \in [Users -> ParkedLoad \cup {NoLoad}] /\ nextToken \in Nat
      /\ \A timer \in timers : timer.user \in Users /\ timer.token \in Nat
      /\ \A v \in Users : parked[v] # NoLoad => parked[v].token \in Nat
  BY DEF Typed, TypeOK, GateTypeOK, Timer, ParkedLoad
<1>2. CASE ParkResult(u) = "PARKED"
  <2>1. PICK load : load = [kind |-> kind, session |-> s, token |-> nextToken]
    OBVIOUS
  <2>2. /\ parked' = [parked EXCEPT ![u] = load] /\ nextToken' = nextToken + 1
        /\ load.token = nextToken /\ load.session = s
    BY <1>2, <2>1 DEF Park
  <2>3. ASSUME NEW v \in Users, parked'[v] # NoLoad PROVE parked'[v].token < nextToken'
    <3>1. CASE v = u
      BY <1>1, <2>2, <3>1
    <3>2. CASE v # u
      <4>1. parked'[v] = parked[v] /\ parked[v].token < nextToken /\ parked[v].token \in Nat
        BY <1>1, <2>2, <2>3, <3>2 DEF Tokens
      <4> QED
        BY <1>1, <2>2, <4>1
    <3> QED
      BY <3>1, <3>2
  <2>4. ASSUME NEW timer \in timers'
        PROVE  /\ timer.token < nextToken'
               /\ parked'[timer.user] # NoLoad /\ parked'[timer.user].token = timer.token =>
                    parked'[timer.user].session = timer.session
    <3>1. CASE timer \in timers
      <4>1. timer.token < nextToken /\ timer.user \in Users /\ timer.token \in Nat
        BY <1>1, <3>1 DEF Tokens
      <4>2. CASE timer.user = u
        BY <1>1, <2>2, <4>1, <4>2
      <4>3. CASE timer.user # u
        <5>1. parked'[timer.user] = parked[timer.user]
          BY <1>1, <2>2, <4>1, <4>3
        <5> QED
          BY <1>1, <2>2, <3>1, <4>1, <5>1 DEF Tokens
      <4> QED
        BY <4>2, <4>3
    <3>2. CASE timer = [user |-> u, session |-> s, token |-> nextToken]
      BY <1>1, <2>2, <3>2
    <3> QED
      BY <2>4, <3>1, <3>2
  <2> QED
    BY <2>3, <2>4 DEF Tokens
<1>3. CASE ParkResult(u) # "PARKED"
  BY <1>3, QuietTokens DEF Park
<1> QED
  BY <1>2, <1>3

LEMMA NextTokens ==
  ASSUME Typed, Tokens, [Next]_vars
  PROVE  Tokens'
<1>1. CASE UNCHANGED <<parked, nextToken, timers>>
  BY <1>1, QuietTokens
<1>2. ASSUME NEW s \in Sessions, Handle(s) \/ Disconnect(s) \/ BindStep(s) \/ DiscStep(s) \/ ParkReturn(s)
      PROVE  Tokens'
  <2>1. CASE ParkReturn(s)
    BY <2>1, ParkTokens, WorldAssumption DEF ParkReturn
  <2>2. CASE ~ParkReturn(s)
    BY <1>1, <1>2, <2>2 DEF Handle, HandleConnectLobby, HandleEnterGame, HandleInGame,
       HandleReturnToLobby, Disconnect, BindStep, RejectLobbyConnect, RegisterUser,
       ReadReplaced, CheckPresence, KickReplaced, FinishLobbyConnect, DiscStep, ReadPlayer,
       UnregisterUser
  <2> QED
    BY <2>1, <2>2
<1>3. ASSUME NEW t \in Threads, ThreadStep(t) PROVE Tokens'
  <2>1. CASE DropHold(t)
    <3>1. /\ parked' = [parked EXCEPT ![ThreadUser(t)] = NoLoad]
          /\ UNCHANGED <<nextToken, timers>>
      BY <2>1 DEF DropHold, ReleaseHold, Release
    <3> QED
      BY <3>1, QuietTokens DEF Typed, TypeOK, GateTypeOK
  <2>2. CASE ~DropHold(t)
    BY <1>1, <1>3, <2>2 DEF ThreadStep, TakeHold, Hold, MarkDisconnected, PushLeave
  <2> QED
    BY <2>1, <2>2
<1>4. ASSUME NEW u \in Users, DbStep(u) PROVE Tokens'
  <2>1. CASE SelectCharacter(u)
    <3>1. PICK s \in Sessions : s = Head(dbJobs[u]).session
      BY <2>1, DbHeadFacts DEF SelectCharacter
    <3>2. CASE Park(u, "load", s)
      <4>1. \/ timers' = timers
            \/ /\ ParkResult(u) = "PARKED"
               /\ timers' = timers \cup {[user |-> u, session |-> s, token |-> nextToken]}
        <5>1. ParkResult(u) \in {"NOT_HELD", "BUSY", "PARKED"}
          BY DEF ParkResult
        <5> QED
          BY <2>1, <3>1, <5>1 DEF SelectCharacter
      <4> QED
        BY <3>1, <3>2, <4>1, ParkTokens
    <3> QED
      BY <1>1, <2>1, <3>1, <3>2 DEF SelectCharacter
  <2>2. CASE ReleaseSaved(u)
    <3>1. parked' = [parked EXCEPT ![u] = NoLoad] /\ UNCHANGED <<nextToken, timers>>
      BY <2>2 DEF ReleaseSaved, Release
    <3> QED
      BY <3>1, QuietTokens DEF Typed, TypeOK, GateTypeOK
  <2>3. CASE CheckConnected(u) \/ Enter(u) \/ AcceptReturn(u) \/ MarkSaved(u)
    BY <1>1, <2>3 DEF CheckConnected, Enter, AcceptReturn, MarkSaved
  <2> QED
    BY <1>4, <2>1, <2>2, <2>3 DEF DbStep
<1>5. ASSUME NEW r \in Rooms, RunRoom(r) PROVE Tokens'
  BY <1>1, <1>5 DEF RunRoom
<1>6. ASSUME NEW timer \in timers, ExpireTimer(timer) PROVE Tokens'
  <2>1. /\ timers' \subseteq timers /\ nextToken' = nextToken
        /\ parked' = parked \/ parked' = [parked EXCEPT ![timer.user] = NoLoad]
    BY <1>6 DEF ExpireTimer, Expire
  <2> QED
    BY <2>1, QuietTokens DEF Typed, TypeOK, GateTypeOK
<1>7. CASE UNCHANGED vars
  BY <1>1, <1>7
<1> QED
  BY <1>2, <1>3, <1>4, <1>5, <1>6, <1>7 DEF Next, ServerStep

LEMMA InitTokens == Init => Tokens
  BY DEF Init, GateInit, Tokens

EntryKind(job) == job.kind \in {"select", "load", "loading"}

EntryQueued(s) ==
  \E job : DbQueued(UserOf[s], job) /\ EntryKind(job) /\ job.session = s

EntryParked(s) ==
  LET u == UserOf[s] IN
  /\ parked[u] # NoLoad /\ parked[u].kind = "load" /\ parked[u].session = s
  /\ [user |-> u, session |-> s, token |-> parked[u].token] \in timers

LEMMA WhereEntries ==
  ASSUME NEW s \in Sessions
  PROVE  EntryUnderway(s) <=> EntryQueued(s) \/ EntryParked(s)
  BY DEF EntryUnderway, EntryQueued, EntryParked, EntryKind, DbQueued, InQueue

(* A session begins to enter by its request only.                          *)
LEMMA EnteringBefore ==
  ASSUME Typed, [Next]_vars, NEW s \in Sessions, ~HandleEnterGame(s), conn'[s],
         phase'[s] = "ENTERING_GAME"
  PROVE  conn[s] /\ phase[s] = "ENTERING_GAME"
<1> USE DEF Typed, TypeOK
<1>1. ASSUME NEW t \in Sessions, Handle(t) \/ Disconnect(t) \/ BindStep(t) \/ DiscStep(t) \/ ParkReturn(t)
      PROVE  conn[s] /\ phase[s] = "ENTERING_GAME"
  <2>1. CASE Handle(t)
    <3>1. UNCHANGED conn
      BY <2>1 DEF Handle, HandleConnectLobby, HandleEnterGame, HandleInGame, HandleReturnToLobby
    <3>2. phase[s] = "ENTERING_GAME"
      BY <2>1 DEF Handle, HandleConnectLobby, HandleEnterGame, HandleInGame,
         HandleReturnToLobby, TryChangePhase
    <3> QED
      BY <3>1, <3>2
  <2>2. CASE BindStep(t)
    BY <2>2 DEF BindStep, RejectLobbyConnect, RegisterUser, ReadReplaced, CheckPresence,
       KickReplaced, FinishLobbyConnect, TryChangePhase
  <2>3. CASE Disconnect(t) \/ DiscStep(t) \/ ParkReturn(t)
    BY <2>3 DEF Disconnect, DiscStep, ReadPlayer, UnregisterUser, ParkReturn
  <2> QED
    BY <1>1, <2>1, <2>2, <2>3
<1>2. ASSUME NEW t \in Threads, ThreadStep(t) PROVE conn[s] /\ phase[s] = "ENTERING_GAME"
  BY <1>2 DEF ThreadStep, TakeHold, MarkDisconnected, PushLeave, DropHold
<1>3. ASSUME NEW u \in Users, DbStep(u) PROVE conn[s] /\ phase[s] = "ENTERING_GAME"
  <2>1. UNCHANGED conn
    BY <1>3 DEF DbStep, SelectCharacter, CheckConnected, Enter, AcceptReturn, MarkSaved,
       ReleaseSaved
  <2>2. CASE SelectCharacter(u) \/ CheckConnected(u)
    BY <2>1, <2>2 DEF SelectCharacter, CheckConnected, CancelGameEntry, TryChangePhase
  <2>3. CASE Enter(u)
    BY <2>1, <2>3 DEF Enter, CancelGameEntry, TryChangePhase
  <2>4. CASE AcceptReturn(u)
    BY <2>1, <2>4 DEF AcceptReturn, TryChangePhase
  <2>5. CASE MarkSaved(u) \/ ReleaseSaved(u)
    BY <2>1, <2>5 DEF MarkSaved, ReleaseSaved
  <2> QED
    BY <1>3, <2>2, <2>3, <2>4, <2>5 DEF DbStep
<1>4. ASSUME NEW r \in Rooms, RunRoom(r) PROVE conn[s] /\ phase[s] = "ENTERING_GAME"
  BY <1>4 DEF RunRoom
<1>5. ASSUME NEW timer \in timers, ExpireTimer(timer) PROVE conn[s] /\ phase[s] = "ENTERING_GAME"
  BY <1>5 DEF ExpireTimer, CancelGameEntry, TryChangePhase
<1>6. CASE UNCHANGED vars
  BY <1>6
<1> QED
  BY <1>1, <1>2, <1>3, <1>4, <1>5, <1>6 DEF Next, ServerStep

(* A cancelled entry is no entry any more.                                 *)
LEMMA Cancelled ==
  ASSUME Typed, NEW s \in Sessions, CancelGameEntry(s)
  PROVE  phase'[s] # "ENTERING_GAME"
  BY DEF CancelGameEntry, TryChangePhase, Typed, TypeOK

(* The request at the head goes on: as the next job, behind the mark of the *)
(* account, or with an answer.                                             *)
LEMMA HeadEntryGoesOn ==
  ASSUME Typed, NEW s \in Sessions, NEW u, u = UserOf[s], u \in Users, DbStep(u),
         dbJobs[u] # <<>>, EntryKind(Head(dbJobs[u])), Head(dbJobs[u]).session = s,
         conn[s], phase'[s] = "ENTERING_GAME"
  PROVE  EntryQueued(s)' \/ EntryParked(s)'
<1>1. CASE SelectCharacter(u)
  <2>1. ~CancelGameEntry(s)
    BY Cancelled
  <2>2. Park(u, "load", s) /\ ParkResult(u) \in {"NOT_HELD", "PARKED", "BUSY"}
    BY <1>1, <2>1 DEF SelectCharacter, ParkResult
  <2>3. CASE ParkResult(u) = "NOT_HELD"
    <3>1. PICK job : job \in DbJob /\ job = [kind |-> "load", session |-> s]
      BY DEF DbJob, SessionJob
    <3>2. dbJobs' = [dbJobs EXCEPT ![u] = Append(Tail(@), job)]
      BY <1>1, <2>1, <2>3, <3>1 DEF SelectCharacter
    <3>3. DbQueued(u, job)'
      <4>1. job \in DbJob
        BY <3>1
      <4> QED
        BY <3>2, <4>1, Requeued
    <3> QED
      BY <3>1, <3>3 DEF EntryQueued, EntryKind
  <2>4. CASE ParkResult(u) = "PARKED"
    <3>1. timers' = timers \cup {[user |-> u, session |-> s, token |-> nextToken]}
      BY <1>1, <2>1, <2>4 DEF SelectCharacter
    <3>2. parked' = [parked EXCEPT ![u] = [kind |-> "load", session |-> s, token |-> nextToken]]
      BY <2>2, <2>4 DEF Park
    <3>3. /\ parked'[u] = [kind |-> "load", session |-> s, token |-> nextToken]
          /\ parked'[u] # NoLoad
      BY <3>2 DEF Typed, TypeOK, GateTypeOK, NoLoad
    <3> QED
      BY <3>1, <3>3 DEF EntryParked
  <2>5. CASE ParkResult(u) = "BUSY"
    BY <1>1, <2>1, <2>5 DEF SelectCharacter
  <2> QED
    BY <2>2, <2>3, <2>4, <2>5
<1>2. CASE CheckConnected(u)
  <2>1. PICK job : job \in DbJob /\ job = [kind |-> "loading", session |-> s]
    BY DEF DbJob, SessionJob
  <2>2. dbJobs' = ContinueDb(u, job)
    BY <1>2, <2>1 DEF CheckConnected
  <2>3. DbQueued(u, job)'
    BY <2>1, <2>2, ContinueKeeps
  <2> QED
    BY <2>1, <2>3 DEF EntryQueued, EntryKind
<1>3. CASE Enter(u)
  <2>1. ~CancelGameEntry(s)
    BY Cancelled
  <2>2. TryChangePhase(s, "ENTERING_GAME", "IN_GAME")
    BY <1>3, <2>1 DEF Enter
  <2> QED
    BY <2>2 DEF TryChangePhase, Typed, TypeOK
<1>4. CASE AcceptReturn(u) \/ MarkSaved(u) \/ ReleaseSaved(u)
  BY <1>4 DEF AcceptReturn, MarkSaved, ReleaseSaved, DbHead, EntryKind
<1> QED
  BY <1>1, <1>2, <1>3, <1>4 DEF DbStep

(* A parked load stays parked with its timers until the mark goes or a     *)
(* timer fires.                                                            *)
LEMMA ParkedStays ==
  ASSUME Typed, [Next]_vars, NEW u \in Users, parked[u] # NoLoad,
         ~ReleaseSaved(u), ~\E t \in Threads : DropHold(t) /\ ThreadUser(t) = u,
         ~\E timer \in timers : ExpireTimer(timer)
  PROVE  parked'[u] = parked[u] /\ timers \subseteq timers'
<1> USE DEF Typed, TypeOK, GateTypeOK
<1>1. ASSUME NEW v \in Users, NEW kind, NEW s, Park(v, kind, s) PROVE parked'[u] = parked[u]
  BY <1>1 DEF Park, ParkResult
<1>2. ASSUME NEW s \in Sessions, Handle(s) \/ Disconnect(s) \/ BindStep(s) \/ DiscStep(s) \/ ParkReturn(s)
      PROVE  parked'[u] = parked[u] /\ timers \subseteq timers'
  <2>1. CASE ParkReturn(s)
    BY <1>1, <2>1, WorldAssumption DEF ParkReturn
  <2>2. CASE ~ParkReturn(s)
    BY <1>2, <2>2 DEF Handle, HandleConnectLobby, HandleEnterGame, HandleInGame,
       HandleReturnToLobby, Disconnect, BindStep, RejectLobbyConnect, RegisterUser,
       ReadReplaced, CheckPresence, KickReplaced, FinishLobbyConnect, DiscStep, ReadPlayer,
       UnregisterUser
  <2> QED
    BY <2>1, <2>2
<1>3. ASSUME NEW t \in Threads, ThreadStep(t)
      PROVE  parked'[u] = parked[u] /\ timers \subseteq timers'
  <2>1. CASE DropHold(t)
    BY <2>1 DEF DropHold, ReleaseHold, Release
  <2>2. CASE ~DropHold(t)
    BY <1>3, <2>2 DEF ThreadStep, TakeHold, Hold, MarkDisconnected, PushLeave
  <2> QED
    BY <2>1, <2>2
<1>4. ASSUME NEW v \in Users, DbStep(v)
      PROVE  parked'[u] = parked[u] /\ timers \subseteq timers'
  <2>1. CASE SelectCharacter(v)
    <3>1. parked' = parked \/ Park(v, "load", Head(dbJobs[v]).session)
      BY <2>1 DEF SelectCharacter
    <3>2. timers \subseteq timers'
      BY <2>1 DEF SelectCharacter, ParkResult
    <3> QED
      BY <1>1, <3>1, <3>2
  <2>2. CASE ReleaseSaved(v)
    BY <2>2 DEF ReleaseSaved, Release
  <2>3. CASE CheckConnected(v) \/ Enter(v) \/ AcceptReturn(v) \/ MarkSaved(v)
    BY <2>3 DEF CheckConnected, Enter, AcceptReturn, MarkSaved
  <2> QED
    BY <1>4, <2>1, <2>2, <2>3 DEF DbStep
<1>5. ASSUME NEW r \in Rooms, RunRoom(r)
      PROVE  parked'[u] = parked[u] /\ timers \subseteq timers'
  BY <1>5 DEF RunRoom
<1>6. CASE UNCHANGED vars
  BY <1>6
<1> QED
  BY <1>2, <1>3, <1>4, <1>5, <1>6 DEF Next, ServerStep

LEMMA ParkedGoesOn ==
  ASSUME Typed, Tokens, [Next]_vars, NEW s \in Sessions, EntryParked(s),
         phase[s] = "ENTERING_GAME", phase'[s] = "ENTERING_GAME"
  PROVE  EntryQueued(s)' \/ EntryParked(s)'
<1>1. PICK u, job : u = UserOf[s] /\ u \in Users /\ job = ParkedJob(u)
  BY WorldAssumption
<1>2. /\ parked[u] # NoLoad /\ parked[u].kind = "load" /\ parked[u].session = s
      /\ [user |-> u, session |-> s, token |-> parked[u].token] \in timers
      /\ job.kind = "load" /\ job.session = s /\ job \in DbJob
  BY <1>1, ParkedJobTyped DEF EntryParked, ParkedJob, Typed, TypeOK
<1>3. CASE ReleaseSaved(u)
  <2>1. dbJobs[u] # <<>> /\ dbJobs' = ContinueDb(u, job)
    BY <1>1, <1>2, <1>3 DEF ReleaseSaved, DbHead
  <2>2. DbQueued(u, job)'
    BY <1>1, <1>2, <2>1, ContinueKeeps
  <2> QED
    BY <1>1, <1>2, <2>2 DEF EntryQueued, EntryKind
<1>4. CASE \E t \in Threads : DropHold(t) /\ ThreadUser(t) = u
  <2>1. DbQueued(u, job)'
    BY <1>1, <1>2, <1>4, DropHoldKeeps
  <2> QED
    BY <1>1, <1>2, <2>1 DEF EntryQueued, EntryKind
<1>5. ASSUME NEW timer \in timers, ExpireTimer(timer) PROVE EntryParked(s)'
  <2>1. CASE timer.user = u /\ timer.token = parked[u].token
    <3>1. timer.session = s /\ Expires(timer.user, timer.token)
      BY <1>2, <2>1 DEF Tokens, Expires
    <3>2. CancelGameEntry(s)
      BY <1>5, <3>1 DEF ExpireTimer
    <3> QED
      BY <3>2, Cancelled
  <2>2. CASE ~(timer.user = u /\ timer.token = parked[u].token)
    <3>1. parked'[u] = parked[u]
      BY <1>1, <1>5, <2>2 DEF ExpireTimer, Expire, Expires, Typed, TypeOK, GateTypeOK
    <3>2. [user |-> u, session |-> s, token |-> parked[u].token] \in timers'
      BY <1>2, <1>5, <2>2 DEF ExpireTimer
    <3> QED
      BY <1>1, <1>2, <3>1, <3>2 DEF EntryParked
  <2> QED
    BY <2>1, <2>2
<1>6. CASE parked'[u] = parked[u] /\ timers \subseteq timers'
  BY <1>1, <1>2, <1>6 DEF EntryParked
<1> QED
  BY <1>1, <1>2, <1>3, <1>4, <1>5, <1>6, ParkedStays

LEMMA NextEntries ==
  ASSUME Typed, Custody, Tokens, EntriesUnderway, [Next]_vars
  PROVE  EntriesUnderway'
<1> SUFFICES ASSUME NEW s \in Sessions, conn'[s], phase'[s] = "ENTERING_GAME"
             PROVE  EntryQueued(s)' \/ EntryParked(s)'
  <2>1. ASSUME NEW s \in Sessions, EntryQueued(s)' \/ EntryParked(s)'
        PROVE  EntryUnderway(s)'
    BY <2>1 DEF EntryUnderway, EntryQueued, EntryParked, EntryKind, DbQueued, InQueue
  <2> QED
    BY <2>1 DEF EntriesUnderway
<1>1. PICK u : u = UserOf[s] /\ u \in Users
  BY WorldAssumption
<1>2. CASE HandleEnterGame(s)
  <2>1. PICK job : job = [kind |-> "select", session |-> s]
    OBVIOUS
  <2>2. DbQueued(u, job)'
    BY <1>1, <1>2, <2>1, PushDbKeeps DEF HandleEnterGame
  <2> QED
    BY <1>1, <2>1, <2>2 DEF EntryQueued, EntryKind
<1>3. CASE ~HandleEnterGame(s)
  <2>1. conn[s] /\ phase[s] = "ENTERING_GAME"
    BY <1>3, EnteringBefore
  <2>2. EntryQueued(s) \/ EntryParked(s)
    BY <2>1, WhereEntries DEF EntriesUnderway
  <2>3. CASE EntryQueued(s)
    <3>1. PICK job : DbQueued(u, job) /\ EntryKind(job) /\ job.session = s
      BY <1>1, <2>3 DEF EntryQueued
    <3>2. CASE DbStep(u) /\ job = Head(dbJobs[u])
      <4>1. dbJobs[u] # <<>>
        BY <3>1 DEF DbQueued, InQueue
      <4> QED
        BY <1>1, <2>1, <3>1, <3>2, <4>1, HeadEntryGoesOn
    <3>3. CASE ~(DbStep(u) /\ job = Head(dbJobs[u]))
      <4>1. DbQueued(u, job)'
        BY <1>1, <3>1, <3>3, JobsStayQueued
      <4> QED
        BY <1>1, <3>1, <4>1 DEF EntryQueued, EntryKind
    <3> QED
      BY <3>2, <3>3
  <2> QED
    BY <2>1, <2>2, <2>3, ParkedGoesOn
<1> QED
  BY <1>2, <1>3

(* A connected client's entry request is always somewhere it is answered   *)
(* from: in its account's queue, or parked under a timer.  All windows may *)
(* be open (ProgressCoordinator::RequestEnter, SaveGate).                  *)
THEOREM EntriesNotLost == Spec => []EntriesUnderway
<1>1. Init => Tokens /\ EntriesUnderway
  BY InitTokens DEF Init, EntriesUnderway
<1>2. (Typed /\ Custody) /\ (Tokens /\ EntriesUnderway) /\ [Next]_vars =>
        (Tokens /\ EntriesUnderway)'
  BY NextTokens, NextEntries
<1> QED
  BY <1>1, <1>2, CustodyHolds, PTL DEF Spec

-----------------------------------------------------------------------------
(* Holds have releasers.                                                   *)

(* The thread labels from which a hold, or the kick of a replaced session, *)
(* is left only by the thread's own step.                                  *)
LEMMA HolderMoves ==
  ASSUME Typed, Requests, [Next]_vars, NEW t \in Threads, pc[t] \in Holding \cup {"kick"}
  PROVE  \/ pc'[t] = pc[t] /\ (t[1] = "bind" => replaced'[t[2]] = replaced[t[2]])
         \/ MarkDisconnected(t)
         \/ DropHold(t)
         \/ t[1] = "bind" /\ CheckPresence(t[2])
         \/ t[1] = "bind" /\ KickReplaced(t[2])
<1> DEFINE Same == pc'[t] = pc[t] /\ (t[1] = "bind" => replaced'[t[2]] = replaced[t[2]])
<1> USE DEF Holding, Goto
<1>0. /\ pc \in [Threads -> Labels] /\ replaced \in [Sessions -> Sessions \cup {NoSession}]
      /\ t[2] \in Sessions /\ t[1] \in {"bind", "recv", "disc"} /\ t = <<t[1], t[2]>>
  BY ThreadNames DEF Typed, TypeOK
<1>1. ASSUME NEW s \in Sessions, Handle(s) \/ Disconnect(s) PROVE Same
  <2>1. SessionThreads(s)
    BY DEF Requests
  <2>2. CASE HandleConnectLobby(s)
    <3>1. t # <<"bind", s>>
      BY <2>1, <2>2 DEF HandleConnectLobby, Receive, SessionThreads
    <3> QED
      BY <1>0, <2>2, <3>1 DEF HandleConnectLobby
  <2>3. CASE HandleReturnToLobby(s)
    <3>1. t # <<"recv", s>>
      BY <2>3 DEF HandleReturnToLobby, ReceiveInGame, Receive
    <3> QED
      BY <1>0, <2>3, <3>1 DEF HandleReturnToLobby
  <2>4. CASE Disconnect(s)
    <3>1. t # <<"disc", s>>
      BY <2>1, <2>4 DEF Disconnect, SessionThreads
    <3> QED
      BY <1>0, <2>4, <3>1 DEF Disconnect
  <2>5. CASE HandleEnterGame(s) \/ \E packet \in Packets : HandleInGame(s, packet)
    BY <2>5 DEF HandleEnterGame, HandleInGame
  <2> QED
    BY <1>1, <2>2, <2>3, <2>4, <2>5 DEF Handle
<1>2. ASSUME NEW s \in Sessions, BindStep(s), ~(t = <<"bind", s>> /\ (CheckPresence(s) \/ KickReplaced(s)))
      PROVE  Same
  <2>1. t # <<"bind", s>>
    BY <1>2 DEF BindStep, RejectLobbyConnect, RegisterUser, ReadReplaced, FinishLobbyConnect
  <2>2. pc'[t] = pc[t] /\ \A s2 \in Sessions \ {s} : replaced'[s2] = replaced[s2]
    BY <1>0, <1>2, <2>1 DEF BindStep, RejectLobbyConnect, RegisterUser, ReadReplaced,
       CheckPresence, KickReplaced, FinishLobbyConnect
  <2> QED
    BY <1>0, <2>1, <2>2
<1>3. ASSUME NEW s \in Sessions, DiscStep(s) \/ ParkReturn(s) PROVE Same
  BY <1>0, <1>3 DEF DiscStep, ReadPlayer, UnregisterUser, ParkReturn
<1>4. ASSUME NEW t2 \in Threads, ThreadStep(t2), ~MarkDisconnected(t), ~DropHold(t) PROVE Same
  <2>1. t # t2
    BY <1>4 DEF ThreadStep, TakeHold, PushLeave
  <2> QED
    BY <1>0, <1>4, <2>1 DEF ThreadStep, TakeHold, MarkDisconnected, PushLeave, DropHold
<1>5. ASSUME NEW u \in Users, DbStep(u) PROVE Same
  BY <1>5 DEF DbStep, SelectCharacter, CheckConnected, Enter, AcceptReturn, MarkSaved, ReleaseSaved
<1>6. ASSUME NEW r \in Rooms, RunRoom(r) PROVE Same
  BY <1>6 DEF RunRoom
<1>7. ASSUME NEW timer \in timers, ExpireTimer(timer) PROVE Same
  BY <1>7 DEF ExpireTimer
<1>8. CASE UNCHANGED vars
  BY <1>8
<1> QED
  BY <1>0, <1>1, <1>2, <1>3, <1>4, <1>5, <1>6, <1>7, <1>8 DEF Next, ServerStep

(* A player object keeps its owner.                                        *)
LEMMA OwnerStays ==
  ASSUME Typed, Custody, [Next]_vars, NEW p \in Players, presence[p] # "NONE"
  PROVE  owner'[p] = owner[p] /\ presence'[p] # "NONE"
<1> USE DEF Typed, TypeOK, RoomsTypeOK
<1>1. ASSUME NEW r \in Rooms, RunRoom(r) PROVE owner'[p] = owner[p] /\ presence'[p] # "NONE"
  BY <1>1, RoomEffect
<1>2. ASSUME NEW u \in Users, MarkSaved(u) PROVE owner'[p] = owner[p] /\ presence'[p] # "NONE"
  BY <1>2 DEF MarkSaved
<1>3. CASE ~(\E r \in Rooms : RunRoom(r)) /\ ~(\E u \in Users : MarkSaved(u))
  <2>1. /\ owner'[p] = owner[p]
        /\ \/ presence'[p] = presence[p]
           \/ presence'[p] = AfterDisconnect(presence[p])
    BY <1>3, PlayerStep
  <2> QED
    BY <2>1 DEF AfterDisconnect
<1> QED
  BY <1>1, <1>2, <1>3

(* The player that a lobby connection works on is of the session it        *)
(* replaced.                                                               *)
ReplacedPlayer ==
  \A s \in Sessions :
    pc[<<"bind", s>>] \in {"hold", "check", "release", "kick"} /\ arg[<<"bind", s>>] # NoPlayer =>
      owner[arg[<<"bind", s>>]] = replaced[s]

LEMMA InitReplaced == Init => ReplacedPlayer
  BY ThreadNames DEF Init, ReplacedPlayer

(* How the worker of a lobby connection goes on.                           *)
LEMMA BindMoves ==
  ASSUME Typed, [Next]_vars, NEW s \in Sessions
  PROVE  LET t == <<"bind", s>> IN
         \/ pc'[t] \notin {"hold", "check", "release", "kick"}
         \/ ReadReplaced(s)
         \/ /\ pc[t] \in {"hold", "check", "release", "kick"}
            /\ arg'[t] = arg[t] /\ replaced'[s] = replaced[s]
<1> DEFINE t == <<"bind", s>>
           Work == {"hold", "check", "release", "kick"}
           Good == \/ pc'[t] \notin Work
                   \/ ReadReplaced(s)
                   \/ pc[t] \in Work /\ arg'[t] = arg[t] /\ replaced'[s] = replaced[s]
<1> USE DEF Goto
<1>0. /\ pc \in [Threads -> Labels] /\ replaced \in [Sessions -> Sessions \cup {NoSession}]
      /\ arg \in [Threads -> Players \cup {NoPlayer}] /\ t \in Threads
      /\ t[1] = "bind" /\ t[2] = s
  BY ThreadNames DEF Typed, TypeOK
<1>1. CASE UNCHANGED <<pc, arg, replaced>>
  BY <1>1
<1>2. ASSUME NEW s2 \in Sessions, Handle(s2) \/ Disconnect(s2) PROVE Good
  <2>1. CASE HandleConnectLobby(s2)
    BY <1>0, <2>1 DEF HandleConnectLobby
  <2>2. CASE HandleReturnToLobby(s2) \/ Disconnect(s2)
    <3>1. t # <<"recv", s2>> /\ t # <<"disc", s2>>
      BY ThreadNames
    <3>2. pc'[t] = pc[t] /\ arg'[t] = arg[t] /\ replaced' = replaced
      BY <1>0, <2>2, <3>1 DEF HandleReturnToLobby, Disconnect
    <3> QED
      BY <3>2
  <2>3. CASE HandleEnterGame(s2) \/ \E packet \in Packets : HandleInGame(s2, packet)
    BY <1>1, <2>3 DEF HandleEnterGame, HandleInGame
  <2> QED
    BY <1>2, <2>1, <2>2, <2>3 DEF Handle
<1>3. ASSUME NEW s2 \in Sessions, BindStep(s2) PROVE Good
  <2>1. CASE s2 = s
    BY <1>0, <1>3, <2>1 DEF BindStep, RejectLobbyConnect, RegisterUser, CheckPresence,
       KickReplaced, FinishLobbyConnect
  <2>2. CASE s2 # s
    <3>1. t # <<"bind", s2>>
      BY <2>2
    <3>2. pc'[t] = pc[t] /\ arg'[t] = arg[t] /\ replaced'[s] = replaced[s]
      BY <1>0, <1>3, <2>2, <3>1 DEF BindStep, RejectLobbyConnect, RegisterUser, ReadReplaced,
         CheckPresence, KickReplaced, FinishLobbyConnect
    <3> QED
      BY <3>2
  <2> QED
    BY <2>1, <2>2
<1>4. ASSUME NEW s2 \in Sessions, DiscStep(s2) \/ ParkReturn(s2) PROVE Good
  BY <1>0, <1>4, ThreadNames DEF DiscStep, ReadPlayer, UnregisterUser, ParkReturn
<1>5. ASSUME NEW t2 \in Threads, ThreadStep(t2) PROVE Good
  <2>1. CASE t2 = t
    <3>1. pc[t] \notin {"mark", "leave"}
      BY DEF Typed, ThreadsOK
    <3>2. TakeHold(t) \/ DropHold(t)
      BY <1>5, <2>1, <3>1 DEF ThreadStep, MarkDisconnected, PushLeave
    <3> QED
      BY <1>0, <3>2 DEF TakeHold, DropHold
  <2>2. CASE t2 # t
    BY <1>0, <1>5, <2>2 DEF ThreadStep, TakeHold, MarkDisconnected, PushLeave, DropHold
  <2> QED
    BY <2>1, <2>2
<1>6. ASSUME NEW u \in Users, DbStep(u) PROVE Good
  BY <1>1, <1>6 DEF DbStep, SelectCharacter, CheckConnected, Enter, AcceptReturn, MarkSaved,
     ReleaseSaved
<1>7. ASSUME NEW r \in Rooms, RunRoom(r) PROVE Good
  BY <1>1, <1>7 DEF RunRoom
<1>8. ASSUME NEW timer \in timers, ExpireTimer(timer) PROVE Good
  BY <1>1, <1>8 DEF ExpireTimer
<1>9. CASE UNCHANGED vars
  BY <1>1, <1>9
<1> QED
  BY <1>2, <1>3, <1>4, <1>5, <1>6, <1>7, <1>8, <1>9 DEF Next, ServerStep

LEMMA NextReplaced ==
  ASSUME Typed, Custody, Owners, ReplacedPlayer, [Next]_vars
  PROVE  ReplacedPlayer'
<1> SUFFICES ASSUME NEW s \in Sessions,
                    pc'[<<"bind", s>>] \in {"hold", "check", "release", "kick"},
                    arg'[<<"bind", s>>] # NoPlayer
             PROVE  owner'[arg'[<<"bind", s>>]] = replaced'[s]
  BY DEF ReplacedPlayer
<1>0. PICK t \in Threads : t = <<"bind", s>>
  BY ThreadNames
<1>1. CASE ReadReplaced(s)
  <2>1. replaced[s] \in Sessions /\ pc[t] = "replace"
    BY <1>0, <1>1 DEF ReadReplaced, Typed, ThreadsOK
  <2>2. arg'[t] = player[replaced[s]] /\ owner' = owner /\ replaced' = replaced
    BY <1>0, <1>1 DEF ReadReplaced, Typed, TypeOK
  <2>3. owner[player[replaced[s]]] = replaced[s]
    BY <1>0, <2>1, <2>2 DEF Owners, SessionPlayer
  <2> QED
    BY <1>0, <2>2, <2>3
<1>2. CASE /\ pc[t] \in {"hold", "check", "release", "kick"}
           /\ arg'[t] = arg[t] /\ replaced'[s] = replaced[s]
  <2>1. arg[t] \in Players /\ presence[arg[t]] # "NONE" /\ owner[arg[t]] = replaced[s]
    BY <1>0, <1>2 DEF ReplacedPlayer, Typed, TypeOK, Custody, Unborn
  <2>2. owner'[arg[t]] = owner[arg[t]]
    BY <2>1, OwnerStays
  <2> QED
    BY <1>0, <1>2, <2>1, <2>2
<1> QED
  BY <1>0, <1>1, <1>2, BindMoves

(* A session that goes down, or was told to, or is about to be told.       *)
Told(s) ==
  conn[s] => \/ kicked[s]
             \/ \E s2 \in Sessions : replaced[s2] = s /\ pc[<<"bind", s2>>] = "kick"

LEMMA KickedStays ==
  ASSUME Typed, [Next]_vars, NEW s \in Sessions
  PROVE  (conn'[s] => conn[s]) /\ (kicked[s] => kicked'[s])
<1> USE DEF Typed, TypeOK
<1> DEFINE Good == (conn'[s] => conn[s]) /\ (kicked[s] => kicked'[s])
<1>1. ASSUME NEW s2 \in Sessions, Handle(s2) \/ Disconnect(s2) \/ DiscStep(s2) \/ ParkReturn(s2)
      PROVE  Good
  BY <1>1 DEF Handle, HandleConnectLobby, HandleEnterGame, HandleInGame, HandleReturnToLobby,
     Disconnect, DiscStep, ReadPlayer, UnregisterUser, ParkReturn
<1>2. ASSUME NEW s2 \in Sessions, BindStep(s2) PROVE Good
  BY <1>2 DEF BindStep, RejectLobbyConnect, RegisterUser, ReadReplaced, CheckPresence,
     KickReplaced, FinishLobbyConnect
<1>3. ASSUME NEW t \in Threads, ThreadStep(t) PROVE Good
  BY <1>3 DEF ThreadStep, TakeHold, MarkDisconnected, PushLeave, DropHold
<1>4. ASSUME NEW u \in Users, DbStep(u) PROVE Good
  BY <1>4 DEF DbStep, SelectCharacter, CheckConnected, Enter, AcceptReturn, MarkSaved, ReleaseSaved
<1>5. ASSUME NEW r \in Rooms, RunRoom(r) PROVE Good
  BY <1>5 DEF RunRoom
<1>6. ASSUME NEW timer \in timers, ExpireTimer(timer) PROVE Good
  BY <1>6 DEF ExpireTimer
<1>7. CASE UNCHANGED vars
  BY <1>7
<1> QED
  BY <1>1, <1>2, <1>3, <1>4, <1>5, <1>6, <1>7 DEF Next, ServerStep

LEMMA ToldStays ==
  ASSUME Typed, Requests, [Next]_vars, NEW s \in Sessions, Told(s)
  PROVE  Told(s)'
<1>1. CASE ~conn'[s]
  BY <1>1 DEF Told
<1>2. CASE kicked[s]
  BY <1>2, KickedStays DEF Told
<1>3. CASE conn'[s] /\ ~kicked[s]
  <2>1. PICK s2 \in Sessions : replaced[s2] = s /\ pc[<<"bind", s2>>] = "kick"
    BY <1>3, KickedStays DEF Told
  <2>2. PICK t \in Threads : t = <<"bind", s2>> /\ t[1] = "bind" /\ t[2] = s2
    BY ThreadNames
  <2>3. CASE KickReplaced(s2)
    BY <2>1, <2>3 DEF KickReplaced, Typed, TypeOK, Told
  <2>4. CASE ~KickReplaced(s2)
    <3>1. pc'[t] = pc[t] /\ replaced'[s2] = replaced[s2]
      BY <2>1, <2>2, <2>4, HolderMoves DEF MarkDisconnected, DropHold, CheckPresence
    <3> QED
      BY <2>1, <2>2, <3>1 DEF Told
  <2> QED
    BY <2>3, <2>4
<1> QED
  BY <1>1, <1>2, <1>3

(* A player that left, or plays on while its session goes down.            *)
Ending(p) == presence[p] = "LEFT_IN_ROOM" \/ (Playing(p) /\ Told(owner[p]))

ThreadReleases(u) == \E t \in Threads : ThreadUser(t) = u /\ pc[t] \in Holding
JobReleases(u) == \E job : DbQueued(u, job) /\ job.kind \in {"save", "saved"}
PlayerReleases(u) ==
  \E p \in Players : presence[p] # "NONE" /\ UserOfPlayer(p) = u /\ Ending(p)

Released(u) == ThreadReleases(u) \/ JobReleases(u) \/ PlayerReleases(u)

LEMMA HeldBefore ==
  ASSUME Typed, [Next]_vars, NEW u \in Users, u \in held'
  PROVE  u \in held \/ \E t \in Threads : TakeHold(t) /\ ThreadUser(t) = u
<1> DEFINE Good == u \in held \/ \E t \in Threads : TakeHold(t) /\ ThreadUser(t) = u
<1>1. ASSUME NEW s \in Sessions, Handle(s) \/ Disconnect(s) \/ BindStep(s) \/ DiscStep(s) \/ ParkReturn(s)
      PROVE  Good
  BY <1>1 DEF Handle, HandleConnectLobby, HandleEnterGame, HandleInGame, HandleReturnToLobby,
     Disconnect, BindStep, RejectLobbyConnect, RegisterUser, ReadReplaced, CheckPresence,
     KickReplaced, FinishLobbyConnect, DiscStep, ReadPlayer, UnregisterUser, ParkReturn, Park
<1>2. ASSUME NEW t \in Threads, ThreadStep(t) PROVE Good
  <2>1. CASE TakeHold(t)
    BY <2>1 DEF TakeHold, Hold
  <2>2. CASE ~TakeHold(t)
    BY <1>2, <2>2 DEF ThreadStep, MarkDisconnected, PushLeave, DropHold, ReleaseHold, Release
  <2> QED
    BY <2>1, <2>2
<1>3. ASSUME NEW v \in Users, DbStep(v) PROVE Good
  BY <1>3 DEF DbStep, SelectCharacter, Park, CheckConnected, Enter, AcceptReturn, MarkSaved,
     ReleaseSaved, Release
<1>4. ASSUME NEW r \in Rooms, RunRoom(r) PROVE Good
  BY <1>4 DEF RunRoom
<1>5. ASSUME NEW timer \in timers, ExpireTimer(timer) PROVE Good
  BY <1>5 DEF ExpireTimer, Expire
<1>6. CASE UNCHANGED vars
  BY <1>6
<1> QED
  BY <1>1, <1>2, <1>3, <1>4, <1>5, <1>6 DEF Next, ServerStep

LEMMA PlayerReleasesStay ==
  ASSUME Typed, Custody, Requests, SaveJobs, Owners, [Next]_vars, NEW u \in Users,
         NEW p \in Players, presence[p] # "NONE", u = UserOfPlayer(p), Ending(p)
  PROVE  Released(u)'
<1> USE DEF Typed, TypeOK, RoomsTypeOK
<1>1. owner'[p] = owner[p] /\ presence'[p] # "NONE"
  BY OwnerStays
<1>2. ASSUME Playing(p), Playing(p)' PROVE Ending(p)'
  <2>1. PICK s \in Sessions : s = owner[p]
    BY DEF Owners, PlayerOwned
  <2>2. Told(s)'
    BY <1>2, <2>1, ToldStays DEF Ending, Playing
  <2> QED
    BY <1>1, <1>2, <2>1, <2>2 DEF Ending, Told
<1>3. ASSUME Playing(p)' => Playing(p), presence'[p] = "LEFT_IN_ROOM" \/ Playing(p)'
      PROVE  PlayerReleases(u)'
  <2>1. Ending(p)'
    BY <1>2, <1>3 DEF Ending
  <2> QED
    BY <1>1, <2>1 DEF PlayerReleases, UserOfPlayer
<1>4. ASSUME NEW r \in Rooms, RunRoom(r) PROVE Released(u)'
  <2>1. presence'[p] = presence[p] \/ (presence[p] = "LOADED" /\ presence'[p] = "IN_ROOM")
    BY <1>4, RoomEffect
  <2> QED
    BY <1>3, <2>1 DEF Released, Ending, Playing
<1>5. ASSUME NEW v \in Users, MarkSaved(v) PROVE Released(u)'
  <2>1. CASE p = Head(dbJobs[v]).player
    <3>1. dbJobs[v] # <<>> /\ SaveAt(v, 1, p) /\ 1 \in Nat
      BY <1>5, <2>1, DbHeadFacts, TailFacts DEF MarkSaved, DbHead, SaveAt
    <3>2. v = u
      BY <3>1 DEF SaveJobs
    <3>3. PICK job : job = [kind |-> "saved", player |-> p]
      OBVIOUS
    <3>4. job \in DbJob /\ dbJobs' = ContinueDb(u, job)
      BY <1>5, <2>1, <3>2, <3>3 DEF MarkSaved, DbJob, SaveJob
    <3>5. DbQueued(u, job)'
      BY <3>1, <3>2, <3>4, ContinueKeeps
    <3> QED
      BY <3>3, <3>5 DEF Released, JobReleases
  <2>2. CASE p # Head(dbJobs[v]).player
    <3>1. presence'[p] = presence[p]
      BY <1>5, <2>2 DEF MarkSaved
    <3> QED
      BY <1>3, <3>1 DEF Released, Ending, Playing
  <2> QED
    BY <2>1, <2>2
<1>6. CASE ~(\E r \in Rooms : RunRoom(r)) /\ ~(\E v \in Users : MarkSaved(v))
  <2>1. \/ presence'[p] = presence[p]
        \/ \E t \in Threads : /\ MarkDisconnected(t) /\ arg[t] = p
                              /\ presence'[p] = AfterDisconnect(presence[p])
    BY <1>6, PlayerStep
  <2>2. CASE presence'[p] = presence[p] \/ presence'[p] = "LEFT_IN_ROOM"
    BY <1>3, <2>2 DEF Released, Ending, Playing
  <2>3. ASSUME NEW t \in Threads, MarkDisconnected(t), arg[t] = p, presence[p] = "LOADED"
        PROVE  Released(u)'
    <3>1. pc'[t] = "release" /\ ThreadUser(t) = u
      BY <2>3, ThreadArg DEF MarkDisconnected, Goto, AfterDisconnect, Holding
    <3> QED
      BY <3>1 DEF Released, ThreadReleases, Holding, ThreadUser
  <2> QED
    BY <2>1, <2>2, <2>3 DEF AfterDisconnect, Ending, Playing
<1> QED
  BY <1>4, <1>5, <1>6

LEMMA JobReleasesStay ==
  ASSUME Typed, Custody, [Next]_vars, NEW u \in Users,
         NEW job, DbQueued(u, job), job.kind \in {"save", "saved"}, u \in held'
  PROVE  JobReleases(u)'
<1>1. CASE DbStep(u) /\ job = Head(dbJobs[u])
  <2>1. dbJobs[u] # <<>>
    BY DEF DbQueued, InQueue
  <2>2. ~ReleaseSaved(u)
    BY DEF ReleaseSaved, Release
  <2>3. MarkSaved(u)
    BY <1>1, <2>2 DEF DbStep, SelectCharacter, CheckConnected, Enter, AcceptReturn, DbHead
  <2>4. Head(dbJobs[u]).player \in Players
    BY <2>3, DbHeadFacts DEF MarkSaved, Typed, TypeOK, RoomsTypeOK
  <2>5. PICK next \in DbJob : next = [kind |-> "saved", player |-> Head(dbJobs[u]).player]
    BY <2>4 DEF DbJob, SaveJob
  <2>6. DbQueued(u, next)'
    BY <2>1, <2>3, <2>5, ContinueKeeps DEF MarkSaved
  <2> QED
    BY <2>5, <2>6 DEF JobReleases
<1>2. CASE ~(DbStep(u) /\ job = Head(dbJobs[u]))
  <2>1. DbQueued(u, job)'
    BY <1>2, JobsStayQueued
  <2> QED
    BY <2>1 DEF JobReleases
<1> QED
  BY <1>1, <1>2

LEMMA ThreadReleasesStay ==
  ASSUME Typed, Custody, Requests, Owners, ReplacedPlayer, [Next]_vars, NEW u \in Users,
         NEW t \in Threads, u = ThreadUser(t), pc[t] \in Holding, u \in held'
  PROVE  Released(u)'
<1> USE DEF Typed, TypeOK, RoomsTypeOK
<1>1. /\ arg[t] \in Players /\ presence[arg[t]] # "NONE" /\ UserOfPlayer(arg[t]) = u
      /\ owner[arg[t]] \in Sessions
  BY ThreadArg DEF Owners, PlayerOwned
<1>2. owner'[arg[t]] = owner[arg[t]] /\ presence'[arg[t]] # "NONE"
  BY <1>1, OwnerStays
<1>3. PICK p \in Players : p = arg[t]
  BY <1>1
<1>4. ASSUME Ending(p)' PROVE Released(u)'
  <2>1. owner'[p] = owner[p] /\ presence'[p] # "NONE" /\ UserOf[owner[p]] = u
    BY <1>1, <1>2, <1>3 DEF UserOfPlayer
  <2> QED
    BY <1>4, <2>1 DEF Released, PlayerReleases, UserOfPlayer
<1>5. CASE pc'[t] \in Holding
  BY <1>5 DEF Released, ThreadReleases, ThreadUser
<1>6. CASE MarkDisconnected(t) /\ pc'[t] \notin Holding
  <2>1. presence'[p] = "LEFT_IN_ROOM"
    BY <1>1, <1>3, <1>6 DEF MarkDisconnected, Goto, Holding
  <2> QED
    BY <1>4, <2>1 DEF Ending
<1>7. CASE t[1] = "bind" /\ CheckPresence(t[2]) /\ pc'[t] \notin Holding
  <2>1. PICK s \in Sessions : s = t[2] /\ t = <<"bind", s>>
    BY <1>7, ThreadNames
  <2>2. /\ pc[t] = "check" /\ pc'[t] = "kick" /\ UNCHANGED <<replaced, presence, owner, conn, kicked>>
        /\ presence[p] \notin {"LEFT_BEFORE_ROOM", "SAVED"}
    BY <1>3, <1>7, <2>1 DEF CheckPresence, Goto, Holding
  <2>3. owner[p] = replaced[s]
    BY <1>1, <1>3, <2>1, <2>2 DEF ReplacedPlayer, Players, NoPlayer
  <2>4. Told(replaced[s])'
    BY <2>1, <2>2 DEF Told
  <2>5. presence[p] \in {"LOADED", "IN_ROOM", "LEFT_IN_ROOM"}
    BY <1>1, <1>3, <2>2 DEF Presences
  <2>6. Ending(p)'
    BY <2>2, <2>3, <2>4, <2>5 DEF Ending, Playing, Told
  <2> QED
    BY <1>4, <2>6
<1>8. ~DropHold(t)
  BY DEF DropHold, ReleaseHold, Release
<1>9. ~KickReplaced(t[2]) \/ t[1] # "bind"
  BY ThreadNames DEF KickReplaced, Holding
<1> QED
  BY <1>5, <1>6, <1>7, <1>8, <1>9, HolderMoves

(* Every held account has a thread, a job or a player that releases it.    *)
ReleasersInv == ReplacedPlayer /\ \A u \in Users : u \in held => Released(u)

LEMMA NextReleasers ==
  ASSUME Typed, Custody, Requests, SaveJobs, Owners, ReleasersInv, [Next]_vars
  PROVE  ReleasersInv'
<1>1. ReplacedPlayer'
  BY NextReplaced DEF ReleasersInv
<1>2. ASSUME NEW u \in Users, u \in held' PROVE Released(u)'
  <2>1. CASE u \in held
    <3>1. CASE ThreadReleases(u)
      BY <1>2, <3>1, ThreadReleasesStay DEF ThreadReleases, ReleasersInv
    <3>2. CASE JobReleases(u)
      <4>1. JobReleases(u)'
        BY <1>2, <3>2, JobReleasesStay DEF JobReleases
      <4> QED
        BY <4>1 DEF Released
    <3>3. CASE PlayerReleases(u)
      BY <3>3, PlayerReleasesStay DEF PlayerReleases
    <3> QED
      BY <2>1, <3>1, <3>2, <3>3 DEF ReleasersInv, Released
  <2>2. CASE u \notin held
    <3>1. PICK t \in Threads : TakeHold(t) /\ ThreadUser(t) = u
      BY <1>2, <2>2, HeldBefore
    <3>2. pc'[t] \in Holding
      BY <3>1 DEF TakeHold, Goto, Holding, Typed, TypeOK
    <3> QED
      BY <3>1, <3>2 DEF Released, ThreadReleases, ThreadUser
  <2> QED
    BY <2>1, <2>2
<1> QED
  BY <1>1, <1>2 DEF ReleasersInv

LEMMA ReleasersFound ==
  ASSUME Typed, Owners, ReleasersInv
  PROVE  HoldsHaveReleasers
<1> SUFFICES ASSUME NEW u \in Users, Released(u) PROVE Releaser(u)
  BY DEF HoldsHaveReleasers, ReleasersInv
<1>1. CASE ThreadReleases(u)
  BY <1>1 DEF ThreadReleases, Releaser, Holding
<1>2. CASE JobReleases(u)
  BY <1>2 DEF JobReleases, Releaser, DbQueued, InQueue
<1>3. CASE PlayerReleases(u)
  <2>1. PICK p \in Players : presence[p] # "NONE" /\ UserOfPlayer(p) = u /\ Ending(p)
    BY <1>3 DEF PlayerReleases
  <2>2. CASE presence[p] = "LEFT_IN_ROOM"
    BY <2>1, <2>2 DEF Releaser
  <2>3. CASE Playing(p) /\ Told(owner[p])
    <3>1. owner[p] \in Sessions /\ player[owner[p]] = p
      BY <2>3 DEF Owners, PlayerOwned, Playing, Typed, TypeOK, RoomsTypeOK
    <3>2. PlaysOn(owner[p])
      BY <2>3, <3>1 DEF PlaysOn, Players, NoPlayer
    <3>3. ~conn[owner[p]] => pc[<<"disc", owner[p]>>] \in {"read", "hold", "mark"}
      BY <3>1, <3>2 DEF Owners, SessionPlayer
    <3>4. LeavesSoon(owner[p])
      BY <2>3, <3>3 DEF LeavesSoon, Told
    <3> QED
      BY <2>1, <2>3, <3>4 DEF Releaser, Playing
  <2> QED
    BY <2>1, <2>2, <2>3 DEF Ending
<1> QED
  BY <1>1, <1>2, <1>3 DEF Released

(* No hold is left without somebody who will release it, whatever a second *)
(* login, a return, a disconnection and the rooms do in between.  The      *)
(* windows of overlapping entries and of stalled threads may be open       *)
(* (LeaveGameAndSave, OnDuplicateConnection, SaveLeftPlayer).              *)
THEOREM HoldsAreReleased ==
  ASSUME "drop" \notin Windows
  PROVE  Spec => []HoldsHaveReleasers
<1> DEFINE Context == Typed /\ Custody /\ Registration /\ Requests /\ SaveJobs /\ Owners
<1>1. Init => ReleasersInv
  BY InitReplaced DEF Init, GateInit, ReleasersInv
<1>2. Context /\ ReleasersInv /\ [Next]_vars => ReleasersInv'
  BY NextReleasers
<1>3. Context /\ ReleasersInv => HoldsHaveReleasers
  BY ReleasersFound
<1>4. Spec => []Context
  BY OwnersHold
<1> QED
  BY <1>1, <1>2, <1>3, <1>4, PTL DEF Spec

-----------------------------------------------------------------------------
(* Departures are under way.  The room queues: what each operation leaves  *)
(* in them.                                                                *)

RoomQueued(r, job) == InQueue(roomJobs[r], job)

LEMMA PushRoomKeeps ==
  ASSUME NEW jobs \in [Rooms -> Seq(RoomJob)], NEW dest \in Rooms,
         NEW kind \in {"leave", "enter", "mapLoaded", "channel", "portal"}, NEW p \in Players,
         roomJobs' = PushRoomJob(jobs, dest, kind, p)
  PROVE  /\ \A r \in Rooms : \A x : InQueue(jobs[r], x) => RoomQueued(r, x)'
         /\ RoomQueued(dest, [kind |-> kind, player |-> p])'
<1>1. PICK job \in RoomJob : job = [kind |-> kind, player |-> p]
  BY DEF RoomJob
<1>2. roomJobs' = [jobs EXCEPT ![dest] = Append(@, job)]
  BY <1>1 DEF PushRoomJob
<1>3. ASSUME NEW r \in Rooms, NEW x, (r = dest /\ x = job) \/ InQueue(jobs[r], x)
      PROVE  RoomQueued(r, x)'
  <2>1. CASE r = dest
    <3>1. roomJobs'[r] = Append(jobs[r], job) /\ jobs[r] \in Seq(RoomJob)
      BY <1>2, <2>1
    <3>2. InQueue(Append(jobs[r], job), x)
      BY <1>3, <3>1, InAppend
    <3> QED
      BY <3>1, <3>2 DEF RoomQueued, InQueue
  <2>2. CASE r # dest
    BY <1>2, <1>3, <2>2 DEF RoomQueued, InQueue
  <2> QED
    BY <2>1, <2>2
<1> QED
  BY <1>1, <1>3

LEMMA PopRoomKeeps ==
  ASSUME Typed, NEW r \in Rooms, roomJobs[r] # <<>>, NEW r2 \in Rooms, NEW x,
         RoomQueued(r2, x), r2 = r => x # Head(roomJobs[r])
  PROVE  InQueue(PopJob(r)[r2], x)
<1>1. roomJobs \in [Rooms -> Seq(RoomJob)] /\ roomJobs[r] \in Seq(RoomJob)
  BY DEF Typed, TypeOK, RoomsTypeOK
<1>2. CASE r2 = r
  <2>1. InQueue(Tail(roomJobs[r]), x)
    BY <1>1, <1>2, InTail DEF RoomQueued
  <2> QED
    BY <1>1, <1>2, <2>1 DEF PopJob
<1>3. CASE r2 # r
  BY <1>1, <1>3 DEF PopJob, RoomQueued
<1> QED
  BY <1>2, <1>3

(* A job stays in its room's queue until the room runs it.                 *)
LEMMA RoomJobsStay ==
  ASSUME Typed, NEW r \in Rooms, RoomStep(r), NEW r2 \in Rooms, NEW x, RoomQueued(r2, x),
         r2 = r /\ entering[r] = NoPlayer => x # Head(roomJobs[r])
  PROVE  RoomQueued(r2, x)'
<1>1. CASE MarkEnteredRoom(r)
  BY <1>1 DEF MarkEnteredRoom, RoomQueued, InQueue
<1>2. CASE ~MarkEnteredRoom(r)
  <2>1. /\ entering[r] = NoPlayer /\ roomJobs[r] # <<>>
        /\ HeadPlayer(r) \in Players /\ PopJob(r) \in [Rooms -> Seq(RoomJob)]
    BY <1>2, RunHeadFacts DEF RoomStep, LeaveRoomAndSave, EnterPlayer, MapLoadComplete,
       ChangeChannel, UsePortal, RunHead, Typed, TypeOK
  <2>2. InQueue(PopJob(r)[r2], x)
    BY <2>1, PopRoomKeeps
  <2>3. CASE roomJobs' = PopJob(r)
    BY <2>2, <2>3 DEF RoomQueued, InQueue
  <2>4. ASSUME NEW dest \in Rooms, NEW kind \in {"leave", "enter"},
               roomJobs' = PushRoomJob(PopJob(r), dest, kind, HeadPlayer(r))
        PROVE  RoomQueued(r2, x)'
    BY <2>1, <2>2, <2>4, PushRoomKeeps
  <2>5. room[HeadPlayer(r)] \in Rooms \cup {NoRoom}
    BY <2>1 DEF Typed, TypeOK, RoomsTypeOK
  <2>6. \/ roomJobs' = PopJob(r)
        \/ \E dest \in Rooms : \E kind \in {"leave", "enter"} :
             roomJobs' = PushRoomJob(PopJob(r), dest, kind, HeadPlayer(r))
    BY <1>2, <2>5 DEF RoomStep, LeaveRoomAndSave, EnterPlayer, MapLoadComplete,
       ChangeChannel, UsePortal, MovePlayer, StayInRoom
  <2> QED
    BY <2>3, <2>4, <2>6
<1> QED
  BY <1>1, <1>2

(* A player that is or was in the game has an owner and a room; the thread *)
(* of a disconnection sleeps while its session is connected.               *)
Alive ==
  /\ \A p \in Players : Lent(p) => owner[p] \in Sessions /\ room[p] \in Rooms
  /\ \A s \in Sessions : conn[s] => pc[<<"disc", s>>] = "idle"

LEMMA InitAlive == Init => Alive
<1> SUFFICES ASSUME Init PROVE Alive
  OBVIOUS
<1>1. \A p \in Players : ~Lent(p)
  BY DEF Init, RoomsInit, Lent
<1>2. pc = [t \in Threads |-> "idle"]
  BY DEF Init
<1>3. ASSUME NEW s \in Sessions PROVE pc[<<"disc", s>>] = "idle"
  <2>1. PICK t \in Threads : t = <<"disc", s>>
    BY ThreadNames
  <2> QED
    BY <1>2, <2>1
<1> QED
  BY <1>1, <1>3 DEF Alive

LEMMA NextAlive ==
  ASSUME Typed, Typed', Custody, Alive, [Next]_vars
  PROVE  Alive'
<1>1. ASSUME NEW p \in Players, Lent(p)'
      PROVE  owner'[p] \in Sessions /\ room'[p] \in Rooms
  <2> USE DEF Typed, TypeOK, RoomsTypeOK
  <2>1. CASE \E r \in Rooms : RunRoom(r)
    <3>1. Lent(p)
      BY <1>1, <2>1, RoomEffect DEF Lent
    <3>2. owner'[p] = owner[p] /\ room'[p] # NoRoom
      BY <2>1, <3>1, RoomEffect, WorldAssumption DEF Alive, Lent
    <3> QED
      BY <3>1, <3>2 DEF Alive
  <2>2. CASE \E u \in Users : Enter(u)
    <3>1. PICK u \in Users : Enter(u)
      BY <2>2
    <3>2. Head(dbJobs[u]).session \in Sessions
      BY <3>1, DbHeadFacts DEF Enter
    <3>3. CASE UNCHANGED playerVars
      <4>1. Lent(p) /\ owner'[p] = owner[p] /\ room'[p] = room[p]
        BY <1>1, <3>3 DEF Lent
      <4> QED
        BY <4>1 DEF Alive
    <3>4. CASE ~UNCHANGED playerVars
      <4>1. PICK p2 \in Players, r \in Rooms :
              /\ presence' = [presence EXCEPT ![p2] = "LOADED"]
              /\ owner' = [owner EXCEPT ![p2] = Head(dbJobs[u]).session]
              /\ room' = [room EXCEPT ![p2] = r]
        BY <3>1, <3>4 DEF Enter
      <4>2. CASE p = p2
        BY <3>2, <4>1, <4>2
      <4>3. CASE p # p2
        <5>1. Lent(p) /\ owner'[p] = owner[p] /\ room'[p] = room[p]
          BY <1>1, <4>1, <4>3 DEF Lent
        <5> QED
          BY <5>1 DEF Alive
      <4> QED
        BY <4>2, <4>3
    <3> QED
      BY <3>3, <3>4
  <2>3. CASE ~(\E r \in Rooms : RunRoom(r)) /\ ~(\E u \in Users : Enter(u))
    <3> DEFINE Same == UNCHANGED <<owner, room>> /\ (Lent(p)' => Lent(p))
    <3>1. ASSUME NEW s \in Sessions, Handle(s) \/ Disconnect(s) \/ BindStep(s) \/ DiscStep(s) \/ ParkReturn(s)
          PROVE  Same
      BY <3>1 DEF Handle, HandleConnectLobby, HandleEnterGame, HandleInGame,
         HandleReturnToLobby, Disconnect, BindStep, RejectLobbyConnect, RegisterUser,
         ReadReplaced, CheckPresence, KickReplaced, FinishLobbyConnect, DiscStep, ReadPlayer,
         UnregisterUser, ParkReturn, Lent
    <3>2. ASSUME NEW t \in Threads, ThreadStep(t) PROVE Same
      <4>1. CASE MarkDisconnected(t)
        BY <4>1 DEF MarkDisconnected, AfterDisconnect, Lent
      <4>2. CASE UNCHANGED <<owner, room, presence>>
        BY <4>2 DEF Lent
      <4> QED
        BY <3>2, <4>1, <4>2 DEF ThreadStep, TakeHold, PushLeave, DropHold
    <3>3. ASSUME NEW u \in Users, DbStep(u) PROVE Same
      <4>1. CASE MarkSaved(u)
        BY <4>1 DEF MarkSaved, Lent
      <4>2. CASE UNCHANGED <<owner, room, presence>>
        BY <4>2 DEF Lent
      <4> QED
        BY <2>3, <3>3, <4>1, <4>2 DEF DbStep, SelectCharacter, CheckConnected, AcceptReturn, ReleaseSaved
    <3>4. ASSUME NEW timer \in timers, ExpireTimer(timer) PROVE Same
      BY <3>4 DEF ExpireTimer, Lent
    <3>5. ASSUME UNCHANGED vars PROVE Same
      BY <3>5 DEF Lent
    <3>6. Same
      BY <2>3, <3>1, <3>2, <3>3, <3>4, <3>5 DEF Next, ServerStep
    <3>7. Lent(p)
      BY <1>1, <3>6
    <3> QED
      BY <3>6, <3>7 DEF Alive
  <2> QED
    BY <2>1, <2>2, <2>3
<1>2. ASSUME NEW s \in Sessions, conn'[s] PROVE pc'[<<"disc", s>>] = "idle"
  <2> DEFINE Good == pc'[<<"disc", s>>] = "idle"
  <2>0. /\ conn[s] /\ pc[<<"disc", s>>] = "idle" /\ <<"disc", s>> \in Threads
        /\ pc \in [Threads -> Labels] /\ conn \in [Sessions -> BOOLEAN]
    BY <1>2, KickedStays, ThreadNames DEF Alive, Typed, TypeOK
  <2>1. CASE pc' = pc
    BY <2>0, <2>1
  <2>2. ASSUME NEW s2 \in Sessions, Handle(s2) \/ BindStep(s2) \/ ParkReturn(s2) PROVE Good
    <3>1. <<"disc", s>> # <<"bind", s2>> /\ <<"disc", s>> # <<"recv", s2>>
      BY ThreadNames
    <3> QED
      BY <2>0, <2>2, <3>1 DEF Handle, HandleConnectLobby, HandleEnterGame, HandleInGame,
         HandleReturnToLobby, BindStep, RejectLobbyConnect, RegisterUser, ReadReplaced,
         CheckPresence, KickReplaced, FinishLobbyConnect, ParkReturn, Goto
  <2>3. ASSUME NEW s2 \in Sessions, Disconnect(s2) PROVE Good
    BY <1>2, <2>0, <2>3 DEF Disconnect, Goto
  <2>4. ASSUME NEW s2 \in Sessions, DiscStep(s2) PROVE Good
    BY <2>0, <2>4 DEF DiscStep, ReadPlayer, UnregisterUser, Goto
  <2>5. ASSUME NEW t \in Threads, ThreadStep(t) PROVE Good
    BY <2>0, <2>5 DEF ThreadStep, TakeHold, MarkDisconnected, PushLeave, DropHold, Goto
  <2>6. ASSUME NEW u \in Users, DbStep(u) PROVE Good
    BY <2>1, <2>6 DEF DbStep, SelectCharacter, CheckConnected, Enter, AcceptReturn, MarkSaved, ReleaseSaved
  <2>7. ASSUME NEW r \in Rooms, RunRoom(r) PROVE Good
    BY <2>1, <2>7 DEF RunRoom
  <2>8. ASSUME NEW timer \in timers, ExpireTimer(timer) PROVE Good
    BY <2>1, <2>8 DEF ExpireTimer
  <2>9. CASE UNCHANGED vars
    BY <2>1, <2>9
  <2> QED
    BY <2>2, <2>3, <2>4, <2>5, <2>6, <2>7, <2>8, <2>9 DEF Next, ServerStep
<1> QED
  BY <1>1, <1>2 DEF Alive

(* Where a player is that a room has to save when it leaves, and who will  *)
(* take its departure there.                                               *)
JobOf(kind, p) == [kind |-> kind, player |-> p]

OnItsWay(p) == \E r \in Rooms : RoomQueued(r, JobOf("enter", p))

InARoom(p) == mapLoad[p] \in Rooms \/ \E r \in Rooms : p \in entities[r]

Sent(p) ==
  \/ \E t \in Threads : pc[t] = "leave" /\ arg[t] = p
  \/ \E r \in Rooms : entering[r] = p
  \/ \E r \in Rooms : RoomQueued(r, JobOf("leave", p))
  \/ OnItsWay(p)

InGame(p) == presence[p] \in {"IN_ROOM", "LEFT_IN_ROOM"} /\ saves[p] = 0

(* A room job of a player is gone when its room has run it.                *)
LEMMA RoomJobGoesOn ==
  ASSUME Typed, NEW r \in Rooms, RunRoom(r), NEW p \in Players, NEW kind \in {"leave", "enter"},
         NEW r2 \in Rooms, RoomQueued(r2, JobOf(kind, p)),
         ~(kind = "leave" /\ LeaveRoomAndSave(r) /\ HeadPlayer(r) = p),
         ~(kind = "enter" /\ EnterPlayer(r) /\ HeadPlayer(r) = p)
  PROVE  \E r3 \in Rooms : RoomQueued(r3, JobOf(kind, p))'
<1>1. PICK job : job = JobOf(kind, p)
  OBVIOUS
<1>2. RoomStep(r) /\ job.kind = kind /\ job.player = p
  BY <1>1 DEF RunRoom, JobOf
<1>3. r2 = r /\ entering[r] = NoPlayer => job # Head(roomJobs[r])
  <2> SUFFICES ASSUME r2 = r, entering[r] = NoPlayer, job = Head(roomJobs[r]) PROVE FALSE
    OBVIOUS
  <2>1. HeadPlayer(r) = p /\ Head(roomJobs[r]).kind = kind
    BY <1>2 DEF HeadPlayer
  <2>2. ~MarkEnteredRoom(r)
    BY DEF MarkEnteredRoom
  <2> QED
    BY <1>2, <2>1, <2>2 DEF RoomStep, LeaveRoomAndSave, EnterPlayer, MapLoadComplete,
       ChangeChannel, UsePortal, RunHead
<1>4. RoomQueued(r2, job)'
  BY <1>1, <1>2, <1>3, RoomJobsStay
<1> QED
  BY <1>1, <1>4 DEF JobOf

LEMMA SavesBefore ==
  ASSUME Typed, Custody, NEW r \in Rooms, RunRoom(r), NEW p \in Players, saves'[p] = 0
  PROVE  saves[p] = 0 /\ ~SaveLeftPlayer(p)
<1>1. saves \in [Players -> Nat]
  BY DEF Typed, TypeOK, RoomsTypeOK
<1>2. ~SaveLeftPlayer(p)
  BY <1>1 DEF SaveLeftPlayer
<1> QED
  BY <1>1, <1>2, RoomEffect DEF SaveLeftPlayer

LEMMA RoomKeepsPlayer ==
  ASSUME Typed, Custody, NEW r \in Rooms, RunRoom(r), NEW p \in Players, InGame(p)',
         InGame(p) => InARoom(p) \/ OnItsWay(p)
  PROVE  InARoom(p)' \/ OnItsWay(p)'
<1> USE DEF Typed, TypeOK, RoomsTypeOK
<1> DEFINE h == HeadPlayer(r)
<1>1. saves[p] = 0 /\ ~SaveLeftPlayer(p)
  BY SavesBefore DEF InGame
<1>2. CASE LeaveRoomAndSave(r)
  <2>1. presence[p] = presence'[p]
    BY <1>2 DEF LeaveRoomAndSave
  <2>2. CASE InARoom(p)
    <3>1. ~HasSaveData(r, h) => UNCHANGED <<mapLoad, entities>>
      BY <1>2 DEF LeaveRoomAndSave
    <3>2. HasSaveData(r, h) => h # p /\ DepartFrom(r, h)
      BY <1>1, <1>2 DEF LeaveRoomAndSave
    <3>3. CASE HasSaveData(r, h)
      <4>1. mapLoad'[p] = mapLoad[p]
        BY <3>2, <3>3 DEF DepartFrom
      <4>2. ASSUME NEW r2 \in Rooms, p \in entities[r2] PROVE p \in entities'[r2]
        <5>1. CASE mapLoad[h] = r
          BY <3>2, <3>3, <4>2, <5>1 DEF DepartFrom
        <5>2. CASE entities' = [entities EXCEPT ![r] = @ \ {h}]
          <6>1. entities'[r2] = IF r2 = r THEN entities[r2] \ {h} ELSE entities[r2]
            BY <5>2
          <6> QED
            BY <3>2, <3>3, <4>2, <6>1
        <5> QED
          BY <3>2, <3>3, <5>1, <5>2 DEF DepartFrom
      <4> QED
        BY <2>2, <4>1, <4>2 DEF InARoom
    <3> QED
      BY <2>2, <3>1, <3>3 DEF InARoom
  <2>3. CASE OnItsWay(p)
    <3>1. ~EnterPlayer(r)
      BY <1>2 DEF LeaveRoomAndSave, EnterPlayer, RunHead
    <3> QED
      BY <2>3, <3>1, RoomJobGoesOn DEF OnItsWay
  <2> QED
    BY <1>1, <2>1, <2>2, <2>3 DEF InGame
<1>3. CASE EnterPlayer(r) \/ MapLoadComplete(r)
  <2>1. presence[p] = presence'[p] /\ h \in Players
    BY <1>3, RunHeadFacts DEF EnterPlayer, MapLoadComplete
  <2>2. CASE AdmitTo(r, h) /\ p = h
    BY <2>1, <2>2 DEF AdmitTo, InARoom
  <2>3. CASE p # h \/ (MapLoadComplete(r) /\ ~AdmitTo(r, h))
    <3>1. CASE InARoom(p)
      <4>1. mapLoad'[p] = mapLoad[p]
        BY <1>3, <2>3 DEF EnterPlayer, MapLoadComplete
      <4>2. \/ entities' = entities
            \/ entities' = [entities EXCEPT ![r] = @ \cup {h}]
        BY <1>3 DEF EnterPlayer, MapLoadComplete, AdmitTo
      <4> QED
        BY <3>1, <4>1, <4>2 DEF InARoom
    <3>2. CASE OnItsWay(p)
      <4>1. ~(EnterPlayer(r) /\ h = p)
        BY <2>3 DEF EnterPlayer
      <4> QED
        BY <3>2, <4>1, RoomJobGoesOn DEF OnItsWay
    <3> QED
      BY <1>1, <2>1, <3>1, <3>2 DEF InGame
  <2> QED
    BY <1>3, <2>2, <2>3 DEF EnterPlayer
<1>4. CASE MarkEnteredRoom(r)
  <2>1. CASE entering[r] = p
    <3>1. p \in entities[r]
      BY <2>1 DEF Custody, Admitting, Players, NoPlayer
    <3>2. entities' = entities
      BY <1>1, <1>4, <2>1 DEF MarkEnteredRoom, InGame
    <3> QED
      BY <3>1, <3>2 DEF InARoom
  <2>2. CASE entering[r] # p
    <3>1. presence[p] = presence'[p] /\ mapLoad' = mapLoad /\ roomJobs' = roomJobs
      BY <1>4, <2>2 DEF MarkEnteredRoom
    <3>2. \A r2 \in Rooms : p \in entities[r2] => p \in entities'[r2]
      BY <1>4, <2>2 DEF MarkEnteredRoom
    <3> QED
      BY <1>1, <3>1, <3>2 DEF InGame, InARoom, OnItsWay, RoomQueued, InQueue, JobOf
  <2> QED
    BY <2>1, <2>2
<1>5. CASE ChangeChannel(r) \/ UsePortal(r)
  <2>1. presence[p] = presence'[p] /\ h \in Players /\ PopJob(r) \in [Rooms -> Seq(RoomJob)]
    BY <1>5, RunHeadFacts DEF ChangeChannel, UsePortal, StayInRoom, MovePlayer
  <2>2. ~EnterPlayer(r)
    BY <1>5 DEF ChangeChannel, UsePortal, EnterPlayer, RunHead
  <2>3. OnItsWay(p) => OnItsWay(p)'
    BY <2>2, RoomJobGoesOn DEF OnItsWay
  <2>4. CASE StayInRoom(r)
    BY <1>1, <2>1, <2>3, <2>4 DEF StayInRoom, InARoom, InGame
  <2>5. ASSUME NEW dest \in Rooms, MovePlayer(r, h, dest) PROVE InARoom(p)' \/ OnItsWay(p)'
    <3>1. CASE p = h /\ MapOf[dest] # MapOf[r]
      BY <2>5, <3>1 DEF MovePlayer, InARoom
    <3>2. CASE p = h /\ MapOf[dest] = MapOf[r]
      <4>1. RoomQueued(dest, [kind |-> "enter", player |-> p])'
        BY <2>1, <2>5, <3>2, PushRoomKeeps DEF MovePlayer
      <4> QED
        BY <4>1 DEF OnItsWay, JobOf
    <3>3. CASE p # h
      <4>1. mapLoad'[p] = mapLoad[p] /\ \A r2 \in Rooms : p \in entities[r2] => p \in entities'[r2]
        BY <2>5, <3>3 DEF MovePlayer
      <4> QED
        BY <1>1, <2>1, <2>3, <4>1 DEF InARoom, InGame
    <3> QED
      BY <3>1, <3>2, <3>3
  <2> QED
    BY <1>5, <2>4, <2>5 DEF ChangeChannel, UsePortal
<1> QED
  BY <1>2, <1>3, <1>4, <1>5 DEF RunRoom, RoomStep

LEMMA RoomKeepsDeparture ==
  ASSUME Typed, Custody, Alive, NEW r \in Rooms, RunRoom(r), NEW p \in Players,
         presence'[p] = "LEFT_IN_ROOM", saves'[p] = 0, Sent(p), InARoom(p) \/ OnItsWay(p)
  PROVE  Sent(p)'
<1> USE DEF Typed, TypeOK, RoomsTypeOK
<1> DEFINE h == HeadPlayer(r)
<1>1. saves[p] = 0 /\ ~SaveLeftPlayer(p) /\ presence[p] = "LEFT_IN_ROOM"
  BY SavesBefore, RoomEffect
<1>2. CASE LeaveRoomAndSave(r) /\ h = p
  <2>1. /\ PopJob(r) \in [Rooms -> Seq(RoomJob)] /\ room[p] \in Rooms
        /\ ~HasSaveData(r, p)
    BY <1>1, <1>2, RunHeadFacts DEF LeaveRoomAndSave, Alive, Lent
  <2>2. CASE room[p] # r
    <3>1. roomJobs' = PushRoomJob(PopJob(r), room[p], "leave", p)
      BY <1>2, <2>1, <2>2, WorldAssumption DEF LeaveRoomAndSave
    <3>2. PICK dest \in Rooms : dest = room[p]
      BY <2>1
    <3>3. RoomQueued(dest, [kind |-> "leave", player |-> p])'
      BY <2>1, <3>1, <3>2, PushRoomKeeps
    <3> QED
      BY <3>3 DEF Sent, JobOf
  <2>3. CASE room[p] = r
    <3>1. ~InARoom(p)
      BY <2>1, <2>3, WorldAssumption DEF HasSaveData, InARoom, Custody, InTable, Waiting
    <3>2. OnItsWay(p) /\ ~EnterPlayer(r)
      BY <1>2, <3>1 DEF LeaveRoomAndSave, EnterPlayer, RunHead
    <3>3. OnItsWay(p)'
      BY <3>2, RoomJobGoesOn DEF OnItsWay
    <3> QED
      BY <3>3 DEF Sent
  <2> QED
    BY <2>2, <2>3
<1>3. CASE EnterPlayer(r) /\ h = p
  <2>1. JobAt(r, 1, "enter", p) /\ 1 \in Nat
    BY <1>3, HeadAt DEF EnterPlayer
  <2>2. p \notin entities[r]
    BY <2>1 DEF Custody, OnTheWay, InNoTable
  <2>3. entering'[r] = p
    BY <1>3, <2>2 DEF EnterPlayer, AdmitTo
  <2> QED
    BY <2>3 DEF Sent
<1>4. CASE ~(LeaveRoomAndSave(r) /\ h = p) /\ ~(EnterPlayer(r) /\ h = p)
  <2>1. CASE \E t \in Threads : pc[t] = "leave" /\ arg[t] = p
    BY <2>1 DEF RunRoom, Sent
  <2>2. ASSUME NEW r2 \in Rooms, entering[r2] = p PROVE Sent(p)'
    <3>1. entering[r2] # NoPlayer
      BY <2>2 DEF Players, NoPlayer
    <3>2. CASE r2 = r
      <4>1. MarkEnteredRoom(r)
        BY <3>1, <3>2 DEF RunRoom, RoomStep, LeaveRoomAndSave, EnterPlayer, MapLoadComplete,
           ChangeChannel, UsePortal, RunHead
      <4> QED
        BY <1>1, <2>2, <3>2, <4>1 DEF MarkEnteredRoom
    <3>3. CASE r2 # r
      <4>1. entering'[r2] = entering[r2]
        BY <3>3 DEF RunRoom, RoomStep, LeaveRoomAndSave, EnterPlayer, MapLoadComplete, AdmitTo,
           MarkEnteredRoom, ChangeChannel, UsePortal, MovePlayer, StayInRoom
      <4> QED
        BY <2>2, <4>1 DEF Sent
    <3> QED
      BY <3>2, <3>3
  <2>3. CASE \E r2 \in Rooms : RoomQueued(r2, JobOf("leave", p))
    BY <1>4, <2>3, RoomJobGoesOn DEF Sent
  <2>4. CASE OnItsWay(p)
    <3>1. OnItsWay(p)'
      BY <1>4, <2>4, RoomJobGoesOn DEF OnItsWay
    <3> QED
      BY <3>1 DEF Sent
  <2> QED
    BY <2>1, <2>2, <2>3, <2>4 DEF Sent
<1> QED
  BY <1>2, <1>3, <1>4

(* What the steps outside the rooms leave alone.                           *)
LEMMA Elsewhere ==
  ASSUME Typed, [Next]_vars, ~\E r \in Rooms : RunRoom(r)
  PROVE  /\ UNCHANGED <<entities, entering, saves>>
         /\ \A p \in Players : presence[p] # "NONE" => mapLoad'[p] = mapLoad[p]
         /\ \A r \in Rooms : \A x : RoomQueued(r, x) => RoomQueued(r, x)'
<1> DEFINE Kept == \A p \in Players : presence[p] # "NONE" => mapLoad'[p] = mapLoad[p]
           Queued == \A r \in Rooms : \A x : RoomQueued(r, x) => RoomQueued(r, x)'
           Good == UNCHANGED <<entities, entering, saves>> /\ Kept /\ Queued
<1>0. /\ roomJobs \in [Rooms -> Seq(RoomJob)] /\ room \in [Players -> Rooms \cup {NoRoom}]
      /\ mapLoad \in [Players -> Rooms \cup {NoRoom}]
  BY DEF Typed, TypeOK, RoomsTypeOK
<1>1. ASSUME roomJobs' = roomJobs PROVE Queued
  BY <1>1 DEF RoomQueued, InQueue
<1>2. ASSUME NEW s \in Sessions, NEW packet \in Packets, HandleInGame(s, packet) PROVE Good
  <2>1. packet \in {"mapLoaded", "channel", "portal"}
    BY <1>2, ProgressAssumption DEF HandleInGame, InGamePackets
  <2>2. UNCHANGED <<entities, entering, saves, mapLoad>>
    BY <1>2 DEF HandleInGame
  <2>3. CASE roomJobs' = roomJobs
    BY <1>1, <2>2, <2>3
  <2>4. CASE roomJobs' # roomJobs
    <3>1. /\ player[s] # NoPlayer /\ room[player[s]] # NoRoom
          /\ roomJobs' = PushRoomJob(roomJobs, room[player[s]], packet, player[s])
      BY <1>2, <2>4 DEF HandleInGame
    <3>2. player[s] \in Players /\ room[player[s]] \in Rooms
      BY <1>0, <3>1 DEF Typed, TypeOK
    <3>3. Queued
      BY <1>0, <2>1, <3>1, <3>2, PushRoomKeeps DEF RoomQueued
    <3> QED
      BY <2>2, <3>3
  <2> QED
    BY <2>3, <2>4
<1>3. ASSUME NEW s \in Sessions, Handle(s) \/ Disconnect(s) \/ BindStep(s) \/ DiscStep(s) \/ ParkReturn(s)
      PROVE  Good
  <2>1. CASE \E packet \in Packets : HandleInGame(s, packet)
    BY <1>2, <2>1
  <2>2. CASE ~\E packet \in Packets : HandleInGame(s, packet)
    <3>1. UNCHANGED <<entities, entering, saves, mapLoad, roomJobs>>
      BY <1>3, <2>2 DEF Handle, HandleConnectLobby, HandleEnterGame, HandleReturnToLobby,
         Disconnect, BindStep, RejectLobbyConnect, RegisterUser, ReadReplaced, CheckPresence,
         KickReplaced, FinishLobbyConnect, DiscStep, ReadPlayer, UnregisterUser, ParkReturn
    <3> QED
      BY <1>1, <3>1
  <2> QED
    BY <2>1, <2>2
<1>4. ASSUME NEW t \in Threads, ThreadStep(t) PROVE Good
  <2>1. UNCHANGED <<entities, entering, saves, mapLoad>>
    BY <1>4 DEF ThreadStep, TakeHold, MarkDisconnected, PushLeave, DropHold
  <2>2. CASE roomJobs' = roomJobs
    BY <1>1, <2>1, <2>2
  <2>3. CASE roomJobs' # roomJobs
    <3>1. /\ pc[t] = "leave" /\ room[arg[t]] # NoRoom
          /\ roomJobs' = PushRoomJob(roomJobs, room[arg[t]], "leave", arg[t])
      BY <1>4, <2>3 DEF ThreadStep, TakeHold, MarkDisconnected, PushLeave, DropHold
    <3>2. arg[t] \in Players /\ room[arg[t]] \in Rooms
      BY <1>0, <3>1 DEF Typed, ThreadsOK
    <3>3. Queued
      BY <1>0, <3>1, <3>2, PushRoomKeeps DEF RoomQueued
    <3> QED
      BY <2>1, <3>3
  <2> QED
    BY <2>2, <2>3
<1>5. ASSUME NEW u \in Users, DbStep(u) PROVE Good
  <2>1. UNCHANGED <<entities, entering, saves, roomJobs>>
    BY <1>5 DEF DbStep, SelectCharacter, CheckConnected, Enter, AcceptReturn, MarkSaved, ReleaseSaved
  <2>2. Kept
    <3>1. CASE Enter(u)
      BY <1>0, <3>1 DEF Enter
    <3> QED
      BY <1>5, <3>1 DEF DbStep, SelectCharacter, CheckConnected, AcceptReturn, MarkSaved, ReleaseSaved
  <2> QED
    BY <1>1, <2>1, <2>2
<1>6. ASSUME NEW timer \in timers, ExpireTimer(timer) PROVE Good
  BY <1>1, <1>6 DEF ExpireTimer
<1>7. ASSUME UNCHANGED vars PROVE Good
  BY <1>1, <1>7
<1> QED
  BY <1>3, <1>4, <1>5, <1>6, <1>7 DEF Next, ServerStep

(* A departure that a thread is about to push is pushed.                   *)
LEMMA LeaverMoves ==
  ASSUME Typed, Alive, [Next]_vars, NEW t \in Threads, pc[t] = "leave"
  PROVE  (pc'[t] = pc[t] /\ arg'[t] = arg[t]) \/ PushLeave(t)
<1> DEFINE Same == pc'[t] = pc[t] /\ arg'[t] = arg[t]
<1> USE DEF Goto
<1>0. /\ pc \in [Threads -> Labels] /\ arg \in [Threads -> Players \cup {NoPlayer}]
      /\ t[2] \in Sessions /\ t[1] \in {"recv", "disc"} /\ t = <<t[1], t[2]>>
  BY ThreadNames DEF Typed, TypeOK, ThreadsOK
<1>1. ASSUME NEW s \in Sessions, Handle(s) \/ Disconnect(s) \/ BindStep(s) PROVE Same
  <2>1. t # <<"bind", s>>
    BY <1>0
  <2>2. CASE HandleReturnToLobby(s)
    <3>1. t # <<"recv", s>>
      BY <2>2 DEF HandleReturnToLobby, ReceiveInGame, Receive
    <3> QED
      BY <1>0, <2>2, <3>1 DEF HandleReturnToLobby
  <2>3. CASE Disconnect(s)
    <3>1. t # <<"disc", s>>
      BY <2>3 DEF Disconnect, Alive
    <3> QED
      BY <1>0, <2>3, <3>1 DEF Disconnect
  <2> QED
    BY <1>0, <1>1, <2>1, <2>2, <2>3 DEF Handle, HandleConnectLobby, HandleEnterGame,
       HandleInGame, BindStep, RejectLobbyConnect, RegisterUser, ReadReplaced, CheckPresence,
       KickReplaced, FinishLobbyConnect
<1>2. ASSUME NEW s \in Sessions, DiscStep(s) \/ ParkReturn(s) PROVE Same
  BY <1>0, <1>2 DEF DiscStep, ReadPlayer, UnregisterUser, ParkReturn
<1>3. ASSUME NEW t2 \in Threads, ThreadStep(t2), ~PushLeave(t) PROVE Same
  <2>1. t # t2
    BY <1>3 DEF ThreadStep, TakeHold, MarkDisconnected, DropHold
  <2> QED
    BY <1>0, <1>3, <2>1 DEF ThreadStep, TakeHold, MarkDisconnected, PushLeave, DropHold
<1>4. ASSUME NEW u \in Users, DbStep(u) PROVE Same
  BY <1>4 DEF DbStep, SelectCharacter, CheckConnected, Enter, AcceptReturn, MarkSaved, ReleaseSaved
<1>5. ASSUME NEW r \in Rooms, RunRoom(r) PROVE Same
  BY <1>5 DEF RunRoom
<1>6. ASSUME NEW timer \in timers, ExpireTimer(timer) PROVE Same
  BY <1>6 DEF ExpireTimer
<1>7. ASSUME UNCHANGED vars PROVE Same
  BY <1>7
<1> QED
  BY <1>1, <1>2, <1>3, <1>4, <1>5, <1>6, <1>7 DEF Next, ServerStep

LEMMA InGameBefore ==
  ASSUME Typed, [Next]_vars, ~\E r \in Rooms : RunRoom(r), NEW p \in Players,
         presence'[p] \in {"IN_ROOM", "LEFT_IN_ROOM"}
  PROVE  \/ presence'[p] = presence[p]
         \/ /\ presence[p] = "IN_ROOM" /\ presence'[p] = "LEFT_IN_ROOM"
            /\ \E t \in Threads : MarkDisconnected(t) /\ arg[t] = p
<1>1. ASSUME NEW u \in Users, MarkSaved(u) PROVE presence'[p] = presence[p]
  BY <1>1 DEF MarkSaved, Typed, TypeOK, RoomsTypeOK
<1>2. CASE ~\E u \in Users : MarkSaved(u)
  <2>1. \/ presence'[p] = presence[p]
        \/ \E t \in Threads : /\ MarkDisconnected(t) /\ arg[t] = p
                              /\ presence'[p] = AfterDisconnect(presence[p])
    BY <1>2, PlayerStep
  <2> QED
    BY <2>1 DEF AfterDisconnect
<1> QED
  BY <1>1, <1>2

LEMMA ThreadKeepsDeparture ==
  ASSUME Typed, Alive, [Next]_vars, ~\E r \in Rooms : RunRoom(r), NEW p \in Players,
         presence[p] = "LEFT_IN_ROOM", Sent(p)
  PROVE  Sent(p)'
<1>1. ASSUME NEW t \in Threads, pc[t] = "leave", arg[t] = p PROVE Sent(p)'
  <2>1. CASE pc'[t] = pc[t] /\ arg'[t] = arg[t]
    BY <1>1, <2>1 DEF Sent
  <2>2. CASE PushLeave(t)
    <3>1. PICK dest \in Rooms : dest = room[p]
      BY DEF Alive, Lent
    <3>2. roomJobs' = PushRoomJob(roomJobs, dest, "leave", p)
      BY <1>1, <2>2, <3>1, WorldAssumption DEF PushLeave
    <3>3. RoomQueued(dest, [kind |-> "leave", player |-> p])'
      BY <3>2, PushRoomKeeps DEF Typed, TypeOK, RoomsTypeOK
    <3> QED
      BY <3>3 DEF Sent, JobOf
  <2> QED
    BY <1>1, <2>1, <2>2, LeaverMoves
<1>2. /\ \A r \in Rooms : entering[r] = p => entering'[r] = p
      /\ \A r \in Rooms : \A x : RoomQueued(r, x) => RoomQueued(r, x)'
  BY Elsewhere
<1>3. CASE \E r \in Rooms : entering[r] = p
  BY <1>2, <1>3 DEF Sent
<1>4. ASSUME NEW r \in Rooms, NEW kind \in {"leave", "enter"}, RoomQueued(r, JobOf(kind, p))
      PROVE  Sent(p)'
  <2>1. PICK job : job = JobOf(kind, p)
    OBVIOUS
  <2>2. RoomQueued(r, job)'
    BY <1>2, <1>4, <2>1
  <2>3. RoomQueued(r, JobOf(kind, p))'
    BY <2>1, <2>2 DEF JobOf
  <2> QED
    BY <2>3 DEF Sent, OnItsWay
<1> QED
  BY <1>1, <1>3, <1>4 DEF Sent, OnItsWay

(* A save that was pushed stays queued until the job has run.              *)
Saving(u, p) ==
  presence[p] = "LEFT_IN_ROOM" /\ saves[p] = 1 /\ u = UserOfPlayer(p) => DbQueued(u, SaveOf(p))

LEMMA SavingStays ==
  ASSUME Typed, Typed', Custody, Alive, [Next]_vars, NEW p \in Players, NEW u \in Users,
         Saving(u, p)
  PROVE  Saving(u, p)'
<1> SUFFICES ASSUME presence'[p] = "LEFT_IN_ROOM", saves'[p] = 1, u = UserOfPlayer(p)'
             PROVE  DbQueued(u, SaveOf(p))'
  BY DEF Saving
<1>0. /\ saves \in [Players -> Nat] /\ presence[p] # "NONE"
      /\ presence[p] \in {"IN_ROOM", "LEFT_IN_ROOM"}
  <2>1. CASE \E r \in Rooms : RunRoom(r)
    BY <2>1, RoomEffect DEF Typed, TypeOK, RoomsTypeOK
  <2>2. CASE ~\E r \in Rooms : RunRoom(r)
    BY <2>2, InGameBefore DEF Typed, TypeOK, RoomsTypeOK
  <2> QED
    BY <2>1, <2>2
<1>1. owner'[p] = owner[p] /\ u = UserOfPlayer(p)
  BY <1>0, OwnerStays DEF UserOfPlayer
<1>2. ASSUME NEW r \in Rooms, RunRoom(r), SaveLeftPlayer(p) PROVE DbQueued(u, SaveOf(p))'
  <2>1. DbQueued(u, SaveOf(p))'
    BY <1>1, <1>2, SaveKeeps
  <2> QED
    BY <2>1
<1>3. CASE ~\E r \in Rooms : RunRoom(r) /\ SaveLeftPlayer(p)
  <2>1. saves[p] = 1
    <3>1. ASSUME NEW r \in Rooms, RunRoom(r) PROVE saves'[p] = saves[p]
      BY <1>0, <1>3, <3>1, RoomEffect DEF SaveLeftPlayer
    <3> QED
      BY <3>1, Elsewhere
  <2>2. presence[p] = "LEFT_IN_ROOM"
    BY <1>0, <2>1 DEF Custody, Leaving, Departed
  <2>3. PICK job : job = SaveOf(p)
    OBVIOUS
  <2>4. DbQueued(u, job) /\ job.kind = "save" /\ job.player = p
    BY <1>1, <2>1, <2>2, <2>3 DEF Saving, SaveOf
  <2>5. ~(DbStep(u) /\ job = Head(dbJobs[u]))
    <3> SUFFICES ASSUME DbStep(u), job = Head(dbJobs[u]) PROVE FALSE
      OBVIOUS
    <3>1. MarkSaved(u)
      BY <2>4 DEF DbStep, SelectCharacter, CheckConnected, Enter, AcceptReturn, ReleaseSaved, DbHead
    <3>2. presence'[p] = "SAVED"
      BY <2>4, <3>1 DEF MarkSaved, Typed, TypeOK, RoomsTypeOK
    <3> QED
      BY <3>2
  <2>6. DbQueued(u, job)'
    BY <2>4, <2>5, JobsStayQueued
  <2> QED
    BY <2>3, <2>6 DEF SaveOf
<1> QED
  BY <1>2, <1>3

DepartureInv ==
  /\ Alive
  /\ \A p \in Players : InGame(p) => InARoom(p) \/ OnItsWay(p)
  /\ \A p \in Players : presence[p] = "LEFT_IN_ROOM" /\ saves[p] = 0 => Sent(p)
  /\ \A p \in Players, u \in Users : Saving(u, p)

LEMMA NextDeparture ==
  ASSUME Typed, Typed', Custody, DepartureInv, [Next]_vars
  PROVE  DepartureInv'
<1> USE DEF DepartureInv
<1>1. Alive'
  BY NextAlive
<1>2. ASSUME NEW p \in Players, InGame(p)' PROVE InARoom(p)' \/ OnItsWay(p)'
  <2>1. CASE \E r \in Rooms : RunRoom(r)
    BY <1>2, <2>1, RoomKeepsPlayer
  <2>2. CASE ~\E r \in Rooms : RunRoom(r)
    <3>1. InGame(p)
      BY <1>2, <2>2, InGameBefore, Elsewhere DEF InGame
    <3>2. CASE InARoom(p)
      BY <2>2, <3>1, <3>2, Elsewhere DEF InARoom, InGame
    <3>3. CASE OnItsWay(p)
      <4>1. PICK r \in Rooms, job \in {JobOf("enter", p)} : RoomQueued(r, job)
        BY <3>3 DEF OnItsWay
      <4>2. RoomQueued(r, job)'
        BY <2>2, <4>1, Elsewhere
      <4> QED
        BY <4>1, <4>2 DEF OnItsWay, JobOf
    <3> QED
      BY <3>1, <3>2, <3>3
  <2> QED
    BY <2>1, <2>2
<1>3. ASSUME NEW p \in Players, presence'[p] = "LEFT_IN_ROOM", saves'[p] = 0 PROVE Sent(p)'
  <2>1. CASE \E r \in Rooms : RunRoom(r)
    <3>1. PICK r \in Rooms : RunRoom(r)
      BY <2>1
    <3>2. presence[p] = "LEFT_IN_ROOM" /\ saves[p] = 0
      BY <1>3, <3>1, RoomEffect, SavesBefore
    <3> QED
      BY <1>3, <3>1, <3>2, RoomKeepsDeparture DEF InGame
  <2>2. CASE ~\E r \in Rooms : RunRoom(r)
    <3>1. saves[p] = 0
      BY <1>3, <2>2, Elsewhere
    <3>2. CASE presence[p] = "LEFT_IN_ROOM"
      BY <2>2, <3>1, <3>2, ThreadKeepsDeparture
    <3>3. ASSUME NEW t \in Threads, MarkDisconnected(t), arg[t] = p PROVE Sent(p)'
      <4>1. pc'[t] = "leave" /\ arg'[t] = p
        BY <1>3, <3>3 DEF MarkDisconnected, Goto, Typed, TypeOK, RoomsTypeOK
      <4> QED
        BY <4>1 DEF Sent
    <3> QED
      BY <1>3, <2>2, <3>2, <3>3, InGameBefore
  <2> QED
    BY <2>1, <2>2
<1>4. \A p \in Players, u \in Users : Saving(u, p)'
  BY SavingStays
<1> QED
  BY <1>1, <1>2, <1>3, <1>4

LEMMA DepartureFound ==
  ASSUME Typed, Custody, DepartureInv
  PROVE  DeparturesUnderway
<1> SUFFICES ASSUME NEW p \in Players, presence[p] = "LEFT_IN_ROOM" PROVE SaveUnderway(p)
  BY DEF DeparturesUnderway
<1>1. CASE saves[p] = 0
  <2>1. Sent(p)
    BY <1>1 DEF DepartureInv
  <2>2. ASSUME NEW r \in Rooms, NEW kind \in {"leave", "enter"}, RoomQueued(r, JobOf(kind, p))
        PROVE  SaveUnderway(p)
    BY <2>2 DEF SaveUnderway, RoomQueued, InQueue, JobOf
  <2> QED
    BY <2>1, <2>2 DEF Sent, OnItsWay, SaveUnderway
<1>2. CASE saves[p] = 1
  <2>1. PICK u \in Users : u = UserOfPlayer(p)
    BY WorldAssumption DEF DepartureInv, Alive, Lent, UserOfPlayer
  <2>2. DbQueued(u, SaveOf(p))
    BY <1>2, <2>1 DEF DepartureInv, Saving
  <2> QED
    BY <2>1, <2>2 DEF SaveUnderway, DbQueued, InQueue, SaveOf
<1> QED
  BY <1>1, <1>2 DEF Custody, Leaving

(* A player that left a room is on its way to its save at every moment,    *)
(* through every hand-over between the rooms it was moving between.  All   *)
(* windows may be open (LeaveRoomAndSave, EnterPlayer, MovePlayer).        *)
THEOREM DeparturesNotLost == Spec => []DeparturesUnderway
<1>1. Init => DepartureInv
  <2> SUFFICES ASSUME Init PROVE DepartureInv
    OBVIOUS
  <2>1. \A p \in Players : presence[p] = "NONE"
    BY DEF Init, RoomsInit
  <2> QED
    BY <2>1, InitAlive DEF DepartureInv, InGame, Saving
<1>2. (Typed /\ Custody) /\ DepartureInv /\ [Next]_vars => DepartureInv'
  BY NextTyped, NextDeparture
<1>3. (Typed /\ Custody) /\ DepartureInv => DeparturesUnderway
  BY DepartureFound
<1> QED
  BY <1>1, <1>2, <1>3, CustodyHolds, PTL DEF Spec
=============================================================================
