---------------------------- MODULE RoomContent ----------------------------
(***************************************************************************)
(* What is inside one room (Game/Room/Room.cpp): the cells of the entities *)
(* and what each client was told of them, the monsters with their spawn    *)
(* points, respawns and AI, the players with their deaths and actions.     *)
(*                                                                         *)
(* All of it belongs to the room's job queue, so a job is one action       *)
(* (JobQueue shows that a queue runs one job at a time).  The room tick is *)
(* the long job: here it is several actions, one per entity, and the other *)
(* jobs of the room wait for its end.  What does interleave with it is the *)
(* life of the player objects, which other threads make and free.          *)
(*                                                                         *)
(* Positions are abstracted to the cell they lie in, time to choices:      *)
(* whether a range covers a player in a neighbouring cell, whether a timer *)
(* is due, whether a hit kills.                                            *)
(***************************************************************************)
EXTENDS Integers, FiniteSets

CONSTANTS
  Players,      \* the characters; at most one object of each exists at a time
  Monsters,     \* entity ids of monsters; an id is free again after a death
  Points,       \* spawn points (MonsterSpawner::_spawnPoints)
  MaxCount,     \* the monsters each spawn point keeps (SpawnGroupRow::MaxCount)
  Home,         \* the cell of each spawn point
  Width, Height,\* the size of the cell matrix
  ChaseCells,   \* how many cells from home a monster chases (_chasingMaxRange)
  Windows,      \* "freed": an object may be freed before the monsters' next tick
  NoPoint, NoCell, NoTarget

Cells == (0 .. Width - 1) \X (0 .. Height - 1)
Entities == Players \cup Monsters

ASSUME GridAssumption ==
  /\ Width \in Nat \ {0}
  /\ Height \in Nat \ {0}
  /\ ChaseCells \in Nat
  /\ Home \in [Points -> Cells]
  /\ NoCell \notin Cells

ASSUME EntityAssumption ==
  /\ IsFiniteSet(Monsters)
  /\ Players \cap Monsters = {}
  /\ MaxCount \in [Points -> Nat]
  /\ NoPoint \notin Points
  /\ NoTarget \notin Players

VARIABLES
  phase,    \* what the room queue is doing: a job, or a part of the tick
  todo,     \* the entities this part of the tick still visits
  objects,  \* the players whose Player object exists
  dead,     \* the players whose _isDead is set
  swing,    \* the cell in which a player began its running action, or NoCell
  cell,     \* the recorded cell (CellMatrix::_entityCells) of who is in the room
  known,    \* the entities each client in the room shows
  point,    \* the spawn point of each monster in the room
  pending,  \* respawns waiting for their time, per spawn point
  due,      \* respawns the spawner has just handed to the tick
  pos,      \* the cell a monster really is in; the recorded one may lag
  mind      \* MonsterAIComponent, its path and its running action

lifeVars == <<objects, dead>>
viewVars == <<cell, known>>
spawnVars == <<point, pending, due>>
tickVars == <<phase, todo>>
vars == <<tickVars, lifeVars, swing, viewVars, spawnVars, pos, mind>>

States == {"Idle", "Wandering", "Chasing", "Attacking", "Returning"}
Mind == [state : States, target : Players \cup {NoTarget},
         goal : Cells \cup {NoCell}, swing : Cells \cup {NoCell}]
NewMind == [state |-> "Idle", target |-> NoTarget, goal |-> NoCell, swing |-> NoCell]

InRoom == {e \in Entities : cell[e] # NoCell}
Living == (Players \cap InRoom) \ dead
AtPoint(sp) == {m \in Monsters : point[m] = sp}

TypeOK ==
  /\ phase \in {"jobs", "refresh", "respawn", "entities"}
  /\ todo \subseteq Entities
  /\ objects \subseteq Players
  /\ dead \subseteq Players
  /\ swing \in [Players -> Cells \cup {NoCell}]
  /\ cell \in [Entities -> Cells \cup {NoCell}]
  /\ known \in [Players -> SUBSET Entities]
  /\ point \in [Monsters -> Points \cup {NoPoint}]
  /\ pending \in [Points -> Nat]
  /\ due \in [Points -> Nat]
  /\ pos \in [Monsters -> Cells \cup {NoCell}]
  /\ mind \in [Monsters -> Mind]

(***************************************************************************)
(* Cells                                                                   *)
(***************************************************************************)

IsNeighbor(a, b) == \A i \in 1 .. 2 : a[i] - b[i] \in -1 .. 1

Within(a, b, n) == \A i \in 1 .. 2 : a[i] - b[i] \in -n .. n

\* One step of a path: a cell nearer to the goal along each axis.
Toward(a, goal) ==
  {c \in Cells : /\ c # a
                 /\ IsNeighbor(a, c)
                 /\ \A i \in 1 .. 2 : \/ a[i] <= c[i] /\ c[i] <= goal[i]
                                      \/ goal[i] <= c[i] /\ c[i] <= a[i]}

QueryNeighbors(c) == {e \in InRoom : IsNeighbor(cell[e], c)}

FindNearbyEntities(e) == QueryNeighbors(cell[e])

(***************************************************************************)
(* Notices.  Each operator is the `known' that the packets of one change   *)
(* leave behind; a client handles them in the order they were sent.        *)
(***************************************************************************)

\* S_SPAWN of e to the clients in `shown', S_DESPAWN (or S_DIE) to `hidden'.
Told(e, shown, hidden) ==
  [p \in Players |-> IF p \in shown \ {e} THEN known[p] \cup {e}
                    ELSE IF p \in hidden \ {e} THEN known[p] \ {e}
                    ELSE known[p]]

\* S_ENTER_ROOM makes p's client forget all it showed; then S_SPAWN both ways.
\* `others' are the entities of the cells around the cell p enters.
AnnounceEnter(p, before, others) ==
  [q \in Players |-> IF q = p THEN others \ {p}
                    ELSE IF q \in others THEN before[q] \cup {p}
                    ELSE before[q]]

\* Deviation: the new cell is recorded before the old neighbours are looked up.
UpdateVisibility_PlacedFirst(e, c) ==
  LET revealed == {o \in QueryNeighbors(c) \ {e} : ~ IsNeighbor(cell[o], cell[e])}
      told == Told(e, revealed, {})
  IN /\ cell' = [cell EXCEPT ![e] = c]
     /\ known' = [p \in Players |-> IF p = e THEN known[p] \cup revealed ELSE told[p]]

UpdateVisibility(e, c) ==
  LET hidden == {o \in QueryNeighbors(cell[e]) \ {e} : ~ IsNeighbor(cell[o], c)}
      revealed == {o \in QueryNeighbors(c) \ {e} : ~ IsNeighbor(cell[o], cell[e])}
      told == Told(e, revealed, hidden)
  IN /\ cell' = [cell EXCEPT ![e] = c]
     /\ known' = [p \in Players |->
                    IF p = e THEN (known[p] \ hidden) \cup revealed ELSE told[p]]

(***************************************************************************)
(* The jobs of the room                                                    *)
(***************************************************************************)

\* Room::EnterPlayer.  A player that disconnected on its way leaves again in
\* the same job, unannounced: nothing of what is modelled here changes.
EnterPlayer(p, c) ==
  /\ phase = "jobs"
  /\ p \in objects
  /\ cell[p] = NoCell
  /\ cell' = [cell EXCEPT ![p] = c]
  /\ known' = AnnounceEnter(p, known, QueryNeighbors(c))
  /\ UNCHANGED <<tickVars, lifeVars, swing, spawnVars, pos, mind>>

\* Who leaves is despawned where it was recorded, then loses its cell and its action.
LeavePlayer(p) ==
  /\ cell[p] # NoCell
  /\ known' = [Told(p, {}, FindNearbyEntities(p)) EXCEPT ![p] = {}]
  /\ cell' = [cell EXCEPT ![p] = NoCell]
  /\ swing' = [swing EXCEPT ![p] = NoCell]

\* A departure: to another room or out of the game, dead or alive.  A revived
\* player may be on its way to a town in another room (C_HandleRespawn).
Depart(p, revived) ==
  /\ phase = "jobs"
  /\ p \in Players
  /\ LeavePlayer(p)
  /\ revived => p \in dead
  /\ dead' = IF revived THEN dead \ {p} ELSE dead
  /\ UNCHANGED <<tickVars, objects, spawnVars, pos, mind>>

\* Portal or respawn within the map.  The running action goes on.
TeleportPlayer(p, c, revived) ==
  /\ phase = "jobs"
  /\ cell[p] # NoCell
  /\ revived => p \in dead
  /\ dead' = IF revived THEN dead \ {p} ELSE dead
  /\ cell' = [cell EXCEPT ![p] = c]
  /\ known' = AnnounceEnter(p, Told(p, {}, FindNearbyEntities(p)),
                            QueryNeighbors(c) \ {p})
  /\ UNCHANGED <<tickVars, objects, swing, spawnVars, pos, mind>>

C_HandleMove(p, c) ==
  /\ phase = "jobs"
  /\ cell[p] # NoCell
  /\ UpdateVisibility(p, c)
  /\ UNCHANGED <<tickVars, lifeVars, swing, spawnVars, pos, mind>>

\* An accepted action first moves its player to where the client began it.
C_HandleAction(p, c) ==
  /\ phase = "jobs"
  /\ cell[p] # NoCell
  /\ p \notin dead
  /\ UpdateVisibility(p, c)
  /\ swing' = [swing EXCEPT ![p] = c]
  /\ UNCHANGED <<tickVars, lifeVars, spawnVars, pos, mind>>

(***************************************************************************)
(* Player objects, on other threads                                        *)
(***************************************************************************)

\* A login loads a character: a new object, revived if it was saved dead.
ObjectMade(p) ==
  /\ p \notin objects
  /\ objects' = objects \cup {p}
  /\ dead' = dead \ {p}
  /\ UNCHANGED <<tickVars, swing, viewVars, spawnVars, pos, mind>>

\* The last reference to a departed player goes: save done, session freed.  A
\* monster's weak reference to it then reads as no target.
ObjectFreed(p) ==
  /\ p \in objects
  /\ cell[p] = NoCell
  /\ \/ "freed" \in Windows
     \/ \A m \in Monsters : mind[m].target # p
  /\ objects' = objects \ {p}
  /\ mind' = [m \in Monsters |->
                IF mind[m].target = p THEN [mind[m] EXCEPT !.target = NoTarget] ELSE mind[m]]
  /\ UNCHANGED <<tickVars, dead, swing, viewVars, spawnVars, pos>>

(***************************************************************************)
(* The room tick: RefreshVisibility, respawns, entities                    *)
(***************************************************************************)

\* A player's cell is recorded whenever it moves, so only monsters can lag.
StartTick ==
  /\ phase = "jobs"
  /\ phase' = "refresh"
  /\ todo' = Monsters \cap InRoom
  /\ UNCHANGED <<lifeVars, swing, viewVars, spawnVars, pos, mind>>

RefreshVisibility(m) ==
  /\ phase = "refresh"
  /\ m \in todo
  /\ UpdateVisibility(m, pos[m])
  /\ todo' = todo \ {m}
  /\ UNCHANGED <<phase, lifeVars, swing, spawnVars, pos, mind>>

\* MonsterSpawner::Tick hands out the respawns whose time has come.
SpawnerTick(ready) ==
  /\ phase = "refresh"
  /\ todo = {}
  /\ \A sp \in Points : ready[sp] <= pending[sp]
  /\ due' = ready
  /\ pending' = [sp \in Points |-> pending[sp] - ready[sp]]
  /\ phase' = "respawn"
  /\ UNCHANGED <<todo, lifeVars, swing, viewVars, point, pos, mind>>

SpawnMonster(sp, m, c) ==
  /\ phase = "respawn"
  /\ due[sp] > 0
  /\ point[m] = NoPoint
  /\ Within(c, Home[sp], 1)
  /\ due' = [due EXCEPT ![sp] = @ - 1]
  /\ point' = [point EXCEPT ![m] = sp]
  /\ cell' = [cell EXCEPT ![m] = c]
  /\ pos' = [pos EXCEPT ![m] = c]
  /\ mind' = [mind EXCEPT ![m] = NewMind]
  /\ known' = Told(m, QueryNeighbors(c), {})
  /\ UNCHANGED <<tickVars, lifeVars, swing, pending>>

\* Deviation: the failed respawn is forgotten.
SpawnFails_Forgotten(sp) ==
  /\ phase = "respawn"
  /\ due[sp] > 0
  /\ due' = [due EXCEPT ![sp] = @ - 1]
  /\ UNCHANGED <<tickVars, lifeVars, swing, viewVars, point, pending, pos, mind>>

\* A respawn that fails is scheduled again.
SpawnFails(sp) ==
  /\ phase = "respawn"
  /\ due[sp] > 0
  /\ due' = [due EXCEPT ![sp] = @ - 1]
  /\ pending' = [pending EXCEPT ![sp] = @ + 1]
  /\ UNCHANGED <<tickVars, lifeVars, swing, viewVars, point, pos, mind>>

TickEntities ==
  /\ phase = "respawn"
  /\ \A sp \in Points : due[sp] = 0
  /\ phase' = "entities"
  /\ todo' = InRoom
  /\ UNCHANGED <<lifeVars, swing, viewVars, spawnVars, pos, mind>>

\* An entity that an earlier one's tick took out of the room is not run.
SkipRemoved(m) ==
  /\ phase = "entities"
  /\ m \in todo
  /\ cell[m] = NoCell
  /\ todo' = todo \ {m}
  /\ UNCHANGED <<phase, lifeVars, swing, viewVars, spawnVars, pos, mind>>

EndTick ==
  /\ phase = "entities"
  /\ todo = {}
  /\ phase' = "jobs"
  /\ UNCHANGED <<todo, lifeVars, swing, viewVars, spawnVars, pos, mind>>

(***************************************************************************)
(* An action's tick.  Its hits reach the entities recorded around the cell *)
(* it began in; what they do to the hit points is a choice of who dies.    *)
(***************************************************************************)

MonstersHit(p) ==
  IF swing[p] = NoCell \/ p \in dead THEN {}
  ELSE {m \in Monsters \cap InRoom : IsNeighbor(cell[m], swing[p])}

PlayersHit(m) ==
  IF mind[m].swing = NoCell THEN {}
  ELSE {p \in Living : IsNeighbor(cell[p], mind[m].swing)}

\* HandleHit, HandleMonsterKill and HandleDie of the monsters a player kills.
TickPlayer(p, killed, over) ==
  /\ phase = "entities"
  /\ p \in todo
  /\ todo' = todo \ {p}
  /\ swing' = [swing EXCEPT ![p] = IF over THEN NoCell ELSE @]
  /\ pending' = [sp \in Points |-> pending[sp] + Cardinality(killed \cap AtPoint(sp))]
  /\ point' = [m \in Monsters |-> IF m \in killed THEN NoPoint ELSE point[m]]
  /\ cell' = [e \in Entities |-> IF e \in killed THEN NoCell ELSE cell[e]]
  /\ pos' = [m \in Monsters |-> IF m \in killed THEN NoCell ELSE pos[m]]
  /\ mind' = [m \in Monsters |-> IF m \in killed THEN NewMind ELSE mind[m]]
  /\ known' = [q \in Players |->
                 known[q] \ {m \in killed : q \in FindNearbyEntities(m)}]
  /\ UNCHANGED <<phase, lifeVars, due>>

(***************************************************************************)
(* MonsterAIComponent: the minds a mind b of monster m may become          *)
(***************************************************************************)

ToIdle(b) == {[b EXCEPT !.state = "Idle", !.target = NoTarget, !.goal = NoCell]}

\* MoveTo finds a path to the cell, or stops: it is there, or there is no way.
MoveTo(b, c) == {[b EXCEPT !.goal = g] : g \in {c, NoCell}}

ToWandering(m, b) ==
  UNION {MoveTo([b EXCEPT !.state = "Wandering"], c) :
           c \in {d \in Cells : Within(d, Home[point[m]], 1)}}

\* Nothing to chase, an attack still running, or its interval not over: no new path.
ChaseTarget(b) ==
  {b} \cup (IF b.target = NoTarget \/ b.swing # NoCell THEN {}
            ELSE MoveTo(b, cell[b.target]))

ToChasing(b) == ChaseTarget([b EXCEPT !.state = "Chasing"])

ToAttacking(b) == {[b EXCEPT !.state = "Attacking", !.goal = NoCell]}

\* Deviation: the attack is left running.
ToReturning_StillAttacking(m, b) ==
  MoveTo([b EXCEPT !.state = "Returning", !.target = NoTarget], Home[point[m]])

\* Deviation: the target is kept, so the next tick finds it lost again.
ToReturning_KeepingTarget(m, b) ==
  MoveTo([b EXCEPT !.state = "Returning", !.swing = NoCell], Home[point[m]])

ToReturning(m, b) ==
  MoveTo([b EXCEPT !.state = "Returning", !.target = NoTarget, !.swing = NoCell],
         Home[point[m]])

MayReach(m, b) == b.target # NoTarget /\ IsNeighbor(pos[m], cell[b.target])

\* Idle and wandering monsters look for a living player around them.
Engage(m, b, living) ==
  UNION {LET c == [b EXCEPT !.target = p]
         IN ToChasing(c) \cup ToAttacking(c) :
           p \in {q \in living : IsNeighbor(pos[m], cell[q])}}

IsBeyondChaseLimit(m) == ~ Within(pos[m], Home[point[m]], ChaseCells)

StateUpdate(m, b, living) ==
  CASE b.state = "Idle" -> Engage(m, b, living) \cup ToWandering(m, b) \cup {b}
    [] b.state = "Wandering" ->
         Engage(m, b, living) \cup ToIdle(b) \cup (IF b.goal = NoCell THEN {} ELSE {b})
    [] b.state = "Chasing" ->
         IF IsBeyondChaseLimit(m) THEN ToReturning(m, b)
         ELSE ChaseTarget(b) \cup (IF MayReach(m, b) THEN ToAttacking(b) ELSE {})
    [] b.state = "Attacking" ->
         IF IsBeyondChaseLimit(m) THEN ToReturning(m, b)
         ELSE ToChasing(b) \cup (IF MayReach(m, b) THEN {b, [b EXCEPT !.swing = pos[m]]}
                                 ELSE {})
    [] b.state = "Returning" -> IF b.goal = NoCell THEN ToIdle(b) ELSE {b}

\* Deviation: a dead target that lies in the room is not lost.
IsTargetLost_NotIfDead(p, living) == p # NoTarget /\ cell[p] = NoCell

\* MonsterAIComponent::IsTargetLost of a target whose object exists.
IsTargetLost(p, living) == p # NoTarget /\ p \notin living

\* The part of MonsterAIComponent::Tick before the state update.
LookAfterTarget(m, b, living) ==
  IF IsTargetLost(b.target, living) THEN ToReturning(m, b) ELSE {b}

\* PathFollowingComponent::Tick: the cells and goals a tick of walking leads to.
Walked(m, b, walk) ==
  IF ~ walk \/ b.goal = NoCell THEN {<<pos[m], b>>}
  ELSE IF pos[m] = b.goal THEN {<<pos[m], [b EXCEPT !.goal = NoCell]>>}
  ELSE {<<c, b>> : c \in Toward(pos[m], b.goal)}

\* Monster::Tick: action, AI, path.  `update': 0.2 s have passed since the last
\* state update; `walk': the path leads into another cell within this tick.
TickMonster(m, killed, over, update, walk) ==
  /\ phase = "entities"
  /\ m \in todo
  /\ cell[m] # NoCell
  /\ todo' = todo \ {m}
  /\ dead' = dead \cup killed
  /\ LET living == Living \ killed
         struck == [mind[m] EXCEPT !.swing = IF over THEN NoCell ELSE @]
     IN \E b \in LookAfterTarget(m, struck, living) :
        \E c \in IF update THEN StateUpdate(m, b, living) ELSE {b} :
        \E w \in Walked(m, c, walk) :
          /\ pos' = [pos EXCEPT ![m] = w[1]]
          /\ mind' = [mind EXCEPT ![m] = w[2]]
  /\ UNCHANGED <<phase, objects, swing, viewVars, spawnVars>>

(***************************************************************************)
(* The room                                                                *)
(***************************************************************************)

\* Room::Start: every spawn point has its monsters, near it, before anyone enters.
Init ==
  /\ phase = "jobs"
  /\ todo = {}
  /\ objects = Players
  /\ dead = {}
  /\ swing = [p \in Players |-> NoCell]
  /\ known = [p \in Players |-> {}]
  /\ point \in [Monsters -> Points \cup {NoPoint}]
  /\ \A sp \in Points : Cardinality(AtPoint(sp)) = MaxCount[sp]
  /\ pending = [sp \in Points |-> 0]
  /\ due = [sp \in Points |-> 0]
  /\ pos \in [Monsters -> Cells \cup {NoCell}]
  /\ \A m \in Monsters : IF point[m] = NoPoint THEN pos[m] = NoCell
                         ELSE pos[m] # NoCell /\ Within(pos[m], Home[point[m]], 1)
  /\ cell = [e \in Entities |-> IF e \in Players THEN NoCell ELSE pos[e]]
  /\ mind = [m \in Monsters |-> NewMind]

PlayerJob(p) ==
  \/ \E c \in Cells :
       \/ EnterPlayer(p, c)
       \/ C_HandleMove(p, c)
       \/ C_HandleAction(p, c)
       \/ \E revived \in BOOLEAN : TeleportPlayer(p, c, revived)
  \/ \E revived \in BOOLEAN : Depart(p, revived)

PlayerTick(p) ==
  \E killed \in SUBSET MonstersHit(p), over \in BOOLEAN : TickPlayer(p, killed, over)

MonsterTick(m, update, walk) ==
  \E killed \in SUBSET PlayersHit(m), over \in BOOLEAN :
    TickMonster(m, killed, over, update, walk)

TickStep ==
  \/ StartTick
  \/ \E m \in Monsters : RefreshVisibility(m)
  \/ \E ready \in [Points -> 0 .. Cardinality(Monsters)] : SpawnerTick(ready)
  \/ \E sp \in Points, m \in Monsters, c \in Cells : SpawnMonster(sp, m, c)
  \/ \E sp \in Points : SpawnFails(sp)
  \/ TickEntities
  \/ \E m \in Monsters : SkipRemoved(m)
  \/ \E p \in Players : PlayerTick(p)
  \/ \E m \in Monsters, update, walk \in BOOLEAN : MonsterTick(m, update, walk)
  \/ EndTick

Next ==
  \/ \E p \in Players : PlayerJob(p) \/ ObjectMade(p) \/ ObjectFreed(p)
  \/ TickStep

Spec == Init /\ [][Next]_vars

\* The room queue runs its tick every 50 ms for ever (JobQueue's EveryJobRuns),
\* and the ticks of a monster add up to its update interval and to its walk.
Fairness ==
  /\ WF_vars(TickStep)
  /\ \A m \in Monsters : SF_vars(MonsterTick(m, TRUE, TRUE))

FairSpec == Spec /\ Fairness

(***************************************************************************)
(* Properties                                                              *)
(***************************************************************************)

\* Each client in the room shows exactly the entities recorded in the cells
\* around its own (the comment in Room::UpdateVisibility): moves, teleports,
\* entries, departures, respawns, deaths and late records never leave a ghost
\* on a client or an entity it was not told of.
ClientsKnowNeighbours ==
  \A p \in Players \cap InRoom : known[p] = FindNearbyEntities(p) \ {p}

\* A spawn point never loses or gains a monster: those in the room, those
\* waiting for their respawn and those just due are always MaxCount together
\* (MonsterSpawner, and the comment in Room::Tick on a failed spawn).
PopulationKept ==
  \A sp \in Points :
    Cardinality(AtPoint(sp)) + pending[sp] + due[sp] = MaxCount[sp]

\* No attack outlives the reason to cancel it: a player outside the room has no
\* action left to be judged in the room it enters next (Room::RemoveEntity), and a
\* monster on its way home no target and no attack that could still hit
\* (MonsterReturningState::Enter), however they got there.
NoStaleAttack ==
  /\ \A p \in Players : cell[p] = NoCell => swing[p] = NoCell
  /\ \A m \in Monsters :
       mind[m].state = "Returning" => mind[m].target = NoTarget /\ mind[m].swing = NoCell

Engaged(m) == mind[m].state \in {"Chasing", "Attacking"}

\* No tick of a monster ends with it chasing or attacking a player that is dead
\* or has left the room: it does not read the position of an object that belongs
\* to another room's queue (the comment in MonsterAIComponent::Tick).
OnlyPresentTargets ==
  [][\A m \in Monsters :
       /\ phase = "entities"
       /\ m \in todo \ todo'
       /\ mind'[m].target # NoTarget
       => mind'[m].target \in Living']_vars

Forsaken(m) == Engaged(m) /\ mind[m].target \notin Living

\* A monster whose target died, left the room or no longer exists gives up, goes
\* home and looks for players again (MonsterAIComponent.h: IsTargetLost is true
\* of a target that is gone, and a lost target is not chased).
StrayRecovers ==
  \A m \in Monsters :
    Forsaken(m) ~> \/ mind[m].state \in {"Idle", "Wandering"}
                   \/ Engaged(m) /\ mind[m].target \in Living
=============================================================================
