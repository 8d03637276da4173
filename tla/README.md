# Formal models of the Project_MMORPG server

TLA+ modules, model-checking configurations and machine-checked proofs for the
game server of this repository (`src/Server`). The models follow the C++ code;
where a comment of the code states a promise, the promise is a property here.

Run everything from this directory: `tlasany M.tla` parses, `tlc -config X.cfg
MC.tla` checks an instance, `tlapm M_proofs.tla` checks a proof module.

## 1. The system

The game server is a Windows IOCP server. A few worker threads complete socket
I/O, run packet handlers, distribute timers and execute job queues; a few DB
threads run one queue each; the main thread boots and shuts down.

| Part | State | Operations | Talks to |
|---|---|---|---|
| Socket session (`ServerCore/Network/Session`) | connected flag, send queue, "disconnect after send" | connect, receive, send, disconnect, time limits | IOCP workers, `Service`, `JobTimer` |
| Service, listener | session set and its limit | accept, add, remove, disconnect all | sessions, shutdown |
| Job queue, timer, global queue (`ServerCore/Job`) | jobs and their count per queue, queues left to others, reserved items | push, execute, hand over, reserve, distribute | every thread, every room |
| DB queue and threads | FIFO of jobs, stop flag | push, wait, stop | handlers push, results go back by packets and room jobs |
| Game session (`GameSession`, `SessionPhase`) | phase, account, player | receive by phase, change phase, disconnect | coordinator, manager |
| Session manager | account -> registered session | bind, register, unregister | lobby handlers |
| Save gate (`SaveGate`) | held flag, parked load, token per account | hold, park, release, expire | coordinator |
| Progress coordinator | none of its own | on-disconnect, on-return, on-duplicate, request-enter, leave-and-save | everything about progress |
| Player presence, room membership (`Player`, `Room`) | presence mark, room pointer, map-load mark, room tables | enter, leave, move, teleport, channel change, portal, map loaded | room job queues |
| Game entry, lobby return | none | check, load, spawn; accept, finish | DB queue, rooms |
| Room content | entities, cells, monsters, actions | tick, visibility, hit, respawn | one room queue |
| Items, quick slots, levels | component arrays of a player | buy, sell, use, equip, set | one room job at a time |
| Id generator (`SnowflakeIdGenerator`) | last id | next, start-after | DB threads, rooms, tables at boot |
| Progress storage, DAOs, DB pool | SQL Server | load, save in one transaction | DB threads |
| Auth ticket, world listing | Redis keys | consume, publish | auth server |
| Auth server (`Server/AuthServer`) | SQL Server, Redis | register, login, list and select worlds | ticket |
| Unreal client, dummy client, tools | - | send packets | server |

What is hard in it: a player's progress is loaded and saved on DB threads while
its rooms, its connection and another connection of the same account go on; a
room has no lock and no thread, only the queue protocol; ids are issued without
the database across restarts. What makes each part right:

* progress: loaded only after the last save of the account, saved exactly once
  per departure, by the room that has the player;
* registrations: one live connection per account, no dead one left behind;
* job queues: one executor, order, nothing lost, everything run;
* ids: unique keys over threads, servers, clock steps and restarts;
* room content: each client shows what lies around it, no monster is lost to its
  spawn point, no attack or target outlives its reason;
* connections: one `OnDisconnected` each, no packet left behind in a queue, no
  cycle of locks, the end of a kicked client;
* shutdown: whoever played is saved, or the log says so;
* tickets: one connection each, in its world, for its account;
* progress of a character: no item lost or doubled, what is saved loads again.

## 2. Modules

| Module | Models | Role |
|---|---|---|
| `ServerWorld` | the constants shared by the parts: sessions, accounts, rooms | parameters |
| `SaveGate` | `SaveGate.cpp` | the gate of an account, as operators |
| `PlayerRooms` | presence and membership: `Room.cpp`, `Player.cpp` | state and room-job actions |
| `ProgressSave` | sessions, manager, coordinator, entry, return: the composition | full specification |
| `ProgressLease` | what the server promises of a progress | abstract specification |
| `MCProgressSave` | account of each session, symmetry | instances |
| `ProgressSave_proofs` | theorems | proofs |
| `JobQueue` | `JobQueue.cpp`, `JobTimer.cpp`, worker loop | full specification |
| `SerialQueue` | lines of jobs | abstract specification |
| `MCJobQueue`, `JobQueue_proofs` | | instance, proofs |
| `SnowflakeIds` | `SnowflakeIdGenerator.cpp`, `IssuedIdDAO.cpp`, the tables | full specification |
| `MCSnowflakeIds`, `SnowflakeIds_proofs` | | instance, proofs |
| `RoomContent` | one room: cells, notices, spawner, AI, actions (`Game/Room`, `Game/AI`, `Game/Spawner`) | full specification |
| `MCRoomContent`, `RoomContent_proofs` | | instance, proofs |
| `SocketSessions` | `Session.cpp`, `Service.cpp`, `PacketSend.h` | full specification |
| `ServerShutdown` | `GameServer.cpp` (Shutdown), `DBQueue.cpp`, the departures it waits for | full specification |
| `AuthTickets` | `AuthServer/src` (login, worlds), `AuthTicket.cpp`, `WorldListing.cpp` | full specification |
| `PlayerProgress` | `Player.cpp` with inventory, equipment, quick slots, levels | full specification |
| `CharacterSheet` | what the server promises of a character's belongings | abstract specification |
| `MCServerParts` | `SocketSessions`, `ServerShutdown`, `AuthTickets`, `PlayerProgress`, side by side | instance |
| `SocketSessions_proofs`, `ServerShutdown_proofs`, `AuthTickets_proofs`, `PlayerProgress_proofs` | | proofs |

### ProgressSave and what it rests on

Threads are program counters: `<<"recv", s>>`, `<<"disc", s>>` and
`<<"bind", s>>` for the worker that handles a session's packets, the one that
completes its disconnection, and the DB thread that binds it to its account
(on a random DB queue, so beside the account's). `dbJobs[u]` is the DB queue of
an account, `roomJobs[r]` the queue of a room; each runs its head job, one at a
time. That room queues are lines is not assumed lightly: it is the theorem
`QueueIsALine` of `JobQueue_proofs`.

Each handler is cut where another thread can see the difference: between the
atomics of `Player`, the locks of `SaveGate` and of the manager, and the pushes.
Merged, because nobody can look in between: reading the player's room and
pushing a job to it; the gate operation that answers "not held" and the push
that follows; registering a player and the phase change beside it; a move
between rooms inside one room job; the phase change of a lobby connection and
its DB job; `MarkEnteredRoom` finding `LEFT_IN_ROOM` and the departure it calls.

Packets are handled after a disconnection too: `OnRecv` finishes the packets of
its buffer. The ticket check, the load, a save and an admission may fail.

**Windows.** Three races of a few instructions break promises that hold
otherwise (section 5). The constant `Windows` names the ones an instance leaves
open; an action that would enter a closed window is not enabled. Custody, types,
registrations, departures and entries under way are proved with every window
open; the promises the windows break are run and proved with them closed
(`NoPlayerLeftBehind` and `HoldsHaveReleasers` with `drop` closed, the others with
all three), and each window has a run of its own that shows the violation.

| Window | What may happen in it |
|---|---|
| `overlap` | a second login of an account is bound while an entry of the first is in flight, or the reverse |
| `drop` | a session goes down between the connection check of its load and the registration of the loaded player |
| `stall` | a thread is delayed around its own hold or release until another player of the account is held or leaving, or until a third login replaces the second before that one has taken its hold |

### JobQueue

A push is `Count` (the atomic increment), `Store`, and, for the push that
raised the count from zero, `TakeOrPass`. An execution is `PopAll`, `FinishJob`
for each job (a job may push and reserve), `Subtract` (the atomic decrement),
then `KeepGoing` or `HandOver`. Only workers keep going: `LEndTickCount` is set
in `DoWorkerJob` alone and is 0 elsewhere, so another thread hands over after
one batch. `Distribute` is `TakeDue`, a `PushDue` per item, `EndDistribute`.
Merged: the exchange of `_distributing` with taking out the items, and resetting
`LCurrentJobQueue` with the push to the global queue of a hand-over. Queues
outlive the run (rooms and the session queue live until shutdown).

### SnowflakeIds

`Next` is `ReadClock`, `LoadLast`, and attempts: `Swap` succeeds, `Retry` is a
failed (or spuriously failed) weak exchange. A reading of the clock is any
member of `Times`, behind the epoch included: this is both a clock set back and
a thread that stalls. `Boot` is the constructor, the query and `StartAfter`, in
`main` before any thread; `Crash` may come at any point. Ids are integers with
the code's widths: sequence 4096, node 1024.

### RoomContent

Everything in a room belongs to its job queue, so a room job is one action. The
tick is the long job: it is cut into one action per entity, while `phase` keeps
the other jobs of the room out. What does interleave with it is the life of the
player objects, which other threads make (`ObjectMade`) and free
(`ObjectFreed`).

A position is the cell it lies in. A player's recorded cell follows each move; a
monster walks in the tick and is recorded at the next one (`RefreshVisibility`),
so `pos` and `cell` differ in between. `known` is what the packets a client got
so far make it show; a client handles them in order. Times and ranges are
choices: whether a range covers a player in a neighbouring cell, whether a timer
is due, whether a hit kills. The five states of the AI are the sets of minds a
tick may leave (`StateUpdate`).

Left out: NPCs (they never move and never die), the damage formula and the
shapes of hit areas (any subset of the entities around may be hit), and the delay
after which a client removes a dead monster (`P1Monster.cpp:38`), taken as
removal. An entry that finds `LEFT_IN_ROOM` leaves in the same job before anyone
is told of it, so nothing here changes.

The window `freed` lets an object be freed before the next tick of a monster
that targets it; the run `lost_target` opens it (section 5).

### SocketSessions

A worker that runs under a session's lock runs one action, but for one case: a
refused send disconnects under the lock, and if the disconnection is refused too,
so does `OnDisconnected`, which may run the jobs of the player's room on this
thread and send to the players around, each under a lock of its own (`Tell`,
`Told`, `Left`). There threads could wait for each other. In a room's queue
already, a departure is only pushed, so the nesting ends there.
`DisconnectAfterSend` is called from DB jobs only, never under a session's lock.
Packets are counted: a send takes all that is queued. Receiving is reduced to
whether the peer is there.

### ServerShutdown

The main thread step by step; time limits are outcomes that set `warned`. A
departure is a room job that hands its save to a DB queue, or follows its player
into another room's queue at most `MaxHops` times: a room runs the departure
where the player points, and the player moves on only by room jobs that were
queued before. The drain rounds must exceed the hops (`MaxHops <= Rounds - 1`). An
accept that passed the test of `_closed` may connect after the copy of the
session set, but is taken to connect before the wait for the sessions ends.

### AuthTickets

A request of the auth server gives way at each `await`; a ticket is consumed by
`GET` and `DEL` of two Redis commands. Crash, expiry, bans and an exception of
the Redis client may come between any two.

### PlayerProgress

Every request of a player is a job of its room, so one action. While the
character is offline the variables are the saved row; the round trip through the
database keeps it as it is, and `Load` checks it as the code does. Two of the six
`GearPart`s stand for all, MP follows HP, a miscellaneous item is a consumable
that is not used, a cooldown is a rejection. The town that a respawn needs is in
the region table (the data tools check it). The list of changed slots
that an answer carries is not modelled.

`CharacterSheet` forgets slots, stacks, worn parts, sessions and saves: it knows
how many pieces of each template a character has, its gold and its level. A load
that lost a row, a swap that doubled a stack, or a death that took a level would
be a step the sheet does not have.

## 3. Runs

| Run | Instance | Shows |
|---|---|---|
| `room_moves` | 1 session, 3 rooms of 2 maps, 2 players in turn, 4 in-game packets, fair | membership, one save, departures stay under way, leavers are saved, return answered |
| `duplicate_login` | 2 sessions of 1 account, 1 room, 2 packets each, symmetry | hold covers save, load after save, registrations, each hold has a releaser, entries wait where they are answered, refinement of `ProgressLease` |
| `login_liveness` | 2 sessions, 1 packet, fair | holds end, entries are answered |
| `job_queue` | 2 workers and a DB thread, 2 queues, 4 jobs, timers, fair | one executor, ownership, refinement of `SerialQueue`, every job runs |
| `snowflake_ids` | 2 servers, 3 threads, 3 calls, 3 clock values, rows one short of overflow | unique, ordered, own-node ids over restarts |
| `room_content` | 2 players, 1 monster of 1 spawn point, 3 cells in a row, fair | clients show their neighbours, population, targets and attacks end, strays go home |
| `server_parts` | connections: 2 sessions, 2 workers, 3 sends, fair; shutdown: 2 clients, 2 rooms, 2 DB queues, 2 rounds; tickets: 1 account, 2 worlds, 1 ticket, 2 DB threads each; progress: 2 gear, 1 potion, 2 slots, 3 levels | the properties of the four modules, refinement of `CharacterSheet` |
| `overlapping_entry`, `drop_during_load`, `stalled_release`, `late_return`, `lost_target` | as small as the trace needs | violations, section 5 |

`server_parts` is a sum of four parts that share no variable: a behaviour chooses
one at its start (`part`) and leaves the others alone, so a state of the run is a
state of one part and every property speaks of its own.

The type invariants are proved, each by a theorem of its module; only that of the
composition, `TypeOK` of `ProgressSave`, is also an invariant of a run.

Bounds, and why they are enough. Two sessions of one account are what a
replacement needs, and a third would only repeat the pair; a session uses two
player objects so that entering again after a return is covered; three rooms
give two channels of a map and a portal target, and every move is between two of
them. `MaxPackets` bounds the in-game packets *handled*; with 4 a player loads
its map, moves, moves again and returns. Four jobs, three of one queue, let a
queue change hands twice and still be pushed to; the second queue lets a job
push elsewhere. Three calls of `Next` let two threads race across an overflow
and a restart. In a room, three cells are the fewest of which two are not
neighbours, so a step may reveal, hide, or both; two players are one that moves
and one that is told; one monster already meets a player that leaves, dies, comes
back as another object, or outruns it (`ChaseCells` is 1). Two workers and two
sessions are the shortest cycle of locks; three sends put one behind a send in
flight and one behind a kick. Two drain rounds with one hop are the least at which
a departure lands behind a marker. One account with one ticket and four DB
threads in two worlds lets every pair consume it at once. Two gear for one part,
one potion that stacks to two, and two slots per section fill every bag; three
levels are a first, a middle and a last; `MaxUid` bounds the items made, `MaxGold`
the purse, `MaxSends` the sends. Except for `room_content` the runs set
`CHECK_DEADLOCK FALSE`: clients may stop sending and all jobs may have run. A
room ticks for ever.

Every property has a mutant: a plausible slip in the code (a dropped check, a
changed order, a store instead of an exchange) under which TLC finds the
property violated in the same run. They stand beside the definitions they
change, marked "Deviation".

**Fairness.** Threads are scheduled and handlers do not block, so every begun
handler, DB job and room job goes on (weak fairness). A timer fires. A kicked
connection goes down although its client does not read: `SendPacketAndDisconnect`
sets a one-second timer that calls `Disconnect` (`PacketSend.h:18-36`), and
`Disconnect` closes the socket itself after its own limit (`Session.cpp:80-95`);
`SocketSessions` models both timers, and a closed socket completes its
`DisconnectEx`. Nothing makes a client send a packet, read or leave. For job
queues: a thread goes on with what it began, and *some* worker keeps looking into
the global queue and at the timers; no single worker is assumed to. For a room:
its tick goes on (each tick reserves the next, and `EveryJobRuns` is checked of
the queue), and the times of a monster's ticks add up to its update interval and
to the next cell of its path, so an update with a walk comes again and again
(strong fairness, since between its ticks the monster's turn is over).

## 4. Proofs

TLAPS checks these for all values of the constants, from the named assumptions
(`ServerWorld`, `ProgressAssumption`, `JobQueueAssumption`,
`SnowflakeAssumption`: disjoint null values, finite threads, numbers in range).

* `ProgressSave_proofs`. Invariants of the protocol. `Typed`, `Custody`,
  `Registration` and those of entries and departures hold with every window open;
  `Requests`, `SaveJobs`, `Owners` and `ReleasersInv` need `drop` closed, `Holds` all three.
  * `Typed`: types and the shape of queue entries and of threads half-way
    through a handler: `TypeCorrect`.
  * `Custody`: where a player is - in the table of the room it points to,
    waiting for that room's map, or in one queued entry - and who will save it:
    the departure that is queued, or the room it arrives in. `OneCustodian`
    alone is not inductive: a step may break it unless the queued jobs, the
    presence mark and the number of saves fit together. From it `SavedOnce`,
    `SingleCustodian`, `SavedMeansGone`. `SingleCustodian` closes TD-049 of
    `docs/tech-debt.md`: the failure branch of `AddEntity` cannot be taken.
  * `Registration`: a registered session that is down has a handler that will
    unregister it, and one that was replaced was told to leave: `SingleSession`,
    `RegistrationsEnd`.
  * `Requests`: a session has one request, and its phase says which; it is in one
    entry of its account's queue or parked. Only the head of a queue is half done.
  * `SaveJobs`: a queued save is of a player that left, the only one of it.
  * `Owners`: session and player name each other; a session whose departure has
    marked its player plays no more. With `drop` closed it gives `NobodyLeftBehind`.
  * `Holds`: whatever is lent is either with the registered session, or known to
    the login that replaced it and is about to hold it, or `Covered`: the account
    is held and no other thread of it is between its hold and its release.
    `HoldCoversSave` says neither who will release a hold nor who will take it, and
    is not inductive. `Holds` carries `SavesAreHeld` and `LoadsFollowSaves`.
  * `ProgressIsLent` maps each step to a step of `ProgressLease` or a stutter: a load
    lends, a disconnection before the room hands back, an arrival plays, the save
    frees. That the account is free when it is lent again is `Holds` of the queue's
    head: a load that runs for a live session finds nobody lent.
  * `EntriesNotLost`, `DeparturesNotLost` and `HoldsAreReleased` are the safety
    halves of the liveness properties `EnterAnswered`, `LeaverIsSaved` and `HoldsEnd`:
    whatever is owed has, in every state, somebody who carries it out, and fairness
    only lets that somebody go on.
    * An entry that a connected client waits for is in its account's queue or parked,
      and parked with the timer that will refuse it. A timer finds its load by its
      token, so the proof needs `Tokens`: tokens are drawn in order, and the load
      parked under a timer's token is of the timer's session. With it the property
      is inductive: an entry at the head of its queue goes on behind it, is parked
      or is answered, and a release puts a parked load back into the queue.
    * A player that left a room is in the hands of a thread that pushes its departure,
      in a departure or an entry of a room's queue, in the room that is admitting it,
      or in a save of its account's queue. `DepartureInv` adds what a step may start
      from: a player in the game is in a room or on its way into one (so a disconnection
      that marks it finds a room to send the departure to), and a player whose save
      was counted has that save queued.
    * A held account has a thread between its hold and its release, a save or its
      end in the account's queue, or a player that has left or is about to, because
      its session was told to leave or went down (`ReleasersInv`).
      `OnDuplicateConnection` leaves its hold to the replaced player's departure, so
      the invariant carries that the player it looked at is the replaced
      session's (`ReplacedPlayer`). It holds with overlapping entries and stalled
      threads; with the window `drop` open, finding 2 breaks it.
* `JobQueue_proofs`. The count of a queue is exactly the jobs stored, taken and
  announced by a push; and while it is positive the responsibility for the queue
  (a token) is in exactly one place: a push that raised it from zero, an
  execution, or one entry of the global queue. `OneExecutor` and `WorkIsOwned`
  follow: `SingleExecutor`, `WorkAlwaysOwned`. `QueueIsALine` maps each step to
  a step of `SerialQueue` or a stutter: `Store` joins, `FinishJob` serves the
  head, and taking a batch or handing over leaves the line as it is.
* `SnowflakeIds_proofs`. Arithmetic of the fields first (`ComposeFacts`,
  `NextIdFacts`: the next id is of the same node and greater, for every clock
  reading). The invariant adds that a running process's last id has its node
  bits, only a running process has threads in `Next`, and only it holds ids.
  `IssuesAreNew` and `IssuesGrow` are action properties.

* `RoomContent_proofs`, for any grid, players, monsters and spawn points.
  `ClientsInSync` needs that outside the refresh a client shows exactly its
  recorded neighbours whatever the monsters do, that leaving clears both sides,
  and that neighbourhood is symmetric: an entity is hidden from exactly those it
  hides. `PopulationStays` counts with finite cardinalities. `AttacksCancelled`
  needs what the minds of returning monsters are (`Settled`), `TargetsPresent` is
  an action property of one monster's tick.
* `SocketSessions_proofs`. `NetInv` says of each connection how its fields agree
  (`SoundConn`: a registered send is in flight or being refused, a queue without a
  send is that of a lost connection), where each worker's target is, that two
  workers never run the departure of the same session, and what the first kick
  still waits for. `FarewellsOnce`, `NoSendStuck` and `KicksSendFirst` follow.
  `NoCycleOfLocks`: only a departure keeps a lock, that of its own session, which is
  down; a thread begins to wait for a session whose flag it read up, so nobody
  kept that lock then, and a departure that begins to keep a lock does not wait
  itself yet: no step closes a cycle.
* `ServerShutdown_proofs`. `SavedOnExit`: a departure ahead of the marker of round
  k has at most `Rounds - k` rooms to go, one behind it fewer (`Spent`); a hop
  costs a room and perhaps the place ahead of the marker, a new round costs a
  round. After the last, nothing has a room to go, and so nothing is pushed to a
  stopped DB queue. With `EndOfRound` done once instead of `Rounds` times TLC finds
  a lost player.
* `AuthTickets_proofs`. `PassesOnce`: a live key agrees with what was issued, and a
  ticket that passed has no live key; a reader may be ahead of a deletion, but only
  the deletion passes.
* `PlayerProgress_proofs`. `SavedLoads`: the bag, what is worn, the quick slots, the
  level of the experience and the HP stay loadable through every request. It assumes
  game data that meets `ProgressAssumption`: the rules the data tools enforce on
  the level table, and, as in the shipped tables but enforced by nothing, an HP of at
  least 2 that no level lowers. The game server itself checks neither when it loads the
  tables. That no uid is saved twice is part of `ItemsKept`, not of this. `ItemsKept`: the pieces of a template are a set
  of (place, number) pairs, so a stack is counted by cardinality, and each
  request adds one piece, removes one, or moves one or a whole stack by a bijection
  (`ItemsInv`). `CharacterKeepsItsSheet` maps each step to a step of `CharacterSheet` or
  a stutter. It rests on the same count and on the invariant behind `SavedLoads`: a
  load, which takes the level of the experience, finds the level that was saved.

Every invariant, action property and refinement of a passing run is stated by a
theorem. Only model-checked is liveness (`ReturnAnswered`, `HoldsEnd`,
`EnterAnswered`, `LeaverIsSaved`, `EveryJobRuns`, `StrayRecovers`,
`KickedConnectionEnds`), which rests on fairness, and so on `ENABLED`, which TLAPS
does not reach. What the liveness properties need of safety is proved for some:
`WorkAlwaysOwned` for `EveryJobRuns`, `NoSendStuck` for connections, and the three
above. `ReturnAnswered` has no such half with the windows open: a return in
finding 4 is owed an answer that nobody carries. Nothing is proved by induction over
data; the proofs count with finite cardinalities instead.

## 5. Where the code and its comments disagree

1. `overlapping_entry` (`ProgressCoordinator.cpp:71`): a login that replaces a
   session whose entry is in flight takes no hold; both entries may load.
2. `drop_during_load` (`GameEntry.cpp:147`): a session that drops during its
   load leaves a registered player that nothing ends; a replacement that comes
   in then holds the account for good.
3. `stalled_release` (`ProgressCoordinator.cpp:169`): a hold has no owner, so a
   delayed release takes away a newer session's hold.
4. `late_return` (`ProgressCoordinator.cpp:57`): a return that finds another
   load parked is left without an answer or a disconnection although the other
   load may belong to an older, dead session.
5. `lost_target` (`MonsterAIComponent.cpp:35`): the lost target is looked for only
   while its object exists. When the object is freed between two ticks the weak
   pointer is empty, and the monster stays in its chasing state where it stands
   instead of going home as the comment there and `IsTargetLost` say.

## 6. Plan

Done: the progress of an account across sessions, rooms and saves, with proofs of
its invariants, of the lease refinement and of the safety halves of its liveness;
job queues; ids; the content of a room; connections; shutdown; tickets; the
progress of a character, with the proof that it keeps its sheet. Left: the safety
half of `ReturnAnswered`, under the condition that no other load is parked when a
return arrives; the refinement with a repaired gate (a hold that names its owner)
in place of the closed `stall` window, once the code has one.

## 7. Not modelled, and why

Configuration, game data and their validation run once at boot. Movement
validation, navigation, hit areas and the damage formula are floating-point
geometry and arithmetic. SQL and Redis commands are external: a transaction is an
outcome. Receive buffering and the assembly of packets are sequential code of
one thread per session, with no state another part reads. The DB connection pool
holds a connection per DB thread. The client, tools, generated protocol code and
vendored libraries are peers or build inputs; they are nearly all of the
repository's lines. Deleting and creating characters touch rows no concurrent
operation of a session reads (only their ids appear, in `SnowflakeIds`).
Registering an account and listing worlds are single statements of SQL or Redis.
`JobTimer::Clear` runs after every thread ended. A save that fails is logged and
lost by design; the models count it as the end of a player's life, so no property
claims the data is in the database. An exception of the Redis client leaves the
session waiting for an answer until the client gives up; no comment promises
otherwise.
