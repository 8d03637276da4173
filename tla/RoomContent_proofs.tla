------------------------- MODULE RoomContent_proofs -------------------------
(***************************************************************************)
(* Proofs about RoomContent, for any players, monsters, spawn points and   *)
(* cell matrix: what clients were told, the population, stale attacks and  *)
(* the targets of monsters.                                                *)
(***************************************************************************)
EXTENDS RoomContent, FiniteSetTheorems, TLAPS

\* ClientsKnowNeighbours, entity by entity.
Knows ==
  \A p \in Players, e \in Entities : cell[p] # NoCell =>
    (e \in known[p] <=> e # p /\ cell[e] # NoCell /\ IsNeighbor(cell[e], cell[p]))

\* A monster is in the room with a spawn point, a recorded cell and a position, or it
\* is nothing.
Present ==
  \A m \in Monsters :
    /\ cell[m] = NoCell <=> point[m] = NoPoint
    /\ pos[m] = NoCell <=> point[m] = NoPoint
    /\ point[m] = NoPoint => mind[m].target = NoTarget

Refreshing ==
  phase = "refresh" => \A e \in todo : e \in Monsters /\ cell[e] # NoCell

\* The respawns that are due belong to the part of the tick that spawns.
NothingDue == phase # "respawn" => \A sp \in Points : due[sp] = 0

RoomInv ==
  /\ TypeOK /\ Present /\ Refreshing /\ NothingDue
  /\ NoStaleAttack /\ Knows /\ PopulationKept

(***************************************************************************)
(* Cells and notices                                                       *)
(***************************************************************************)

LEMMA NeighborFacts ==
  /\ \A a \in Cells : IsNeighbor(a, a)
  /\ \A a, b \in Cells : IsNeighbor(a, b) => IsNeighbor(b, a)
<1>1. \A a \in Cells, i \in 1 .. 2 : a[i] \in Int
  BY GridAssumption DEF Cells
<1> QED BY <1>1 DEF IsNeighbor

LEMMA KnowsNeighbours == TypeOK /\ Knows => ClientsKnowNeighbours
<1> SUFFICES ASSUME TypeOK, Knows, NEW p \in Players, cell[p] # NoCell
             PROVE  known[p] = FindNearbyEntities(p) \ {p}
  BY DEF ClientsKnowNeighbours, InRoom
<1>1. known[p] \subseteq Entities
  BY DEF TypeOK
<1>2. \A e : e \in FindNearbyEntities(p) <=>
               e \in Entities /\ cell[e] # NoCell /\ IsNeighbor(cell[e], cell[p])
  BY DEF FindNearbyEntities, QueryNeighbors, InRoom
<1> QED BY <1>1, <1>2 DEF Knows

LEMMA UpdateKnows ==
  ASSUME TypeOK, Knows, NEW e \in Entities, cell[e] # NoCell, NEW c \in Cells,
         UpdateVisibility(e, c)
  PROVE  /\ cell' \in [Entities -> Cells \cup {NoCell}]
         /\ known' \in [Players -> SUBSET Entities]
         /\ \A x \in Entities : cell'[x] = IF x = e THEN c ELSE cell[x]
         /\ Knows'
<1> DEFINE hidden == {o \in QueryNeighbors(cell[e]) \ {e} : ~ IsNeighbor(cell[o], c)}
           revealed == {o \in QueryNeighbors(c) \ {e} : ~ IsNeighbor(cell[o], cell[e])}
<1>1. /\ cell \in [Entities -> Cells \cup {NoCell}]
      /\ known \in [Players -> SUBSET Entities]
      /\ cell[e] \in Cells /\ NoCell \notin Cells /\ Players \subseteq Entities
  BY GridAssumption DEF TypeOK, Entities
<1>2. \A x \in Entities : cell'[x] = IF x = e THEN c ELSE cell[x]
  BY <1>1 DEF UpdateVisibility
<1>3. /\ \A o : o \in hidden <=> /\ o \in Entities /\ o # e /\ cell[o] # NoCell
                                 /\ IsNeighbor(cell[o], cell[e])
                                 /\ ~ IsNeighbor(cell[o], c)
      /\ \A o : o \in revealed <=> /\ o \in Entities /\ o # e /\ cell[o] # NoCell
                                   /\ IsNeighbor(cell[o], c)
                                   /\ ~ IsNeighbor(cell[o], cell[e])
  BY DEF QueryNeighbors, InRoom
<1>4. known' = [p \in Players |->
                  IF p = e THEN (known[p] \ hidden) \cup revealed
                  ELSE IF p \in revealed THEN known[p] \cup {e}
                  ELSE IF p \in hidden THEN known[p] \ {e} ELSE known[p]]
  <2>1. known' = [p \in Players |->
                    IF p = e THEN (known[p] \ hidden) \cup revealed
                    ELSE Told(e, revealed, hidden)[p]]
    BY DEF UpdateVisibility
  <2>2. revealed \ {e} = revealed /\ hidden \ {e} = hidden
    OBVIOUS
  <2> HIDE DEF hidden, revealed
  <2>3. \A p \in Players : Told(e, revealed, hidden)[p] =
          IF p \in revealed THEN known[p] \cup {e}
          ELSE IF p \in hidden THEN known[p] \ {e} ELSE known[p]
    BY <2>2 DEF Told
  <2> QED BY <2>1, <2>3
<1> HIDE DEF hidden, revealed
<1>5. cell' \in [Entities -> Cells \cup {NoCell}]
  BY <1>1 DEF UpdateVisibility
<1>6. known' \in [Players -> SUBSET Entities]
  BY <1>1, <1>3, <1>4
<1>7. Knows'
  <2> SUFFICES ASSUME NEW p \in Players, NEW x \in Entities, cell'[p] # NoCell
               PROVE  x \in known'[p] <=>
                        x # p /\ cell'[x] # NoCell /\ IsNeighbor(cell'[x], cell'[p])
    BY DEF Knows
  <2>1. cell[p] # NoCell /\ p \in Entities
    BY <1>1, <1>2
  <2>2. x \in known[p] <=> x # p /\ cell[x] # NoCell /\ IsNeighbor(cell[x], cell[p])
    BY <2>1 DEF Knows
  <2>3. CASE p = e
    <3>1. known'[p] = (known[p] \ hidden) \cup revealed
      BY <1>4, <2>3
    <3>2. cell'[p] = c /\ (x # p => cell'[x] = cell[x])
      BY <1>2, <2>1, <2>3
    <3> QED BY <1>3, <2>2, <2>3, <3>1, <3>2
  <2>4. CASE p # e /\ x # e
    <3>1. x \in known'[p] <=> x \in known[p]
      BY <1>4, <2>4
    <3> QED BY <1>2, <2>1, <2>2, <2>4, <3>1
  <2>5. CASE p # e /\ x = e
    <3>1. cell[p] \in Cells /\ cell'[p] = cell[p] /\ cell'[x] = c
      BY <1>1, <1>2, <2>1, <2>5
    <3>2. /\ IsNeighbor(cell[p], cell[e]) <=> IsNeighbor(cell[e], cell[p])
          /\ IsNeighbor(cell[p], c) <=> IsNeighbor(c, cell[p])
      BY <1>1, <3>1, NeighborFacts
    <3>3. x \in known'[p] <=> \/ p \in revealed
                              \/ p \notin hidden /\ x \in known[p]
      BY <1>4, <2>5
    <3> QED BY <1>1, <1>3, <2>1, <2>2, <2>5, <3>1, <3>2, <3>3
  <2> QED BY <2>3, <2>4, <2>5
<1> QED BY <1>2, <1>5, <1>6, <1>7

\* The despawn of p takes it from every client that showed it.
LEMMA ToldGone ==
  ASSUME TypeOK, Knows, NEW p \in Players, cell[p] # NoCell
  PROVE  /\ Told(p, {}, FindNearbyEntities(p)) \in [Players -> SUBSET Entities]
         /\ \A q \in Players \ {p} : cell[q] # NoCell =>
              Told(p, {}, FindNearbyEntities(p))[q] = known[q] \ {p}
<1> DEFINE hidden == FindNearbyEntities(p)
<1>1. /\ cell \in [Entities -> Cells \cup {NoCell}] /\ known \in [Players -> SUBSET Entities]
      /\ Players \subseteq Entities
  BY DEF TypeOK, Entities
<1>2. \A o : o \in hidden <=> o \in Entities /\ cell[o] # NoCell /\ IsNeighbor(cell[o], cell[p])
  BY DEF FindNearbyEntities, QueryNeighbors, InRoom
<1> HIDE DEF hidden
<1>3. \A q \in Players : Told(p, {}, hidden)[q] =
         IF q \in hidden \ {p} THEN known[q] \ {p} ELSE known[q]
  BY DEF Told
<1>4. Told(p, {}, hidden) \in [Players -> SUBSET Entities]
  BY <1>1 DEF Told
<1>5. ASSUME NEW q \in Players \ {p}, cell[q] # NoCell
      PROVE  Told(p, {}, hidden)[q] = known[q] \ {p}
  <2>1. CASE q \in hidden
    BY <1>3, <2>1
  <2>2. CASE q \notin hidden
    <3>1. cell[p] \in Cells /\ cell[q] \in Cells /\ q \in Entities /\ p \in Entities
      BY <1>1, <1>5
    <3>2. ~ IsNeighbor(cell[q], cell[p])
      BY <1>2, <1>5, <2>2, <3>1
    <3>3. p \notin known[q]
      BY <1>5, <3>1, <3>2, NeighborFacts DEF Knows
    <3> QED BY <1>3, <2>2, <3>3
  <2> QED BY <2>1, <2>2
<1> QED BY <1>4, <1>5 DEF hidden

\* An entry where nobody shows p any more.
LEMMA EnterKnows ==
  ASSUME TypeOK, NEW p \in Players, NEW c \in Cells,
         NEW before \in [Players -> SUBSET Entities], NEW others,
         \A q \in Players \ {p}, e \in Entities : cell[q] # NoCell =>
           (e \in before[q] <=>
              e # p /\ e # q /\ cell[e] # NoCell /\ IsNeighbor(cell[e], cell[q])),
         \A o : o \in others <=>
           o \in Entities /\ o # p /\ cell[o] # NoCell /\ IsNeighbor(cell[o], c),
         cell' = [cell EXCEPT ![p] = c],
         known' = AnnounceEnter(p, before, others)
  PROVE  /\ cell' \in [Entities -> Cells \cup {NoCell}]
         /\ known' \in [Players -> SUBSET Entities]
         /\ Knows'
<1>1. /\ cell \in [Entities -> Cells \cup {NoCell}] /\ NoCell \notin Cells
      /\ Players \subseteq Entities
  BY GridAssumption DEF TypeOK, Entities
<1>2. \A x \in Entities : cell'[x] = IF x = p THEN c ELSE cell[x]
  BY <1>1
<1>3. \A q \in Players : known'[q] = IF q = p THEN others \ {p}
                                   ELSE IF q \in others THEN before[q] \cup {p}
                                   ELSE before[q]
  BY DEF AnnounceEnter
<1>4. cell' \in [Entities -> Cells \cup {NoCell}]
  BY <1>1
<1>5. known' \in [Players -> SUBSET Entities]
  BY <1>1 DEF AnnounceEnter
<1>6. Knows'
  <2> SUFFICES ASSUME NEW q \in Players, NEW x \in Entities, cell'[q] # NoCell
               PROVE  x \in known'[q] <=>
                        x # q /\ cell'[x] # NoCell /\ IsNeighbor(cell'[x], cell'[q])
    BY DEF Knows
  <2>1. CASE q = p
    <3>1. cell'[q] = c /\ (x # p => cell'[x] = cell[x])
      BY <1>1, <1>2, <2>1
    <3>2. x \in known'[q] <=> x \in others /\ x # p
      BY <1>3, <2>1
    <3> QED BY <2>1, <3>1, <3>2
  <2>2. CASE q # p /\ x # p
    <3>1. cell'[q] = cell[q] /\ cell'[x] = cell[x]
      BY <1>1, <1>2, <2>2
    <3>2. x \in known'[q] <=> x \in before[q]
      BY <1>3, <2>2
    <3> QED BY <2>2, <3>1, <3>2
  <2>3. CASE q # p /\ x = p
    <3>1. cell'[q] = cell[q] /\ cell'[x] = c /\ cell[q] \in Cells /\ q \in Entities
      BY <1>1, <1>2, <2>3
    <3>2. IsNeighbor(cell[q], c) <=> IsNeighbor(c, cell[q])
      BY <3>1, NeighborFacts
    <3>3. x \in known'[q] <=> q \in others
      BY <1>3, <2>3, <3>1
    <3> QED BY <1>1, <2>3, <3>1, <3>2, <3>3
  <2> QED BY <2>1, <2>2, <2>3
<1> QED BY <1>4, <1>5, <1>6

\* A departure.
LEMMA LeaveKnows ==
  ASSUME TypeOK, Knows, NEW p \in Players, LeavePlayer(p)
  PROVE  /\ cell' \in [Entities -> Cells \cup {NoCell}]
         /\ known' \in [Players -> SUBSET Entities]
         /\ \A x \in Entities : cell'[x] = IF x = p THEN NoCell ELSE cell[x]
         /\ Knows'
<1> DEFINE told == Told(p, {}, FindNearbyEntities(p))
<1>1. /\ cell \in [Entities -> Cells \cup {NoCell}] /\ Players \subseteq Entities
      /\ cell[p] # NoCell /\ cell' = [cell EXCEPT ![p] = NoCell]
      /\ known' = [told EXCEPT ![p] = {}]
  BY DEF TypeOK, Entities, LeavePlayer
<1>2. /\ told \in [Players -> SUBSET Entities]
      /\ \A q \in Players \ {p} : cell[q] # NoCell => told[q] = known[q] \ {p}
  BY <1>1, ToldGone
<1> HIDE DEF told
<1>3. \A x \in Entities : cell'[x] = IF x = p THEN NoCell ELSE cell[x]
  BY <1>1
<1>4. cell' \in [Entities -> Cells \cup {NoCell}] /\ known' \in [Players -> SUBSET Entities]
  BY <1>1, <1>2
<1>5. Knows'
  <2> SUFFICES ASSUME NEW q \in Players, NEW x \in Entities, cell'[q] # NoCell
               PROVE  x \in known'[q] <=>
                        x # q /\ cell'[x] # NoCell /\ IsNeighbor(cell'[x], cell'[q])
    BY DEF Knows
  <2>1. q # p /\ cell'[q] = cell[q] /\ cell[q] # NoCell
    BY <1>1, <1>3
  <2>2. known'[q] = known[q] \ {p}
    BY <1>1, <1>2, <2>1
  <2>3. x \in known[q] <=> x # q /\ cell[x] # NoCell /\ IsNeighbor(cell[x], cell[q])
    BY <2>1 DEF Knows
  <2> QED BY <1>3, <2>1, <2>2, <2>3
<1> QED BY <1>3, <1>4, <1>5

(***************************************************************************)
(* The jobs of the room and the player objects                             *)
(***************************************************************************)

\* What a job about player p has to show.
LEMMA JobStep ==
  ASSUME RoomInv, phase = "jobs", NEW p \in Players,
         cell' \in [Entities -> Cells \cup {NoCell}],
         known' \in [Players -> SUBSET Entities],
         Knows',
         \A x \in Entities \ {p} : cell'[x] = cell[x],
         swing' \in [Players -> Cells \cup {NoCell}],
         \A q \in Players : cell'[q] = NoCell => swing'[q] = NoCell,
         dead' \subseteq Players,
         UNCHANGED <<tickVars, objects, spawnVars, pos, mind>>
  PROVE  RoomInv'
<1>1. TypeOK /\ Present /\ NothingDue /\ NoStaleAttack /\ PopulationKept
  BY DEF RoomInv
<1>2. UNCHANGED <<phase, todo, objects, point, pending, due, pos, mind>>
  BY DEF tickVars, spawnVars
<1>3. TypeOK'
  BY <1>1, <1>2 DEF TypeOK
<1>4. Present'
  <2>1. \A m \in Monsters : cell'[m] = cell[m]
    BY EntityAssumption DEF Entities
  <2> QED BY <1>1, <1>2, <2>1 DEF Present
<1>5. Refreshing' /\ NothingDue'
  BY <1>1, <1>2 DEF Refreshing, NothingDue
<1>6. NoStaleAttack'
  BY <1>1, <1>2 DEF NoStaleAttack
<1>7. PopulationKept'
  BY <1>1, <1>2 DEF PopulationKept, AtPoint
<1> QED BY <1>3, <1>4, <1>5, <1>6, <1>7 DEF RoomInv

LEMMA EnterStep ==
  ASSUME RoomInv, NEW p \in Players, NEW c \in Cells, EnterPlayer(p, c)
  PROVE  RoomInv'
<1>1. TypeOK /\ NoStaleAttack /\ Knows /\ Players \subseteq Entities /\ NoCell \notin Cells
  BY GridAssumption DEF RoomInv, Entities
<1>2. /\ phase = "jobs" /\ cell[p] = NoCell /\ cell' = [cell EXCEPT ![p] = c]
      /\ known' = AnnounceEnter(p, known, QueryNeighbors(c))
      /\ UNCHANGED <<swing, dead>> /\ UNCHANGED <<tickVars, objects, spawnVars, pos, mind>>
  BY DEF EnterPlayer, lifeVars
<1>3. \A q \in Players \ {p}, e \in Entities : cell[q] # NoCell =>
        (e \in known[q] <=>
           e # p /\ e # q /\ cell[e] # NoCell /\ IsNeighbor(cell[e], cell[q]))
  BY <1>1, <1>2 DEF Knows
<1>4. \A o : o \in QueryNeighbors(c) <=>
        o \in Entities /\ o # p /\ cell[o] # NoCell /\ IsNeighbor(cell[o], c)
  BY <1>2 DEF QueryNeighbors, InRoom
<1>5. known \in [Players -> SUBSET Entities]
  BY <1>1 DEF TypeOK
<1>6. /\ cell' \in [Entities -> Cells \cup {NoCell}]
      /\ known' \in [Players -> SUBSET Entities]
      /\ Knows'
  BY <1>1, <1>2, <1>3, <1>4, <1>5, EnterKnows
<1>7. \A x \in Entities \ {p} : cell'[x] = cell[x]
  BY <1>1, <1>2 DEF TypeOK
<1>8. \A q \in Players : cell'[q] = NoCell => swing'[q] = NoCell
  BY <1>1, <1>2 DEF NoStaleAttack, TypeOK
<1>9. swing' \in [Players -> Cells \cup {NoCell}] /\ dead' \subseteq Players
  BY <1>1, <1>2 DEF TypeOK
<1>10. phase = "jobs" /\ UNCHANGED <<tickVars, objects, spawnVars, pos, mind>>
  BY <1>2
<1> QED BY <1>6, <1>7, <1>8, <1>9, <1>10, JobStep

LEMMA DepartStep ==
  ASSUME RoomInv, NEW p \in Players, NEW revived \in BOOLEAN, Depart(p, revived)
  PROVE  RoomInv'
<1>1. TypeOK /\ NoStaleAttack /\ Knows /\ Players \subseteq Entities
  BY DEF RoomInv, Entities
<1>2. /\ LeavePlayer(p) /\ phase = "jobs"
      /\ UNCHANGED <<tickVars, objects, spawnVars, pos, mind>>
      /\ dead' \subseteq dead
  BY DEF Depart
<1>3. /\ cell' \in [Entities -> Cells \cup {NoCell}]
      /\ known' \in [Players -> SUBSET Entities]
      /\ \A x \in Entities : cell'[x] = IF x = p THEN NoCell ELSE cell[x]
      /\ Knows'
  BY <1>1, <1>2, LeaveKnows
<1>4. swing' = [swing EXCEPT ![p] = NoCell]
  BY <1>2 DEF LeavePlayer
<1>5. swing' \in [Players -> Cells \cup {NoCell}] /\ dead' \subseteq Players
  BY <1>1, <1>2, <1>4 DEF TypeOK
<1>6. \A q \in Players : cell'[q] = NoCell => swing'[q] = NoCell
  BY <1>1, <1>3, <1>4 DEF NoStaleAttack, TypeOK
<1>7. \A x \in Entities \ {p} : cell'[x] = cell[x]
  BY <1>3
<1> QED BY <1>2, <1>3, <1>5, <1>6, <1>7, JobStep

LEMMA TeleportStep ==
  ASSUME RoomInv, NEW p \in Players, NEW c \in Cells, NEW revived \in BOOLEAN,
         TeleportPlayer(p, c, revived)
  PROVE  RoomInv'
<1> DEFINE before == Told(p, {}, FindNearbyEntities(p))
           others == QueryNeighbors(c) \ {p}
<1>1. TypeOK /\ NoStaleAttack /\ Knows /\ Players \subseteq Entities /\ NoCell \notin Cells
  BY GridAssumption DEF RoomInv, Entities
<1>2. /\ phase = "jobs" /\ cell[p] # NoCell /\ cell' = [cell EXCEPT ![p] = c]
      /\ known' = AnnounceEnter(p, before, others)
      /\ UNCHANGED swing /\ dead' \subseteq dead
      /\ UNCHANGED <<tickVars, objects, spawnVars, pos, mind>>
  BY DEF TeleportPlayer
<1>3. /\ before \in [Players -> SUBSET Entities]
      /\ \A q \in Players \ {p} : cell[q] # NoCell => before[q] = known[q] \ {p}
  BY <1>1, <1>2, ToldGone
<1>4. \A o : o \in others <=>
        o \in Entities /\ o # p /\ cell[o] # NoCell /\ IsNeighbor(cell[o], c)
  BY DEF QueryNeighbors, InRoom
<1> HIDE DEF before, others
<1>5. \A q \in Players \ {p}, e \in Entities : cell[q] # NoCell =>
        (e \in before[q] <=>
           e # p /\ e # q /\ cell[e] # NoCell /\ IsNeighbor(cell[e], cell[q]))
  BY <1>1, <1>3 DEF Knows
<1>6. /\ cell' \in [Entities -> Cells \cup {NoCell}]
      /\ known' \in [Players -> SUBSET Entities]
      /\ Knows'
  BY <1>1, <1>2, <1>3, <1>4, <1>5, EnterKnows
<1>7. \A x \in Entities \ {p} : cell'[x] = cell[x]
  BY <1>1, <1>2 DEF TypeOK
<1>8. \A q \in Players : cell'[q] = NoCell => swing'[q] = NoCell
  BY <1>1, <1>2 DEF NoStaleAttack, TypeOK
<1>9. swing' \in [Players -> Cells \cup {NoCell}] /\ dead' \subseteq Players
  BY <1>1, <1>2 DEF TypeOK
<1>10. phase = "jobs" /\ UNCHANGED <<tickVars, objects, spawnVars, pos, mind>>
  BY <1>2
<1> QED BY <1>6, <1>7, <1>8, <1>9, <1>10, JobStep

LEMMA MoveStep ==
  ASSUME RoomInv, NEW p \in Players, NEW c \in Cells,
         C_HandleMove(p, c) \/ C_HandleAction(p, c)
  PROVE  RoomInv'
<1>1. TypeOK /\ NoStaleAttack /\ Knows /\ Players \subseteq Entities /\ NoCell \notin Cells
  BY GridAssumption DEF RoomInv, Entities
<1>2. /\ phase = "jobs" /\ cell[p] # NoCell /\ UpdateVisibility(p, c)
      /\ UNCHANGED dead /\ UNCHANGED <<tickVars, objects, spawnVars, pos, mind>>
      /\ UNCHANGED swing \/ swing' = [swing EXCEPT ![p] = c]
  BY DEF C_HandleMove, C_HandleAction, lifeVars
<1>3. /\ cell' \in [Entities -> Cells \cup {NoCell}]
      /\ known' \in [Players -> SUBSET Entities]
      /\ \A x \in Entities : cell'[x] = IF x = p THEN c ELSE cell[x]
      /\ Knows'
  BY <1>1, <1>2, UpdateKnows
<1>4. \A q \in Players : cell'[q] = NoCell => swing'[q] = NoCell
  BY <1>1, <1>2, <1>3 DEF NoStaleAttack, TypeOK
<1>5. swing' \in [Players -> Cells \cup {NoCell}] /\ dead' \subseteq Players
  BY <1>1, <1>2 DEF TypeOK
<1>6. \A x \in Entities \ {p} : cell'[x] = cell[x]
  BY <1>3
<1> QED BY <1>2, <1>3, <1>4, <1>5, <1>6, JobStep

LEMMA ObjectStep ==
  ASSUME RoomInv, NEW p \in Players, ObjectMade(p) \/ ObjectFreed(p)
  PROVE  RoomInv'
<1>1. /\ TypeOK /\ Present /\ Refreshing /\ NothingDue
      /\ NoStaleAttack /\ Knows /\ PopulationKept
  BY DEF RoomInv
<1>2. /\ UNCHANGED <<phase, todo, swing, cell, known, point, pending, due, pos>>
      /\ objects' \subseteq Players /\ dead' \subseteq Players
  BY <1>1 DEF ObjectMade, ObjectFreed, tickVars, viewVars, spawnVars, TypeOK
<1>3. /\ mind' \in [Monsters -> Mind]
      /\ \A m \in Monsters : /\ mind'[m].target \in {mind[m].target, NoTarget}
                             /\ mind'[m].state = mind[m].state
                             /\ mind'[m].swing = mind[m].swing
  <2>1. CASE ObjectMade(p)
    BY <1>1, <2>1 DEF ObjectMade, TypeOK
  <2>2. CASE ObjectFreed(p)
    <3>1. \A m \in Monsters : mind[m] \in Mind
      BY <1>1 DEF TypeOK
    <3>2. mind' = [m \in Monsters |-> IF mind[m].target = p
                                      THEN [mind[m] EXCEPT !.target = NoTarget] ELSE mind[m]]
      BY <2>2 DEF ObjectFreed
    <3>3. ASSUME NEW m \in Monsters
          PROVE  /\ mind'[m] \in Mind
                 /\ mind'[m].target \in {mind[m].target, NoTarget}
                 /\ mind'[m].state = mind[m].state
                 /\ mind'[m].swing = mind[m].swing
      BY <3>1, <3>2, <3>3 DEF Mind
    <3> QED BY <3>2, <3>3
  <2> QED BY <2>1, <2>2
<1>4. TypeOK'
  BY <1>1, <1>2, <1>3 DEF TypeOK
<1>5. Present'
  BY <1>1, <1>2, <1>3 DEF Present
<1>6. Refreshing' /\ NothingDue'
  BY <1>1, <1>2 DEF Refreshing, NothingDue
<1>7. NoStaleAttack'
  BY <1>1, <1>2, <1>3 DEF NoStaleAttack
<1>8. Knows' /\ PopulationKept'
  BY <1>1, <1>2 DEF Knows, PopulationKept, AtPoint
<1> QED BY <1>4, <1>5, <1>6, <1>7, <1>8 DEF RoomInv

(***************************************************************************)
(* The tick up to the entities                                             *)
(***************************************************************************)

LEMMA PointIsFinite ==
  ASSUME NEW sp
  PROVE  IsFiniteSet(AtPoint(sp)) /\ Cardinality(AtPoint(sp)) \in Nat
<1>1. AtPoint(sp) \subseteq Monsters
  BY DEF AtPoint
<1>2. IsFiniteSet(AtPoint(sp))
  BY <1>1, EntityAssumption, FS_Subset
<1> QED BY <1>2, FS_CardinalityType

\* Steps of the tick that only go from one part to the next.
LEMMA PhaseStep ==
  ASSUME RoomInv, StartTick \/ TickEntities \/ EndTick \/ \E m \in Monsters : SkipRemoved(m)
  PROVE  RoomInv'
<1>1. /\ TypeOK /\ Present /\ Refreshing /\ NothingDue
      /\ NoStaleAttack /\ Knows /\ PopulationKept
  BY DEF RoomInv
<1>2. UNCHANGED <<objects, dead, swing, cell, known, point, pending, due, pos, mind>>
  BY DEF StartTick, TickEntities, EndTick, SkipRemoved, lifeVars, viewVars, spawnVars
<1>3. /\ phase' \in {"jobs", "refresh", "entities"}
      /\ todo' \subseteq Entities
      /\ phase' = "refresh" => todo' = Monsters \cap InRoom
  <2>1. CASE StartTick
    BY <2>1 DEF StartTick, InRoom, Entities
  <2>2. CASE TickEntities
    BY <2>2 DEF TickEntities, InRoom
  <2>3. CASE EndTick
    BY <1>1, <2>3 DEF EndTick, TypeOK
  <2>4. CASE \E m \in Monsters : SkipRemoved(m)
    BY <1>1, <2>4 DEF SkipRemoved, TypeOK
  <2> QED BY <2>1, <2>2, <2>3, <2>4
<1>4. TypeOK'
  BY <1>1, <1>2, <1>3 DEF TypeOK
<1>5. Refreshing' /\ NothingDue'
  BY <1>1, <1>2, <1>3 DEF Refreshing, InRoom, NothingDue, StartTick, TickEntities, EndTick,
                          SkipRemoved
<1>6. Present' /\ NoStaleAttack' /\ Knows' /\ PopulationKept'
  BY <1>1, <1>2 DEF Present, NoStaleAttack, Knows, PopulationKept, AtPoint
<1> QED BY <1>4, <1>5, <1>6 DEF RoomInv

LEMMA RefreshStep ==
  ASSUME RoomInv, NEW m \in Monsters, RefreshVisibility(m)
  PROVE  RoomInv'
<1>1. /\ TypeOK /\ Present /\ Refreshing /\ NothingDue
      /\ NoStaleAttack /\ Knows /\ PopulationKept
      /\ m \in Entities /\ NoCell \notin Cells /\ Players \cap Monsters = {}
  BY GridAssumption, EntityAssumption DEF RoomInv, Entities
<1>2. /\ phase = "refresh" /\ m \in todo /\ UpdateVisibility(m, pos[m])
      /\ todo' = todo \ {m}
      /\ UNCHANGED <<phase, objects, dead, swing, point, pending, due, pos, mind>>
  BY DEF RefreshVisibility, lifeVars, spawnVars
<1>3. cell[m] # NoCell /\ pos[m] \in Cells
  BY <1>1, <1>2 DEF Refreshing, Present, TypeOK
<1>4. /\ cell' \in [Entities -> Cells \cup {NoCell}]
      /\ known' \in [Players -> SUBSET Entities]
      /\ \A x \in Entities : cell'[x] = IF x = m THEN pos[m] ELSE cell[x]
      /\ Knows'
  BY <1>1, <1>2, <1>3, UpdateKnows
<1>5. TypeOK'
  BY <1>1, <1>2, <1>4 DEF TypeOK
<1>6. Present'
  <2>1. \A n \in Monsters : cell'[n] = NoCell <=> cell[n] = NoCell
    BY <1>1, <1>3, <1>4 DEF Entities
  <2> QED BY <1>1, <1>2, <2>1 DEF Present
<1>7. Refreshing' /\ NothingDue'
  BY <1>1, <1>2, <1>3, <1>4 DEF Refreshing, NothingDue, TypeOK
<1>8. NoStaleAttack'
  BY <1>1, <1>2, <1>4 DEF NoStaleAttack, Entities
<1>9. PopulationKept'
  BY <1>1, <1>2 DEF PopulationKept, AtPoint
<1> QED BY <1>4, <1>5, <1>6, <1>7, <1>8, <1>9 DEF RoomInv

LEMMA SpawnerStep ==
  ASSUME RoomInv, NEW ready \in [Points -> 0 .. Cardinality(Monsters)], SpawnerTick(ready)
  PROVE  RoomInv'
<1>1. TypeOK /\ Present /\ NothingDue /\ NoStaleAttack /\ Knows /\ PopulationKept
  BY DEF RoomInv
<1>2. /\ phase' = "respawn"
      /\ due' = ready /\ pending' = [sp \in Points |-> pending[sp] - ready[sp]]
      /\ \A sp \in Points : ready[sp] <= pending[sp]
      /\ phase = "refresh" /\ todo = {}
      /\ UNCHANGED <<todo, objects, dead, swing, cell, known, point, pos, mind>>
  BY DEF SpawnerTick, lifeVars, viewVars
<1>3. Cardinality(Monsters) \in Nat
  BY EntityAssumption, FS_CardinalityType
<1>4. due' \in [Points -> Nat] /\ pending' \in [Points -> Nat]
  BY <1>1, <1>2, <1>3 DEF TypeOK
<1>5. TypeOK'
  BY <1>1, <1>2, <1>4 DEF TypeOK
<1>6. Present' /\ Refreshing' /\ NothingDue' /\ NoStaleAttack' /\ Knows'
  BY <1>1, <1>2 DEF Present, Refreshing, NothingDue, NoStaleAttack, Knows
<1>7. PopulationKept'
  <2> SUFFICES ASSUME NEW sp \in Points
               PROVE  Cardinality(AtPoint(sp)') + pending'[sp] + due'[sp] = MaxCount[sp]
    BY DEF PopulationKept
  <2>1. AtPoint(sp)' = AtPoint(sp)
    BY <1>2 DEF AtPoint
  <2>2. Cardinality(AtPoint(sp)) + pending[sp] + due[sp] = MaxCount[sp]
    BY <1>1 DEF PopulationKept
  <2>3. due[sp] = 0
    BY <1>1, <1>2 DEF NothingDue
  <2>4. pending'[sp] + due'[sp] = pending[sp]
    BY <1>1, <1>2, <1>3 DEF TypeOK
  <2>5. pending[sp] \in Nat /\ pending'[sp] \in Nat /\ due'[sp] \in Nat /\ MaxCount[sp] \in Nat
    BY <1>1, <1>4, EntityAssumption DEF TypeOK
  <2> QED BY <2>1, <2>2, <2>3, <2>4, <2>5, PointIsFinite
<1> QED BY <1>5, <1>6, <1>7 DEF RoomInv

LEMMA SpawnStep ==
  ASSUME RoomInv, NEW sp \in Points, NEW m \in Monsters, NEW c \in Cells,
         SpawnMonster(sp, m, c)
  PROVE  RoomInv'
<1>1. /\ TypeOK /\ Present /\ Refreshing /\ NothingDue
      /\ NoStaleAttack /\ Knows /\ PopulationKept
      /\ m \in Entities /\ NoCell \notin Cells /\ NoPoint \notin Points
      /\ Players \subseteq Entities /\ Monsters \subseteq Entities
      /\ Players \cap Monsters = {}
  BY GridAssumption, EntityAssumption DEF RoomInv, Entities
<1>2. /\ phase = "respawn" /\ due[sp] > 0 /\ point[m] = NoPoint
      /\ due' = [due EXCEPT ![sp] = @ - 1] /\ point' = [point EXCEPT ![m] = sp]
      /\ cell' = [cell EXCEPT ![m] = c] /\ pos' = [pos EXCEPT ![m] = c]
      /\ mind' = [mind EXCEPT ![m] = NewMind]
      /\ known' = Told(m, QueryNeighbors(c), {})
      /\ UNCHANGED <<phase, todo, objects, dead, swing, pending>>
  BY DEF SpawnMonster, tickVars, lifeVars
<1>3. cell[m] = NoCell /\ \A x \in Entities : cell'[x] = IF x = m THEN c ELSE cell[x]
  BY <1>1, <1>2 DEF Present, TypeOK
<1>4. \A q \in Players : known'[q] =
         IF q \in QueryNeighbors(c) THEN known[q] \cup {m} ELSE known[q]
  <2>1. m \notin QueryNeighbors(c)
    BY <1>3 DEF QueryNeighbors, InRoom
  <2>2. m \notin Players
    BY <1>1
  <2> QED BY <1>2, <2>1, <2>2 DEF Told
<1>5. NewMind \in Mind /\ NewMind.state = "Idle" /\ NewMind.target = NoTarget
  BY DEF NewMind, Mind, States
<1>6. TypeOK'
  <2>1. known' \in [Players -> SUBSET Entities]
    BY <1>1, <1>2 DEF Told, TypeOK
  <2>2. due[sp] \in Nat /\ due[sp] - 1 \in Nat
    BY <1>1, <1>2 DEF TypeOK
  <2>3. /\ due' \in [Points -> Nat] /\ point' \in [Monsters -> Points \cup {NoPoint}]
        /\ cell' \in [Entities -> Cells \cup {NoCell}]
        /\ pos' \in [Monsters -> Cells \cup {NoCell}]
        /\ mind' \in [Monsters -> Mind]
    BY <1>1, <1>2, <1>5, <2>2 DEF TypeOK
  <2> QED BY <1>1, <1>2, <2>1, <2>3 DEF TypeOK
<1>7. Present'
  <2>1. \A n \in Monsters : /\ point'[n] = IF n = m THEN sp ELSE point[n]
                            /\ pos'[n] = IF n = m THEN c ELSE pos[n]
                            /\ mind'[n] = IF n = m THEN NewMind ELSE mind[n]
                            /\ cell'[n] = IF n = m THEN c ELSE cell[n]
    BY <1>1, <1>2, <1>3 DEF TypeOK
  <2> QED BY <1>1, <2>1 DEF Present
<1>8. Refreshing' /\ NothingDue'
  BY <1>2 DEF Refreshing, NothingDue
<1>9. NoStaleAttack'
  BY <1>1, <1>2, <1>3, <1>5 DEF NoStaleAttack, TypeOK
<1>10. Knows'
  <2> SUFFICES ASSUME NEW q \in Players, NEW x \in Entities, cell'[q] # NoCell
               PROVE  x \in known'[q] <=>
                        x # q /\ cell'[x] # NoCell /\ IsNeighbor(cell'[x], cell'[q])
    BY DEF Knows
  <2>1. q # m /\ q \in Entities /\ cell'[q] = cell[q] /\ cell[q] \in Cells
    BY <1>1, <1>3 DEF TypeOK
  <2>2. x \in known[q] <=> x # q /\ cell[x] # NoCell /\ IsNeighbor(cell[x], cell[q])
    BY <1>1, <2>1 DEF Knows
  <2>3. q \in QueryNeighbors(c) <=> IsNeighbor(cell[q], c)
    BY <1>1, <2>1 DEF QueryNeighbors, InRoom
  <2>4. IsNeighbor(cell[q], c) <=> IsNeighbor(c, cell[q])
    BY <2>1, NeighborFacts
  <2>5. CASE x = m
    <3>1. x \in known'[q] <=> q \in QueryNeighbors(c)
      BY <1>3, <1>4, <2>2, <2>5
    <3>2. cell'[x] = c /\ c # NoCell
      BY <1>1, <1>3, <2>5
    <3> QED BY <2>1, <2>3, <2>4, <2>5, <3>1, <3>2
  <2>6. CASE x # m
    <3>1. x \in known'[q] <=> x \in known[q]
      BY <1>4, <2>6
    <3> QED BY <1>3, <2>1, <2>2, <2>6, <3>1
  <2> QED BY <2>5, <2>6
<1>11. PopulationKept'
  <2> SUFFICES ASSUME NEW q \in Points
               PROVE  Cardinality(AtPoint(q)') + pending'[q] + due'[q] = MaxCount[q]
    BY DEF PopulationKept
  <2>1. /\ Cardinality(AtPoint(q)) + pending[q] + due[q] = MaxCount[q]
        /\ pending[q] \in Nat /\ due[q] \in Nat /\ Cardinality(AtPoint(q)) \in Nat
        /\ IsFiniteSet(AtPoint(q))
    BY <1>1, PointIsFinite DEF PopulationKept, TypeOK
  <2>2. CASE q = sp
    <3>1. AtPoint(q)' = AtPoint(q) \cup {m} /\ m \notin AtPoint(q)
      BY <1>1, <1>2, <2>2 DEF AtPoint, TypeOK
    <3>2. Cardinality(AtPoint(q)') = Cardinality(AtPoint(q)) + 1
      BY <2>1, <3>1, FS_AddElement
    <3>3. due'[q] = due[q] - 1 /\ pending'[q] = pending[q]
      BY <1>1, <1>2, <2>2 DEF TypeOK
    <3> QED BY <2>1, <3>2, <3>3
  <2>3. CASE q # sp
    <3>1. AtPoint(q)' = AtPoint(q)
      BY <1>1, <1>2, <2>3 DEF AtPoint, TypeOK
    <3>2. due'[q] = due[q] /\ pending'[q] = pending[q]
      BY <1>1, <1>2, <2>3 DEF TypeOK
    <3> QED BY <2>1, <3>1, <3>2
  <2> QED BY <2>2, <2>3
<1> QED BY <1>6, <1>7, <1>8, <1>9, <1>10, <1>11 DEF RoomInv

LEMMA SpawnFailsStep ==
  ASSUME RoomInv, NEW sp \in Points, SpawnFails(sp)
  PROVE  RoomInv'
<1>1. /\ TypeOK /\ Present /\ Refreshing /\ NothingDue
      /\ NoStaleAttack /\ Knows /\ PopulationKept
  BY DEF RoomInv
<1>2. /\ phase = "respawn" /\ due[sp] > 0
      /\ due' = [due EXCEPT ![sp] = @ - 1] /\ pending' = [pending EXCEPT ![sp] = @ + 1]
      /\ UNCHANGED <<phase, todo, objects, dead, swing, cell, known, point, pos, mind>>
  BY DEF SpawnFails, tickVars, lifeVars, viewVars
<1>3. due' \in [Points -> Nat] /\ pending' \in [Points -> Nat]
  <2>1. due[sp] - 1 \in Nat /\ pending[sp] + 1 \in Nat
    BY <1>1, <1>2 DEF TypeOK
  <2> QED BY <1>1, <1>2, <2>1 DEF TypeOK
<1>4. TypeOK'
  BY <1>1, <1>2, <1>3 DEF TypeOK
<1>5. Present' /\ Refreshing' /\ NothingDue' /\ NoStaleAttack' /\ Knows'
  BY <1>1, <1>2 DEF Present, Refreshing, NothingDue, NoStaleAttack, Knows
<1>6. PopulationKept'
  <2> SUFFICES ASSUME NEW q \in Points
               PROVE  Cardinality(AtPoint(q)') + pending'[q] + due'[q] = MaxCount[q]
    BY DEF PopulationKept
  <2>1. AtPoint(q)' = AtPoint(q)
    BY <1>2 DEF AtPoint
  <2>2. /\ Cardinality(AtPoint(q)) + pending[q] + due[q] = MaxCount[q]
        /\ pending[q] \in Nat /\ due[q] \in Nat /\ Cardinality(AtPoint(q)) \in Nat
    BY <1>1, PointIsFinite DEF PopulationKept, TypeOK
  <2>3. pending'[q] + due'[q] = pending[q] + due[q]
    BY <1>1, <1>2, <2>2 DEF TypeOK
  <2>4. pending'[q] \in Nat /\ due'[q] \in Nat
    BY <1>3
  <2> QED BY <2>1, <2>2, <2>3, <2>4
<1> QED BY <1>4, <1>5, <1>6 DEF RoomInv

(***************************************************************************)
(* The tick of a player: the monsters it kills                             *)
(***************************************************************************)

LEMMA PlayerTickStep ==
  ASSUME RoomInv, NEW p \in Players, NEW killed \in SUBSET MonstersHit(p),
         NEW over \in BOOLEAN, TickPlayer(p, killed, over)
  PROVE  RoomInv'
<1>1. /\ TypeOK /\ Present /\ Refreshing /\ NothingDue
      /\ NoStaleAttack /\ Knows /\ PopulationKept
      /\ NoCell \notin Cells /\ NoPoint \notin Points
      /\ Players \subseteq Entities /\ Monsters \subseteq Entities
      /\ Players \cap Monsters = {}
  BY GridAssumption, EntityAssumption DEF RoomInv, Entities
<1>2. killed \subseteq Monsters /\ \A m \in killed : cell[m] # NoCell
  BY DEF MonstersHit, InRoom
<1>3. /\ phase = "entities" /\ todo' = todo \ {p}
      /\ swing' = [swing EXCEPT ![p] = IF over THEN NoCell ELSE swing[p]]
      /\ pending' = [sp \in Points |-> pending[sp] + Cardinality(killed \cap AtPoint(sp))]
      /\ point' = [m \in Monsters |-> IF m \in killed THEN NoPoint ELSE point[m]]
      /\ cell' = [e \in Entities |-> IF e \in killed THEN NoCell ELSE cell[e]]
      /\ pos' = [m \in Monsters |-> IF m \in killed THEN NoCell ELSE pos[m]]
      /\ mind' = [m \in Monsters |-> IF m \in killed THEN NewMind ELSE mind[m]]
      /\ known' = [q \in Players |->
                     known[q] \ {m \in killed : q \in FindNearbyEntities(m)}]
      /\ UNCHANGED <<phase, objects, dead, due>>
  BY <1>1 DEF TickPlayer, lifeVars, TypeOK
<1>4. \A sp \in Points : /\ IsFiniteSet(killed \cap AtPoint(sp))
                         /\ Cardinality(killed \cap AtPoint(sp)) \in Nat
  <2> TAKE sp \in Points
  <2>1. killed \cap AtPoint(sp) \subseteq AtPoint(sp)
    OBVIOUS
  <2>2. IsFiniteSet(killed \cap AtPoint(sp))
    BY <2>1, PointIsFinite, FS_Subset
  <2> QED BY <2>2, FS_CardinalityType
<1>5. NewMind \in Mind /\ NewMind.state = "Idle" /\ NewMind.target = NoTarget
  BY DEF NewMind, Mind, States
<1>6. TypeOK'
  <2>1. pending' \in [Points -> Nat]
    <3>1. ASSUME NEW sp \in Points
          PROVE  pending[sp] + Cardinality(killed \cap AtPoint(sp)) \in Nat
      <4>1. pending[sp] \in Nat /\ Cardinality(killed \cap AtPoint(sp)) \in Nat
        BY <1>1, <1>4 DEF TypeOK
      <4> QED BY <4>1
    <3> QED BY <1>3, <3>1
  <2>2. /\ point' \in [Monsters -> Points \cup {NoPoint}]
        /\ cell' \in [Entities -> Cells \cup {NoCell}]
        /\ pos' \in [Monsters -> Cells \cup {NoCell}]
    BY <1>1, <1>3 DEF TypeOK
  <2>3. mind' \in [Monsters -> Mind] /\ known' \in [Players -> SUBSET Entities]
    BY <1>1, <1>3, <1>5 DEF TypeOK
  <2>4. swing' \in [Players -> Cells \cup {NoCell}] /\ todo' \subseteq Entities
    BY <1>1, <1>3 DEF TypeOK
  <2> QED BY <1>1, <1>3, <2>1, <2>2, <2>3, <2>4 DEF TypeOK
<1>7. Present'
  BY <1>1, <1>3, <1>5 DEF Present
<1>8. Refreshing' /\ NothingDue'
  BY <1>1, <1>3 DEF Refreshing, NothingDue
<1>9. NoStaleAttack'
  BY <1>1, <1>2, <1>3, <1>5 DEF NoStaleAttack, TypeOK
<1>10. Knows'
  <2> SUFFICES ASSUME NEW q \in Players, NEW x \in Entities, cell'[q] # NoCell
               PROVE  x \in known'[q] <=>
                        x # q /\ cell'[x] # NoCell /\ IsNeighbor(cell'[x], cell'[q])
    BY DEF Knows
  <2>1. /\ q \notin killed /\ q \in Entities /\ cell'[q] = cell[q]
        /\ cell[q] \in Cells /\ cell[q] # NoCell
    BY <1>1, <1>2, <1>3 DEF TypeOK
  <2>2. x \in known[q] <=> x # q /\ cell[x] # NoCell /\ IsNeighbor(cell[x], cell[q])
    BY <1>1, <2>1 DEF Knows
  <2>3. CASE x \in killed
    <3>1. cell'[x] = NoCell /\ cell[x] \in Cells
      BY <1>1, <1>2, <1>3, <2>3 DEF TypeOK
    <3>2. q \in FindNearbyEntities(x) <=> IsNeighbor(cell[q], cell[x])
      BY <2>1 DEF FindNearbyEntities, QueryNeighbors, InRoom
    <3>3. IsNeighbor(cell[q], cell[x]) <=> IsNeighbor(cell[x], cell[q])
      BY <2>1, <3>1, NeighborFacts
    <3>4. x \notin known'[q]
      BY <1>3, <2>2, <2>3, <3>2, <3>3
    <3> QED BY <3>1, <3>4
  <2>4. CASE x \notin killed
    <3>1. cell'[x] = cell[x] /\ (x \in known'[q] <=> x \in known[q])
      BY <1>3, <2>4
    <3> QED BY <2>1, <2>2, <3>1
  <2> QED BY <2>3, <2>4
<1>11. PopulationKept'
  <2> SUFFICES ASSUME NEW sp \in Points
               PROVE  Cardinality(AtPoint(sp)') + pending'[sp] + due'[sp] = MaxCount[sp]
    BY DEF PopulationKept
  <2>1. /\ Cardinality(AtPoint(sp)) + pending[sp] + due[sp] = MaxCount[sp]
        /\ pending[sp] \in Nat /\ due[sp] \in Nat /\ Cardinality(AtPoint(sp)) \in Nat
        /\ IsFiniteSet(AtPoint(sp))
    BY <1>1, PointIsFinite DEF PopulationKept, TypeOK
  <2>2. AtPoint(sp)' = AtPoint(sp) \ killed
    BY <1>1, <1>3 DEF AtPoint
  <2>3. Cardinality(AtPoint(sp) \ killed)
          = Cardinality(AtPoint(sp)) - Cardinality(AtPoint(sp) \cap killed)
    BY <2>1, FS_Difference
  <2>4. AtPoint(sp) \cap killed = killed \cap AtPoint(sp)
    OBVIOUS
  <2>5. pending'[sp] = pending[sp] + Cardinality(killed \cap AtPoint(sp)) /\ due'[sp] = due[sp]
    BY <1>3
  <2>6. Cardinality(killed \cap AtPoint(sp)) \in Nat
    BY <1>4
  <2>7. Cardinality(AtPoint(sp)') =
          Cardinality(AtPoint(sp)) - Cardinality(killed \cap AtPoint(sp))
    BY <2>2, <2>3, <2>4
  <2> HIDE DEF AtPoint
  <2> QED BY <2>1, <2>5, <2>6, <2>7
<1> QED BY <1>6, <1>7, <1>8, <1>9, <1>10, <1>11 DEF RoomInv

(***************************************************************************)
(* The minds of monsters                                                   *)
(***************************************************************************)

\* A mind at the end of a tick in which the players `living' can be its target.
Settled(b, living) ==
  /\ b \in Mind
  /\ b.target = NoTarget \/ b.target \in living
  /\ b.state = "Returning" => b.target = NoTarget /\ b.swing = NoCell

LEMMA MoveToSettled ==
  ASSUME NEW living, NEW b, Settled(b, living), NEW c \in Cells \cup {NoCell},
         NEW x \in MoveTo(b, c)
  PROVE  Settled(x, living)
  BY DEF MoveTo, Settled, Mind

LEMMA ChaseSettled ==
  ASSUME TypeOK, NEW living, living \subseteq Players, NEW b, Settled(b, living),
         NEW x \in ChaseTarget(b)
  PROVE  Settled(x, living)
<1>1. CASE x = b
  BY <1>1
<1>2. CASE b.target # NoTarget /\ x \in MoveTo(b, cell[b.target])
  <2>1. cell[b.target] \in Cells \cup {NoCell}
    BY <1>2 DEF Settled, TypeOK, Entities
  <2> QED BY <1>2, <2>1, MoveToSettled
<1> QED BY <1>1, <1>2 DEF ChaseTarget

\* Changing the state to any but "Returning" settles nothing else.
LEMMA StateSettled ==
  ASSUME NEW living, NEW b, Settled(b, living),
         NEW state \in {"Idle", "Wandering", "Chasing", "Attacking"}
  PROVE  /\ Settled([b EXCEPT !.state = state], living)
         /\ Settled([b EXCEPT !.state = state, !.goal = NoCell], living)
         /\ Settled([b EXCEPT !.state = state, !.target = NoTarget, !.goal = NoCell], living)
  BY DEF Settled, Mind, States

\* Going home leaves no target and no attack, whatever the mind was.
LEMMA ReturningSettled ==
  ASSUME NEW living, NEW m \in Monsters, point[m] \in Points, NEW b \in Mind,
         NEW x \in ToReturning(m, b)
  PROVE  Settled(x, living)
<1> DEFINE d == [b EXCEPT !.state = "Returning", !.target = NoTarget, !.swing = NoCell]
<1>1. Settled(d, living)
  BY DEF Settled, Mind, States
<1>2. Home[point[m]] \in Cells \cup {NoCell}
  BY GridAssumption
<1>3. x \in MoveTo(d, Home[point[m]])
  BY DEF ToReturning
<1> HIDE DEF d
<1> QED BY <1>1, <1>2, <1>3, MoveToSettled

LEMMA UpdateSettled ==
  ASSUME TypeOK, NEW living, living \subseteq Players, NEW m \in Monsters,
         point[m] \in Points, pos[m] \in Cells,
         NEW b, Settled(b, living), NEW x \in StateUpdate(m, b, living)
  PROVE  Settled(x, living)
<1>1. ASSUME NEW a, Settled(a, living), x \in ToChasing(a)
      PROVE  Settled(x, living)
  <2> DEFINE d == [a EXCEPT !.state = "Chasing"]
  <2>1. Settled(d, living) /\ x \in ChaseTarget(d)
    BY <1>1, StateSettled DEF ToChasing
  <2> HIDE DEF d
  <2> QED BY <2>1, ChaseSettled
<1>2. ASSUME NEW a, Settled(a, living), x \in ToAttacking(a)
      PROVE  Settled(x, living)
  BY <1>2, StateSettled DEF ToAttacking
<1>3. ASSUME x \in ToIdle(b)
      PROVE  Settled(x, living)
  BY <1>3, StateSettled DEF ToIdle
<1>4. ASSUME x \in ToWandering(m, b)
      PROVE  Settled(x, living)
  <2> DEFINE d == [b EXCEPT !.state = "Wandering"]
  <2>1. Settled(d, living)
    BY StateSettled
  <2>2. PICK c \in Cells : x \in MoveTo(d, c)
    BY <1>4 DEF ToWandering
  <2> HIDE DEF d
  <2> QED BY <2>1, <2>2, MoveToSettled
<1>5. ASSUME x \in Engage(m, b, living), b.state # "Returning"
      PROVE  Settled(x, living)
  <2>1. PICK q \in living : LET c == [b EXCEPT !.target = q]
                            IN x \in ToChasing(c) \/ x \in ToAttacking(c)
    BY <1>5 DEF Engage
  <2> DEFINE d == [b EXCEPT !.target = q]
  <2>2. Settled(d, living)
    BY <1>5 DEF Settled, Mind
  <2>3. x \in ToChasing(d) \/ x \in ToAttacking(d)
    BY <2>1
  <2> HIDE DEF d
  <2> QED BY <1>1, <1>2, <2>2, <2>3
<1>6. ASSUME x \in ToReturning(m, b)
      PROVE  Settled(x, living)
  BY <1>6, ReturningSettled DEF Settled
<1>7. ASSUME x = [b EXCEPT !.swing = pos[m]], b.state # "Returning"
      PROVE  Settled(x, living)
  BY <1>7 DEF Settled, Mind
<1>8. b.state \in States
  BY DEF Settled, Mind
<1>9. CASE b.state = "Idle"
  BY <1>3, <1>4, <1>5, <1>9 DEF StateUpdate
<1>10. CASE b.state = "Wandering"
  BY <1>3, <1>5, <1>10 DEF StateUpdate
<1>11. CASE b.state = "Chasing"
  BY <1>2, <1>6, <1>11, ChaseSettled DEF StateUpdate
<1>12. CASE b.state = "Attacking"
  BY <1>1, <1>6, <1>7, <1>12 DEF StateUpdate
<1>13. CASE b.state = "Returning"
  BY <1>3, <1>13 DEF StateUpdate
<1> QED BY <1>8, <1>9, <1>10, <1>11, <1>12, <1>13 DEF States

(***************************************************************************)
(* The tick of a monster                                                   *)
(***************************************************************************)

\* Where a tick leaves its monster: at a cell, with a mind that has settled on one of
\* the players that live after it, or on nobody.
LEMMA TickSettles ==
  ASSUME RoomInv, NEW m \in Monsters, NEW killed \in SUBSET PlayersHit(m),
         NEW over \in BOOLEAN, NEW update \in BOOLEAN, NEW walk \in BOOLEAN,
         TickMonster(m, killed, over, update, walk)
  PROVE  \E c \in Cells, b \in Mind :
           /\ Settled(b, Living \ killed)
           /\ pos' = [pos EXCEPT ![m] = c]
           /\ mind' = [mind EXCEPT ![m] = b]
<1> DEFINE living == Living \ killed
           struck == [mind[m] EXCEPT !.swing = IF over THEN NoCell ELSE @]
<1>1. TypeOK /\ Present /\ NoStaleAttack /\ living \subseteq Players
  BY DEF RoomInv, Living
<1>2. cell[m] # NoCell
  BY DEF TickMonster
<1>3. point[m] \in Points /\ pos[m] \in Cells
  BY <1>1, <1>2 DEF Present, TypeOK
<1>4. PICK b \in LookAfterTarget(m, struck, living) :
      \E c \in IF update THEN StateUpdate(m, b, living) ELSE {b} :
      \E w \in Walked(m, c, walk) :
        /\ pos' = [pos EXCEPT ![m] = w[1]]
        /\ mind' = [mind EXCEPT ![m] = w[2]]
  BY DEF TickMonster
<1>5. mind[m] \in Mind
  BY <1>1 DEF TypeOK
<1>6. /\ struck \in Mind
      /\ struck.state = "Returning" => struck.target = NoTarget /\ struck.swing = NoCell
  BY <1>1, <1>5 DEF Mind, NoStaleAttack
<1> HIDE DEF struck, living
<1>7. Settled(b, living)
  <2>1. CASE IsTargetLost(struck.target, living)
    BY <1>3, <1>4, <1>6, <2>1, ReturningSettled DEF LookAfterTarget
  <2>2. CASE ~ IsTargetLost(struck.target, living)
    BY <1>4, <1>6, <2>2 DEF LookAfterTarget, IsTargetLost, Settled
  <2> QED BY <2>1, <2>2
<1>8. PICK c \in IF update THEN StateUpdate(m, b, living) ELSE {b} :
      \E w \in Walked(m, c, walk) :
        /\ pos' = [pos EXCEPT ![m] = w[1]]
        /\ mind' = [mind EXCEPT ![m] = w[2]]
  BY <1>4
<1>9. Settled(c, living)
  BY <1>1, <1>3, <1>7, <1>8, UpdateSettled
<1>10. PICK w \in Walked(m, c, walk) : /\ pos' = [pos EXCEPT ![m] = w[1]]
                                     /\ mind' = [mind EXCEPT ![m] = w[2]]
  BY <1>8
<1>11. w[1] \in Cells /\ Settled(w[2], living)
  <2>1. Settled([c EXCEPT !.goal = NoCell], living)
    BY <1>9 DEF Settled, Mind
  <2>2. \/ w = <<pos[m], c>>
        \/ w = <<pos[m], [c EXCEPT !.goal = NoCell]>>
        \/ \E d \in Toward(pos[m], c.goal) : w = <<d, c>>
    BY <1>10 DEF Walked
  <2>3. \A d \in Toward(pos[m], c.goal) : d \in Cells
    BY DEF Toward
  <2> QED BY <1>3, <1>9, <2>1, <2>2, <2>3
<1>12. w[2] \in Mind
  BY <1>11 DEF Settled
<1> QED BY <1>10, <1>11, <1>12 DEF living

LEMMA MonsterTickStep ==
  ASSUME RoomInv, NEW m \in Monsters, NEW killed \in SUBSET PlayersHit(m),
         NEW over \in BOOLEAN, NEW update \in BOOLEAN, NEW walk \in BOOLEAN,
         TickMonster(m, killed, over, update, walk)
  PROVE  /\ RoomInv'
         /\ mind'[m].target = NoTarget \/ mind'[m].target \in Living'
<1>1. /\ TypeOK /\ Present /\ Refreshing /\ NothingDue
      /\ NoStaleAttack /\ Knows /\ PopulationKept /\ NoCell \notin Cells
  BY GridAssumption DEF RoomInv
<1>2. /\ phase = "entities" /\ cell[m] # NoCell
      /\ todo' = todo \ {m} /\ dead' = dead \cup killed
      /\ UNCHANGED <<phase, objects, swing, cell, known, point, pending, due>>
  BY DEF TickMonster, viewVars, spawnVars
<1>3. PICK c \in Cells, b \in Mind :
        /\ Settled(b, Living \ killed)
        /\ pos' = [pos EXCEPT ![m] = c]
        /\ mind' = [mind EXCEPT ![m] = b]
  BY TickSettles
<1>4. b \in Mind
  OBVIOUS
<1>5. killed \subseteq Players
  BY DEF PlayersHit, Living
<1>6. TypeOK'
  <2>1. pos' \in [Monsters -> Cells \cup {NoCell}] /\ mind' \in [Monsters -> Mind]
    BY <1>1, <1>3, <1>4 DEF TypeOK
  <2>2. todo' \subseteq Entities /\ dead' \subseteq Players
    BY <1>1, <1>2, <1>5 DEF TypeOK
  <2> QED BY <1>1, <1>2, <2>1, <2>2 DEF TypeOK
<1>7. /\ \A n \in Monsters : mind'[n] = IF n = m THEN b ELSE mind[n]
      /\ \A n \in Monsters : pos'[n] = IF n = m THEN c ELSE pos[n]
  BY <1>1, <1>3 DEF TypeOK
<1>8. Present'
  BY <1>1, <1>2, <1>7 DEF Present
<1>9. Refreshing' /\ NothingDue'
  BY <1>1, <1>2 DEF Refreshing, NothingDue
<1>10. NoStaleAttack'
  BY <1>1, <1>2, <1>3, <1>7 DEF NoStaleAttack, Settled
<1>11. Knows' /\ PopulationKept'
  BY <1>1, <1>2 DEF Knows, PopulationKept, AtPoint
<1>12. mind'[m].target = NoTarget \/ mind'[m].target \in Living'
  <2>1. Living' = Living \ killed
    BY <1>2 DEF Living, InRoom
  <2> QED BY <1>3, <1>7, <2>1 DEF Settled
<1> QED BY <1>6, <1>8, <1>9, <1>10, <1>11, <1>12 DEF RoomInv

(***************************************************************************)
(* The theorems                                                            *)
(***************************************************************************)

LEMMA InitRoomInv == Init => RoomInv
<1> SUFFICES ASSUME Init
             PROVE  RoomInv
  OBVIOUS
<1> USE DEF Init
<1>1. Players \cap Monsters = {} /\ NoCell \notin Cells /\ NoPoint \notin Points
  BY GridAssumption, EntityAssumption
<1>2. NewMind \in Mind /\ NewMind.state = "Idle" /\ NewMind.target = NoTarget
  BY DEF NewMind, Mind, States
<1>3. TypeOK
  BY <1>1, <1>2 DEF TypeOK, Entities
<1>4. Present
  BY <1>1, <1>2 DEF Present, Entities
<1>5. Refreshing /\ NothingDue /\ NoStaleAttack
  BY <1>2 DEF Refreshing, NothingDue, NoStaleAttack
<1>6. Knows
  BY DEF Knows, Entities
<1>7. PopulationKept
  <2> SUFFICES ASSUME NEW sp \in Points
               PROVE  Cardinality(AtPoint(sp)) + pending[sp] + due[sp] = MaxCount[sp]
    BY DEF PopulationKept
  <2>1. /\ Cardinality(AtPoint(sp)) = MaxCount[sp] /\ pending[sp] = 0 /\ due[sp] = 0
        /\ Cardinality(AtPoint(sp)) \in Nat
    BY PointIsFinite
  <2> QED BY <2>1
<1> QED BY <1>3, <1>4, <1>5, <1>6, <1>7 DEF RoomInv

LEMMA NextRoomInv == RoomInv /\ [Next]_vars => RoomInv'
<1> SUFFICES ASSUME RoomInv, [Next]_vars
             PROVE  RoomInv'
  OBVIOUS
<1>1. ASSUME NEW p \in Players, PlayerJob(p)
      PROVE  RoomInv'
  BY <1>1, EnterStep, DepartStep, TeleportStep, MoveStep DEF PlayerJob
<1>2. ASSUME NEW p \in Players, ObjectMade(p) \/ ObjectFreed(p)
      PROVE  RoomInv'
  BY <1>2, ObjectStep
<1>3. CASE TickStep
  <2>1. CASE StartTick \/ TickEntities \/ EndTick \/ \E m \in Monsters : SkipRemoved(m)
    BY <2>1, PhaseStep
  <2>2. CASE \E m \in Monsters : RefreshVisibility(m)
    BY <2>2, RefreshStep
  <2>3. CASE \E ready \in [Points -> 0 .. Cardinality(Monsters)] : SpawnerTick(ready)
    BY <2>3, SpawnerStep
  <2>4. CASE \/ \E sp \in Points, m \in Monsters, c \in Cells : SpawnMonster(sp, m, c)
             \/ \E sp \in Points : SpawnFails(sp)
    BY <2>4, SpawnStep, SpawnFailsStep
  <2>5. CASE \E p \in Players : PlayerTick(p)
    BY <2>5, PlayerTickStep DEF PlayerTick
  <2>6. CASE \E m \in Monsters, update, walk \in BOOLEAN : MonsterTick(m, update, walk)
    BY <2>6, MonsterTickStep DEF MonsterTick
  <2> QED BY <1>3, <2>1, <2>2, <2>3, <2>4, <2>5, <2>6 DEF TickStep
<1>4. CASE UNCHANGED vars
  BY <1>4 DEF vars, tickVars, lifeVars, viewVars, spawnVars, RoomInv, TypeOK, Present,
              Refreshing, NothingDue, NoStaleAttack, Knows, PopulationKept, AtPoint
<1> QED BY <1>1, <1>2, <1>3, <1>4 DEF Next

LEMMA RoomInvHolds == Spec => []RoomInv
<1>1. Init => RoomInv
  BY InitRoomInv
<1>2. RoomInv /\ [Next]_vars => RoomInv'
  BY NextRoomInv
<1> QED BY <1>1, <1>2, PTL DEF Spec

\* Cells, positions, minds and respawn counts keep their types, for any players,
\* monsters, spawn points and cell matrix; no respawn count is ever negative.
THEOREM RoomTypes == Spec => []TypeOK
<1>1. RoomInv => TypeOK
  BY DEF RoomInv
<1> QED BY <1>1, RoomInvHolds, PTL

\* UpdateVisibility, AnnounceEnter and the departures tell each client exactly of the
\* entities recorded in the cells around its own, after any sequence of moves,
\* teleports, entries, departures, spawns and deaths.
THEOREM ClientsInSync == Spec => []ClientsKnowNeighbours
<1>1. RoomInv => ClientsKnowNeighbours
  BY KnowsNeighbours DEF RoomInv
<1> QED BY <1>1, RoomInvHolds, PTL

\* Deaths, respawns that fail and respawns that succeed neither lose nor gain a monster
\* of a spawn point (MonsterSpawner), whatever its MaxCount.
THEOREM PopulationStays == Spec => []PopulationKept
<1>1. RoomInv => PopulationKept
  BY DEF RoomInv
<1> QED BY <1>1, RoomInvHolds, PTL

\* A player outside the room has no running action, and a monster that returns no
\* target and no running attack, however they got there.
THEOREM AttacksCancelled == Spec => []NoStaleAttack
<1>1. RoomInv => NoStaleAttack
  BY DEF RoomInv
<1> QED BY <1>1, RoomInvHolds, PTL

\* MonsterAIComponent::Tick never ends with a target that is dead or not in the room.
THEOREM TargetsPresent == Spec => OnlyPresentTargets
<1> DEFINE A == \A m \in Monsters :
                  /\ phase = "entities"
                  /\ m \in todo \ todo'
                  /\ mind'[m].target # NoTarget
                  => mind'[m].target \in Living'
<1>1. RoomInv /\ [Next]_vars => [A]_vars
  <2> SUFFICES ASSUME RoomInv, Next, NEW m \in Monsters, phase = "entities",
                      m \in todo, m \notin todo', mind'[m].target # NoTarget
               PROVE  mind'[m].target \in Living'
    OBVIOUS
  <2>1. Present /\ Players \cap Monsters = {} /\ todo # {}
    BY EntityAssumption DEF RoomInv
  <2>2. ASSUME NEW p \in Players, PlayerJob(p) \/ ObjectMade(p) \/ ObjectFreed(p)
        PROVE  FALSE
    BY <2>2 DEF PlayerJob, EnterPlayer, C_HandleMove, C_HandleAction, TeleportPlayer, Depart,
                ObjectMade, ObjectFreed, tickVars
  <2>3. CASE StartTick \/ TickEntities \/ EndTick
    BY <2>1, <2>3 DEF StartTick, TickEntities, EndTick
  <2>4. CASE \/ \E n \in Monsters : RefreshVisibility(n)
             \/ \E ready \in [Points -> 0 .. Cardinality(Monsters)] : SpawnerTick(ready)
             \/ \E sp \in Points, n \in Monsters, c \in Cells : SpawnMonster(sp, n, c)
             \/ \E sp \in Points : SpawnFails(sp)
    BY <2>4 DEF RefreshVisibility, SpawnerTick, SpawnMonster, SpawnFails
  <2>5. CASE \E n \in Monsters : SkipRemoved(n)
    BY <2>1, <2>5 DEF SkipRemoved, Present
  <2>6. CASE \E p \in Players : PlayerTick(p)
    BY <2>1, <2>6 DEF PlayerTick, TickPlayer
  <2>7. CASE \E n \in Monsters, update, walk \in BOOLEAN : MonsterTick(n, update, walk)
    <3>1. PICK n \in Monsters, update \in BOOLEAN, walk \in BOOLEAN :
            \E killed \in SUBSET PlayersHit(n), over \in BOOLEAN :
              TickMonster(n, killed, over, update, walk)
      BY <2>7 DEF MonsterTick
    <3>2. n = m
      BY <3>1 DEF TickMonster
    <3> QED BY <3>1, <3>2, MonsterTickStep
  <2> QED BY <2>2, <2>3, <2>4, <2>5, <2>6, <2>7 DEF Next, TickStep
<1> QED BY <1>1, RoomInvHolds, PTL DEF Spec, OnlyPresentTargets
=============================================================================
