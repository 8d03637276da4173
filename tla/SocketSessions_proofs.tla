----------------------- MODULE SocketSessions_proofs -----------------------
(***************************************************************************)
(* Proofs about SocketSessions, for any sessions, workers and limits: one  *)
(* farewell per connection, no packet left behind, the reason of a kick    *)
(* sent first, and no cycle of threads that wait for session locks.        *)
(***************************************************************************)
EXTENDS SocketSessions, TLAPS

\* What holds of the fields c of a session, the number f of its farewells, its debt d
\* and whether it is served: `in'.
SoundConn(c, f, d, in) ==
  /\ c.connected =>
       /\ c.ending = "no"
       /\ in
       /\ c.registered => c.inFlight > 0
       /\ c.inFlight > 0 => c.registered
       /\ c.queue > 0 => c.registered
       /\ d <= c.queue + c.inFlight
  /\ c.ending = "pending" => in
  /\ f = IF c.ending = "done" THEN 1 ELSE 0
  /\ c.cause => c.kicked
  /\ ~ c.kicked => d = 0

Sound == \A s \in Sessions : SoundConn(conn[s], farewells[s], debt[s], s \in served)

\* A worker's step names the sessions it is about.
Aimed ==
  \A t \in Workers :
    /\ worker[t].step # "idle" => worker[t].s \in Sessions
    /\ worker[t].step = "tell" => worker[t].other \in Sessions

\* A departure is that of a session that is down and still served,
Departing ==
  \A t \in Workers : Leaving(t) =>
    worker[t].s \in served /\ conn[worker[t].s].ending = "done"

\* no two departures are of one session,
Apart ==
  \A t, u \in Workers : Leaving(t) /\ Leaving(u) /\ t # u => worker[t].s # worker[u].s

\* and a lock is kept by the departure of its session only.
Kept ==
  \A s \in Sessions : lock[s] # NoWorker => Leaving(lock[s]) /\ worker[lock[s]].s = s

Dropping ==
  \A t \in Workers : worker[t].step = "drop" =>
    /\ conn[worker[t].s].kicked
    /\ conn[worker[t].s].connected => debt[worker[t].s] = 0

NetInv ==
  NetTypeOK /\ Sound /\ Aimed /\ Departing /\ Apart /\ Kept /\ Dropping /\ NoLockCycle

LEMMA InitNetInv == NetInit => NetInv
<1> SUFFICES ASSUME NetInit
             PROVE  NetInv
  OBVIOUS
<1> USE DEF NetInit
<1>1. NewConn \in Conn /\ Resting \in Worker
  BY DEF NewConn, Conn, Resting, Worker, Steps, Target
<1>2. NetTypeOK
  BY <1>1, NetAssumption DEF NetTypeOK
<1>3. Sound
  <2> SUFFICES ASSUME NEW s \in Sessions
               PROVE  SoundConn(conn[s], farewells[s], debt[s], s \in served)
    BY DEF Sound
  <2>1. SoundConn(NewConn, 0, 0, s \in served)
    BY DEF SoundConn, NewConn
  <2>2. conn[s] = NewConn /\ farewells[s] = 0 /\ debt[s] = 0
    OBVIOUS
  <2> QED BY <2>1, <2>2
<1>4. \A t \in Workers : worker[t].step = "idle"
  BY DEF Resting
<1>5. Aimed /\ Departing /\ Apart /\ Dropping
  BY <1>4 DEF Aimed, Departing, Apart, Dropping, Leaving
<1>6. Kept
  BY DEF Kept
<1>7. NoLockCycle
  BY <1>4 DEF NoLockCycle, WaitsFor
<1> QED BY <1>2, <1>3, <1>5, <1>6, <1>7 DEF NetInv

(***************************************************************************)
(* Waiting for locks                                                       *)
(***************************************************************************)

\* No cycle comes up where nobody begins to wait.
LEMMA NoNewWait ==
  ASSUME NoLockCycle,
         \A t, u \in Workers :
           worker'[t].step = "tell" /\ lock'[worker'[t].other] = u => WaitsFor(t, u)
  PROVE  NoLockCycle'
<1> SUFFICES ASSUME NEW W \in (SUBSET Workers) \ {{}}
             PROVE  \E t \in W : \A u \in W :
                      ~ (worker'[t].step = "tell" /\ lock'[worker'[t].other] = u)
  BY DEF NoLockCycle, WaitsFor
<1>1. PICK t \in W : \A u \in W : ~ WaitsFor(t, u)
  BY DEF NoLockCycle
<1> QED BY <1>1

\* Nor where the others begin to wait only for one that does not wait itself.
LEMMA NewWaitForFree ==
  ASSUME NoLockCycle, NEW x \in Workers,
         \A u \in Workers : ~ (worker'[x].step = "tell" /\ lock'[worker'[x].other] = u),
         \A t, u \in Workers \ {x} :
           worker'[t].step = "tell" /\ lock'[worker'[t].other] = u => WaitsFor(t, u)
  PROVE  NoLockCycle'
<1> SUFFICES ASSUME NEW W \in (SUBSET Workers) \ {{}}
             PROVE  \E t \in W : \A u \in W :
                      ~ (worker'[t].step = "tell" /\ lock'[worker'[t].other] = u)
  BY DEF NoLockCycle, WaitsFor
<1>1. CASE x \in W
  BY <1>1
<1>2. CASE x \notin W
  <2>1. PICK t \in W : \A u \in W : ~ WaitsFor(t, u)
    BY DEF NoLockCycle
  <2> QED BY <1>2, <2>1
<1> QED BY <1>1, <1>2

\* The lock of a connected session is free.
LEMMA ConnectedIsFree ==
  ASSUME NetInv, NEW s \in Sessions, conn[s].ending # "done"
  PROVE  /\ lock[s] = NoWorker
         /\ \A t \in Workers : Leaving(t) => worker[t].s # s
<1>1. NetTypeOK /\ Departing /\ Kept
  BY DEF NetInv
<1>2. \A t \in Workers : Leaving(t) => worker[t].s # s
  BY <1>1 DEF Departing
<1>3. lock[s] \in Workers \cup {NoWorker}
  BY <1>1 DEF NetTypeOK
<1> QED BY <1>1, <1>2, <1>3 DEF Kept

(***************************************************************************)
(* Steps that begin and end no departure                                   *)
(***************************************************************************)

LEMMA QuietStep ==
  ASSUME NetInv, NEW s \in Sessions, NEW c \in Conn, NEW d \in Nat,
         conn' = [conn EXCEPT ![s] = c],
         debt' = [debt EXCEPT ![s] = d],
         worker' \in [Workers -> Worker],
         sends' \in 0 .. MaxSends,
         served \subseteq served', served' \subseteq Sessions,
         UNCHANGED <<lock, farewells>>,
         SoundConn(c, farewells[s], d, s \in served'),
         conn[s].ending = "done" => c.ending = "done",
         conn[s].kicked => c.kicked,
         conn[s].kicked /\ c.connected => conn[s].connected,
         conn[s].kicked /\ debt[s] = 0 => d = 0,
         \A t \in Workers :
           \/ worker'[t] = worker[t]
           \/ /\ worker[t].step \notin {"leave", "tell"}
              /\ worker'[t].step \notin {"leave", "tell"}
              /\ worker'[t].step # "idle" => worker'[t].s \in Sessions
              /\ worker'[t].step = "drop" =>
                   worker'[t].s = s /\ c.kicked /\ (c.connected => d = 0)
  PROVE  NetInv'
<1>1. NetTypeOK /\ Sound /\ Aimed /\ Departing /\ Apart /\ Kept /\ Dropping /\ NoLockCycle
  BY DEF NetInv
<1>2. /\ \A x \in Sessions : conn'[x] = IF x = s THEN c ELSE conn[x]
      /\ \A x \in Sessions : debt'[x] = IF x = s THEN d ELSE debt[x]
  BY <1>1 DEF NetTypeOK
<1>3. NetTypeOK'
  BY <1>1 DEF NetTypeOK
<1>4. Sound'
  <2> SUFFICES ASSUME NEW x \in Sessions
               PROVE  SoundConn(conn'[x], farewells'[x], debt'[x], x \in served')
    BY DEF Sound
  <2>1. CASE x = s
    BY <1>2, <2>1
  <2>2. CASE x # s
    <3>1. SoundConn(conn[x], farewells[x], debt[x], x \in served)
      BY <1>1 DEF Sound
    <3>2. SoundConn(conn[x], farewells[x], debt[x], x \in served')
      BY <3>1 DEF SoundConn
    <3> QED BY <1>2, <2>2, <3>2
  <2> QED BY <2>1, <2>2
<1>5. Aimed'
  BY <1>1 DEF Aimed
<1>6. \A t \in Workers : Leaving(t)' => Leaving(t) /\ worker'[t] = worker[t]
  BY DEF Leaving
<1>7. Departing'
  <2> SUFFICES ASSUME NEW t \in Workers, Leaving(t)'
               PROVE  worker'[t].s \in served' /\ conn'[worker'[t].s].ending = "done"
    BY DEF Departing
  <2>1. worker[t].s \in served /\ conn[worker[t].s].ending = "done"
    BY <1>1, <1>6 DEF Departing
  <2>2. worker[t].s \in Sessions
    BY <1>1, <2>1 DEF NetTypeOK
  <2> QED BY <1>2, <1>6, <2>1, <2>2
<1>8. Apart'
  BY <1>1, <1>6 DEF Apart
<1>9. Kept'
  <2> SUFFICES ASSUME NEW x \in Sessions, lock[x] # NoWorker
               PROVE  Leaving(lock[x])' /\ worker'[lock[x]].s = x
    BY DEF Kept
  <2>1. Leaving(lock[x]) /\ worker[lock[x]].s = x /\ lock[x] \in Workers
    BY <1>1 DEF Kept, NetTypeOK
  <2>2. worker'[lock[x]] = worker[lock[x]]
    BY <2>1 DEF Leaving
  <2> QED BY <2>1, <2>2 DEF Leaving
<1>10. Dropping'
  <2> SUFFICES ASSUME NEW t \in Workers, worker'[t].step = "drop"
               PROVE  /\ conn'[worker'[t].s].kicked
                      /\ conn'[worker'[t].s].connected => debt'[worker'[t].s] = 0
    BY DEF Dropping
  <2>1. CASE worker'[t] = worker[t]
    <3>1. /\ worker[t].s \in Sessions
          /\ conn[worker[t].s].kicked
          /\ conn[worker[t].s].connected => debt[worker[t].s] = 0
      BY <1>1, <2>1 DEF Aimed, Dropping
    <3> QED BY <1>2, <2>1, <3>1
  <2>2. CASE worker'[t] # worker[t]
    BY <1>2, <2>2
  <2> QED BY <2>1, <2>2
<1>11. NoLockCycle'
  <2>1. \A t, u \in Workers :
          worker'[t].step = "tell" /\ lock'[worker'[t].other] = u => WaitsFor(t, u)
    BY DEF WaitsFor
  <2> QED BY <1>1, <2>1, NoNewWait
<1> QED BY <1>3, <1>4, <1>5, <1>7, <1>8, <1>9, <1>10, <1>11 DEF NetInv

(***************************************************************************)
(* Steps that begin, go on with or end a departure                         *)
(***************************************************************************)

LEMMA FarewellStep ==
  ASSUME NetInv, NEW t \in Workers, ~ Leaving(t), NEW s \in Sessions, NEW c \in Conn,
         NEW held \in BOOLEAN, NEW d \in Nat,
         conn[s].connected \/ conn[s].ending = "pending",
         c.kicked = conn[s].kicked, c.cause = conn[s].cause,
         ~ c.kicked => d = 0,
         ProcessDisconnect(t, s, c, held),
         debt' = [debt EXCEPT ![s] = d],
         UNCHANGED <<served, sends>>
  PROVE  NetInv'
<1> DEFINE e == [c EXCEPT !.connected = FALSE, !.ending = "done"]
<1>1. NetTypeOK /\ Sound /\ Aimed /\ Departing /\ Apart /\ Kept /\ Dropping /\ NoLockCycle
  BY DEF NetInv
<1>2. /\ SoundConn(conn[s], farewells[s], debt[s], s \in served)
      /\ farewells[s] \in Nat
  BY <1>1 DEF Sound, NetTypeOK
<1>3. s \in served /\ conn[s].ending # "done" /\ farewells[s] = 0
  BY <1>2 DEF SoundConn
<1>4. e \in Conn /\ SoundConn(e, 1, d, s \in served)
  <2>1. /\ e \in Conn /\ e.connected = FALSE /\ e.ending = "done"
        /\ e.cause = c.cause /\ e.kicked = c.kicked
    BY DEF Conn
  <2> HIDE DEF e
  <2> QED BY <1>2, <2>1 DEF SoundConn
<1>5. PICK around \in SUBSET (served \ {s}) :
        worker' = [worker EXCEPT ![t] = [@ EXCEPT !.step = "leave", !.s = s, !.rest = around]]
  BY DEF ProcessDisconnect
<1> DEFINE w == [worker[t] EXCEPT !.step = "leave", !.s = s, !.rest = around]
<1>6. w \in Worker /\ w.step = "leave" /\ w.s = s
  <2>1. worker[t] \in Worker /\ around \subseteq Sessions
    BY <1>1, <1>5 DEF NetTypeOK
  <2> QED BY <2>1 DEF Worker, Steps, Target
<1>7. worker' = [worker EXCEPT ![t] = w]
  BY <1>1, <1>5 DEF NetTypeOK
<1>8. \A u \in Workers : worker'[u] = IF u = t THEN w ELSE worker[u]
  BY <1>1, <1>7 DEF NetTypeOK
<1>9. /\ conn' = [conn EXCEPT ![s] = e]
      /\ farewells' = [farewells EXCEPT ![s] = @ + 1]
      /\ lock' = IF held THEN [lock EXCEPT ![s] = t] ELSE lock
      /\ UNCHANGED <<served, sends>>
  BY DEF ProcessDisconnect
<1> HIDE DEF e, w
<1>10. /\ \A x \in Sessions : conn'[x] = IF x = s THEN e ELSE conn[x]
       /\ \A x \in Sessions : debt'[x] = IF x = s THEN d ELSE debt[x]
       /\ \A x \in Sessions : farewells'[x] = IF x = s THEN 1 ELSE farewells[x]
       /\ \A x \in Sessions : lock'[x] = IF x = s /\ held THEN t ELSE lock[x]
  BY <1>1, <1>3, <1>9 DEF NetTypeOK
<1>11. NetTypeOK'
  BY <1>1, <1>4, <1>6, <1>7, <1>9, <1>3 DEF NetTypeOK
<1>12. Sound'
  <2> SUFFICES ASSUME NEW x \in Sessions
               PROVE  SoundConn(conn'[x], farewells'[x], debt'[x], x \in served)
    BY <1>9 DEF Sound
  <2>1. CASE x = s
    BY <1>4, <1>10, <2>1
  <2>2. CASE x # s
    BY <1>1, <1>10, <2>2 DEF Sound
  <2> QED BY <2>1, <2>2
<1>13. Aimed'
  BY <1>1, <1>6, <1>8 DEF Aimed
<1>14. \A u \in Workers : Leaving(u) => worker[u].s # s
  BY <1>1, <1>3 DEF Departing
<1>15. e.ending = "done" /\ e.connected = FALSE /\ e.kicked = conn[s].kicked
  BY DEF e, Conn
<1>16. Departing'
  <2> SUFFICES ASSUME NEW u \in Workers, Leaving(u)'
               PROVE  worker'[u].s \in served /\ conn'[worker'[u].s].ending = "done"
    BY <1>9 DEF Departing
  <2>1. CASE u = t
    BY <1>3, <1>6, <1>8, <1>10, <1>15, <2>1
  <2>2. CASE u # t
    <3>1. worker[u].s \in served /\ conn[worker[u].s].ending = "done"
      BY <1>1, <1>8, <2>2 DEF Departing, Leaving
    <3> QED BY <1>1, <1>8, <1>10, <1>15, <2>2, <3>1 DEF NetTypeOK
  <2> QED BY <2>1, <2>2
<1>17. Apart'
  BY <1>1, <1>6, <1>8, <1>14 DEF Apart, Leaving
<1>18. Kept'
  <2> SUFFICES ASSUME NEW x \in Sessions, lock'[x] # NoWorker
               PROVE  /\ worker'[lock'[x]].step \in {"leave", "tell"}
                      /\ worker'[lock'[x]].s = x
    BY DEF Kept, Leaving
  <2>1. CASE x = s /\ held
    BY <1>6, <1>8, <1>10, <2>1 DEF Leaving
  <2>2. CASE ~ (x = s /\ held)
    <3>1. Leaving(lock[x]) /\ worker[lock[x]].s = x /\ lock[x] \in Workers
      BY <1>1, <1>10, <2>2 DEF Kept, NetTypeOK
    <3>2. lock[x] # t
      BY <3>1 DEF Leaving
    <3> QED BY <1>8, <1>10, <2>2, <3>1, <3>2 DEF Leaving
  <2> QED BY <2>1, <2>2
<1>19. Dropping'
  <2> SUFFICES ASSUME NEW u \in Workers, worker'[u].step = "drop"
               PROVE  /\ conn'[worker'[u].s].kicked
                      /\ conn'[worker'[u].s].connected => debt'[worker'[u].s] = 0
    BY DEF Dropping
  <2>1. worker'[u] = worker[u]
    BY <1>6, <1>8
  <2>2. /\ worker[u].s \in Sessions
        /\ conn[worker[u].s].kicked
        /\ conn[worker[u].s].connected => debt[worker[u].s] = 0
    BY <1>1, <2>1 DEF Aimed, Dropping
  <2> QED BY <1>10, <1>15, <2>1, <2>2
<1>20. NoLockCycle'
  <2>1. \A u \in Workers : ~ (worker'[t].step = "tell" /\ lock'[worker'[t].other] = u)
    BY <1>6, <1>8
  <2>2. ASSUME NEW v \in Workers \ {t}, NEW u \in Workers \ {t},
               worker'[v].step = "tell", lock'[worker'[v].other] = u
        PROVE  WaitsFor(v, u)
    <3>1. worker'[v] = worker[v] /\ worker[v].other \in Sessions
      BY <1>1, <1>8, <2>2 DEF Aimed
    <3> QED BY <1>10, <2>2, <3>1 DEF WaitsFor
  <2> QED BY <1>1, <2>1, <2>2, NewWaitForFree
<1> QED BY <1>11, <1>12, <1>13, <1>16, <1>17, <1>18, <1>19, <1>20 DEF NetInv

\* The next send of a departure: who is told is connected, so nobody keeps its lock.
LEMMA TellStep ==
  ASSUME NetInv, NEW t \in Workers, NEW n \in Sessions, Tell(t, n)
  PROVE  NetInv'
<1> DEFINE w == [worker[t] EXCEPT !.rest = @ \ {n},
                                  !.step = IF conn[n].connected THEN "tell" ELSE @,
                                  !.other = IF conn[n].connected THEN n ELSE @]
<1>1. NetTypeOK /\ Sound /\ Aimed /\ Departing /\ Apart /\ Kept /\ Dropping /\ NoLockCycle
  BY DEF NetInv
<1>2. /\ worker[t].step = "leave"
      /\ worker' = [worker EXCEPT ![t] = w]
      /\ UNCHANGED <<conn, lock, served, sends, farewells, debt>>
  BY <1>1 DEF Tell, NetTypeOK
<1>3. /\ w \in Worker
      /\ w.s = worker[t].s
      /\ w.step \in {"leave", "tell"}
      /\ w.step = "tell" => conn[n].connected /\ w.other = n
  <2>1. worker[t] \in Worker
    BY <1>1 DEF NetTypeOK
  <2>2. CASE conn[n].connected
    BY <2>1, <2>2 DEF Worker, Steps, Target
  <2>3. CASE ~ conn[n].connected
    BY <1>2, <2>1, <2>3 DEF Worker, Steps, Target
  <2> QED BY <2>2, <2>3
<1> HIDE DEF w
<1>4. \A u \in Workers : worker'[u] = IF u = t THEN w ELSE worker[u]
  BY <1>1, <1>2 DEF NetTypeOK
<1>5. NetTypeOK' /\ Sound'
  BY <1>1, <1>2, <1>3 DEF NetTypeOK, Sound
<1>6. \A u \in Workers : /\ Leaving(u)' <=> Leaving(u)
                         /\ worker'[u].s = worker[u].s
                         /\ worker'[u].step = "drop" => worker[u].step = "drop"
  BY <1>2, <1>3, <1>4 DEF Leaving
<1>7. Aimed'
  BY <1>1, <1>2, <1>3, <1>4 DEF Aimed
<1>8. Departing' /\ Apart' /\ Dropping'
  BY <1>1, <1>2, <1>6 DEF Departing, Apart, Dropping
<1>9. Kept'
  BY <1>1, <1>2, <1>6 DEF Kept, NetTypeOK
<1>10. NoLockCycle'
  <2>1. \A u \in Workers : ~ (worker'[t].step = "tell" /\ lock'[worker'[t].other] = u)
    <3>1. conn[n].connected => lock[n] = NoWorker
      BY <1>1, ConnectedIsFree DEF Sound, SoundConn
    <3> QED BY <1>2, <1>3, <1>4, <3>1, NetAssumption
  <2>2. \A v, u \in Workers \ {t} :
          worker'[v].step = "tell" /\ lock'[worker'[v].other] = u => WaitsFor(v, u)
    BY <1>2, <1>4 DEF WaitsFor
  <2> QED BY <1>1, <2>1, <2>2, NewWaitForFree
<1> QED BY <1>5, <1>7, <1>8, <1>9, <1>10 DEF NetInv

\* The end of a departure.
LEMMA LeftStep ==
  ASSUME NetInv, NEW t \in Workers, Left(t)
  PROVE  NetInv'
<1> DEFINE s == worker[t].s
           c == [conn[s] EXCEPT !.registered = IF lock[s] = t THEN FALSE ELSE @]
<1>1. NetTypeOK /\ Sound /\ Aimed /\ Departing /\ Apart /\ Kept /\ Dropping /\ NoLockCycle
  BY DEF NetInv
<1>2. Leaving(t) /\ s \in Sessions /\ s \in served /\ conn[s].ending = "done"
  BY <1>1 DEF Left, Leaving, Departing, NetTypeOK
<1>3. /\ conn' = [conn EXCEPT ![s] = c]
      /\ worker' = [worker EXCEPT ![t] = Resting]
      /\ lock' = [lock EXCEPT ![s] = IF @ = t THEN NoWorker ELSE @]
      /\ served' = served \ {s}
      /\ UNCHANGED <<sends, farewells, debt>>
  BY <1>1 DEF Left, Rest, NetTypeOK
<1>4. /\ c \in Conn
      /\ c.connected = conn[s].connected /\ c.ending = conn[s].ending
      /\ c.cause = conn[s].cause /\ c.kicked = conn[s].kicked
  <2>1. conn[s] \in Conn
    BY <1>1, <1>2 DEF NetTypeOK
  <2> QED BY <2>1 DEF Conn
<1>5. SoundConn(conn[s], farewells[s], debt[s], s \in served)
  BY <1>1, <1>2 DEF Sound
<1> HIDE DEF c, s
<1>6. SoundConn(c, farewells[s], debt[s], FALSE)
  BY <1>2, <1>4, <1>5 DEF SoundConn
<1>7. Resting \in Worker /\ Resting.step = "idle"
  BY DEF Resting, Worker, Steps, Target
<1>8. /\ \A x \in Sessions : conn'[x] = IF x = s THEN c ELSE conn[x]
      /\ \A u \in Workers : worker'[u] = IF u = t THEN Resting ELSE worker[u]
      /\ \A x \in Sessions : lock'[x] = IF x = s /\ lock[s] = t THEN NoWorker ELSE lock[x]
  BY <1>1, <1>2, <1>3 DEF NetTypeOK
<1>9. NetTypeOK'
  BY <1>1, <1>3, <1>4, <1>7 DEF NetTypeOK
<1>10. Sound'
  <2> SUFFICES ASSUME NEW x \in Sessions
               PROVE  SoundConn(conn'[x], farewells[x], debt[x], x \in served')
    BY <1>3 DEF Sound
  <2>1. CASE x = s
    <3>1. conn'[x] = c /\ (x \in served') = FALSE
      BY <1>3, <1>8, <2>1
    <3> QED BY <1>6, <2>1, <3>1
  <2>2. CASE x # s
    <3>1. conn'[x] = conn[x] /\ (x \in served') = (x \in served)
      BY <1>3, <1>8, <2>2
    <3> QED BY <1>1, <3>1 DEF Sound
  <2> QED BY <2>1, <2>2
<1>11. Aimed'
  BY <1>1, <1>7, <1>8 DEF Aimed
<1>12. \A u \in Workers : Leaving(u)' => u # t /\ Leaving(u) /\ worker'[u] = worker[u]
                                         /\ worker[u].s # s
  <2>1. \A u \in Workers : Leaving(u)' => u # t /\ Leaving(u) /\ worker'[u] = worker[u]
    BY <1>7, <1>8 DEF Leaving
  <2> QED BY <1>1, <1>2, <2>1 DEF Apart, s
<1>13. Departing' /\ Apart'
  <2>1. Apart'
    BY <1>1, <1>12 DEF Apart
  <2>2. ASSUME NEW u \in Workers, Leaving(u)'
        PROVE  worker'[u].s \in served' /\ conn'[worker'[u].s].ending = "done"
    <3>1. worker[u].s \in served /\ conn[worker[u].s].ending = "done"
      BY <1>1, <1>12, <2>2 DEF Departing
    <3>2. worker[u].s \in Sessions
      BY <1>1, <3>1 DEF NetTypeOK
    <3> QED BY <1>3, <1>8, <1>12, <2>2, <3>1, <3>2
  <2> QED BY <2>1, <2>2 DEF Departing
<1>14. Kept'
  <2> SUFFICES ASSUME NEW x \in Sessions, lock'[x] # NoWorker
               PROVE  /\ worker'[lock'[x]].step \in {"leave", "tell"}
                      /\ worker'[lock'[x]].s = x
    BY DEF Kept, Leaving
  <2>1. lock'[x] = lock[x] /\ ~ (x = s /\ lock[x] = t)
    BY <1>8
  <2>2. Leaving(lock[x]) /\ worker[lock[x]].s = x /\ lock[x] \in Workers
    BY <1>1, <2>1 DEF Kept, NetTypeOK
  <2>3. lock[x] # t
    BY <2>1, <2>2 DEF s
  <2> QED BY <1>8, <2>1, <2>2, <2>3 DEF Leaving
<1>15. Dropping'
  <2> SUFFICES ASSUME NEW u \in Workers, worker'[u].step = "drop"
               PROVE  /\ conn'[worker'[u].s].kicked
                      /\ conn'[worker'[u].s].connected => debt[worker'[u].s] = 0
    BY <1>3 DEF Dropping
  <2>1. worker'[u] = worker[u]
    BY <1>7, <1>8
  <2>2. /\ worker[u].s \in Sessions
        /\ conn[worker[u].s].kicked
        /\ conn[worker[u].s].connected => debt[worker[u].s] = 0
    BY <1>1, <2>1 DEF Aimed, Dropping
  <2> QED BY <1>4, <1>8, <2>1, <2>2
<1>16. NoLockCycle'
  <2>1. ASSUME NEW v \in Workers, NEW u \in Workers,
               worker'[v].step = "tell", lock'[worker'[v].other] = u
        PROVE  WaitsFor(v, u)
    <3>1. worker'[v] = worker[v] /\ worker[v].other \in Sessions
      BY <1>1, <1>7, <1>8, <2>1 DEF Aimed
    <3> QED BY <1>8, <2>1, <3>1, NetAssumption DEF WaitsFor
  <2> QED BY <1>1, <2>1, NoNewWait
<1> QED BY <1>9, <1>10, <1>11, <1>13, <1>14, <1>15, <1>16 DEF NetInv

\* The end of a send to n inside a departure, whatever became of n.
LEMMA ToldOutcome ==
  ASSUME NetInv, NEW t \in Workers, worker[t].step = "tell",
         NEW n \in Sessions, NEW c \in Conn, NEW f \in Nat,
         NEW w \in Worker, worker' = [worker EXCEPT ![t] = w],
         w.step = "leave", w.s = worker[t].s,
         conn' = [conn EXCEPT ![n] = c],
         farewells' = [farewells EXCEPT ![n] = f],
         served' = served \/ (served' = served \ {n} /\ conn[n].ending # "done"),
         UNCHANGED <<lock, sends, debt>>,
         SoundConn(c, f, debt[n], n \in served'),
         conn[n].ending = "done" => c.ending = "done",
         conn[n].kicked => c.kicked,
         conn[n].kicked /\ c.connected => conn[n].connected
  PROVE  NetInv'
<1>1. NetTypeOK /\ Sound /\ Aimed /\ Departing /\ Apart /\ Kept /\ Dropping /\ NoLockCycle
  BY DEF NetInv
<1>4. /\ \A u \in Workers : worker'[u] = IF u = t THEN w ELSE worker[u]
      /\ \A x \in Sessions : conn'[x] = IF x = n THEN c ELSE conn[x]
      /\ \A x \in Sessions : farewells'[x] = IF x = n THEN f ELSE farewells[x]
  BY <1>1 DEF NetTypeOK
<1>5. NetTypeOK'
  BY <1>1 DEF NetTypeOK
<1>6. Sound'
  <2> SUFFICES ASSUME NEW x \in Sessions
               PROVE  SoundConn(conn'[x], farewells'[x], debt[x], x \in served')
    BY DEF Sound
  <2>1. CASE x = n
    BY <1>4, <2>1
  <2>2. CASE x # n
    <3>1. (x \in served') = (x \in served)
      BY <2>2
    <3> QED BY <1>1, <1>4, <2>2, <3>1 DEF Sound
  <2> QED BY <2>1, <2>2
<1>7. \A u \in Workers : /\ worker'[u].step \in {"leave", "tell"} => Leaving(u)
                         /\ Leaving(u) => worker'[u].step \in {"leave", "tell"}
                         /\ worker'[u].s = worker[u].s
                         /\ worker'[u].step = "drop" => worker[u].step = "drop"
                         /\ worker'[u].step = "tell" => worker'[u] = worker[u]
  BY <1>4 DEF Leaving
<1>8. Aimed'
  BY <1>1, <1>4 DEF Aimed
<1>9. Departing'
  <2> SUFFICES ASSUME NEW u \in Workers, Leaving(u)
               PROVE  worker[u].s \in served' /\ conn'[worker[u].s].ending = "done"
    BY <1>7 DEF Departing, Leaving
  <2>1. worker[u].s \in served /\ conn[worker[u].s].ending = "done"
    BY <1>1 DEF Departing
  <2>2. worker[u].s \in Sessions
    BY <1>1, <2>1 DEF NetTypeOK
  <2> QED BY <1>4, <2>1, <2>2
<1>10. Apart'
  BY <1>1, <1>7 DEF Apart, Leaving
<1>11. Kept'
  BY <1>1, <1>7 DEF Kept, NetTypeOK, Leaving
<1>12. Dropping'
  <2> SUFFICES ASSUME NEW u \in Workers, worker'[u].step = "drop"
               PROVE  /\ conn'[worker'[u].s].kicked
                      /\ conn'[worker'[u].s].connected => debt[worker'[u].s] = 0
    BY DEF Dropping
  <2>1. /\ worker[u].s \in Sessions
        /\ conn[worker[u].s].kicked
        /\ conn[worker[u].s].connected => debt[worker[u].s] = 0
    BY <1>1, <1>7 DEF Aimed, Dropping
  <2>2. CASE worker[u].s = n
    BY <1>4, <1>7, <2>1, <2>2
  <2>3. CASE worker[u].s # n
    BY <1>4, <1>7, <2>1, <2>3
  <2> QED BY <2>2, <2>3
<1>13. NoLockCycle'
  <2>1. \A v, u \in Workers :
          worker'[v].step = "tell" /\ lock'[worker'[v].other] = u => WaitsFor(v, u)
    BY <1>7 DEF WaitsFor
  <2> QED BY <1>1, <2>1, NoNewWait
<1> QED BY <1>5, <1>6, <1>8, <1>9, <1>10, <1>11, <1>12, <1>13 DEF NetInv

LEMMA ToldStep ==
  ASSUME NetInv, NEW t \in Workers, Told(t)
  PROVE  NetInv'
<1> DEFINE w == [worker[t] EXCEPT !.step = "leave", !.other = NoSession]
           n == worker[t].other
           pushed == [conn[n] EXCEPT !.queue = @ + 1, !.registered = TRUE]
           taken == [pushed EXCEPT !.inFlight = @ + pushed.queue, !.queue = 0]
           refused == [pushed EXCEPT !.queue = 0, !.registered = FALSE, !.connected = FALSE]
           cut == [refused EXCEPT !.ending = "pending"]
           over == [refused EXCEPT !.ending = "done", !.closed = TRUE]
<1>1. NetTypeOK /\ Sound /\ Aimed
  BY DEF NetInv
<1>2. /\ worker[t].step = "tell"
      /\ worker' = [worker EXCEPT ![t] = w]
      /\ UNCHANGED <<lock, sends, debt>>
  BY <1>1 DEF Told, NetTypeOK
<1>a. w \in Worker /\ w.step = "leave" /\ w.s = worker[t].s
  BY <1>1 DEF NetTypeOK, Worker, Steps, Target
<1>3. n \in Sessions
  BY <1>1, <1>2 DEF Aimed
<1>4. /\ conn[n] \in Conn /\ farewells[n] \in Nat /\ debt[n] \in Nat
      /\ SoundConn(conn[n], farewells[n], debt[n], n \in served)
  BY <1>1, <1>3 DEF NetTypeOK, Sound
<1>5. /\ pushed \in Conn
      /\ pushed.queue = conn[n].queue + 1 /\ pushed.registered = TRUE
      /\ pushed.connected = conn[n].connected /\ pushed.inFlight = conn[n].inFlight
      /\ pushed.ending = conn[n].ending
      /\ pushed.cause = conn[n].cause /\ pushed.kicked = conn[n].kicked
  <2>1. conn[n] \in Conn
    BY <1>4
  <2>2. conn[n].queue + 1 \in Nat
    BY <2>1 DEF Conn
  <2> HIDE DEF n
  <2> QED BY <2>1, <2>2 DEF Conn
<1>6. CASE UNCHANGED <<conn, served, farewells>>
  <2>1. conn' = [conn EXCEPT ![n] = conn[n]] /\ farewells' = [farewells EXCEPT ![n] = farewells[n]]
    BY <1>1, <1>3, <1>6 DEF NetTypeOK
  <2> DEFINE c == conn[n]
  <2>2. /\ conn' = [conn EXCEPT ![n] = c] /\ c \in Conn
        /\ SoundConn(c, farewells[n], debt[n], n \in served')
        /\ c.ending = conn[n].ending /\ c.kicked = conn[n].kicked
        /\ c.connected = conn[n].connected /\ served' = served
    BY <1>4, <1>6, <2>1
  <2> HIDE DEF w, n, c
  <2> QED BY <1>2, <1>a, <1>3, <1>4, <2>1, <2>2, ToldOutcome
<1>7. CASE /\ conn[n].registered \/ ~ conn[n].connected
           /\ conn' = [conn EXCEPT ![n] = pushed]
           /\ UNCHANGED <<served, farewells>>
  <2>1. farewells' = [farewells EXCEPT ![n] = farewells[n]]
    BY <1>1, <1>3, <1>7 DEF NetTypeOK
  <2> HIDE DEF w, n, pushed
  <2>2. SoundConn(pushed, farewells[n], debt[n], n \in served)
    <3>1. conn[n].queue \in Nat /\ conn[n].inFlight \in Nat
      BY <1>4 DEF Conn
    <3> QED BY <1>4, <1>5, <1>7, <3>1 DEF SoundConn
  <2> QED BY <1>2, <1>a, <1>3, <1>4, <1>5, <1>7, <2>1, <2>2, ToldOutcome
<1>8. CASE /\ ~ conn[n].registered /\ conn[n].connected
           /\ conn' = [conn EXCEPT ![n] = taken]
           /\ UNCHANGED <<served, farewells>>
  <2>1. farewells' = [farewells EXCEPT ![n] = farewells[n]]
    BY <1>1, <1>3, <1>8 DEF NetTypeOK
  <2>2. /\ taken \in Conn
        /\ taken.queue = 0 /\ taken.registered = TRUE
        /\ taken.inFlight = conn[n].inFlight + (conn[n].queue + 1)
        /\ taken.connected = conn[n].connected /\ taken.ending = conn[n].ending
        /\ taken.cause = conn[n].cause /\ taken.kicked = conn[n].kicked
    <3>1. conn[n].inFlight + (conn[n].queue + 1) \in Nat
      BY <1>4 DEF Conn
    <3>2. taken = [pushed EXCEPT !.inFlight = conn[n].inFlight + (conn[n].queue + 1), !.queue = 0]
      BY <1>5
    <3> HIDE DEF n, pushed, taken
    <3> QED BY <1>5, <3>1, <3>2 DEF Conn
  <2> HIDE DEF w, n, pushed, taken
  <2>3. SoundConn(taken, farewells[n], debt[n], n \in served)
    <3>1. conn[n].queue \in Nat /\ conn[n].inFlight \in Nat
      BY <1>4 DEF Conn
    <3> QED BY <1>4, <1>8, <2>2, <3>1 DEF SoundConn
  <2> QED BY <1>2, <1>a, <1>3, <1>4, <1>8, <2>1, <2>2, <2>3, ToldOutcome
<1>9. CASE /\ ~ conn[n].registered /\ conn[n].connected
           /\ conn' = [conn EXCEPT ![n] = cut]
           /\ UNCHANGED <<served, farewells>>
  <2>1. farewells' = [farewells EXCEPT ![n] = farewells[n]]
    BY <1>1, <1>3, <1>9 DEF NetTypeOK
  <2>2. /\ cut \in Conn
        /\ cut.connected = FALSE /\ cut.ending = "pending"
        /\ cut.cause = conn[n].cause /\ cut.kicked = conn[n].kicked
    <3>1. conn[n] \in Conn
      BY <1>4
    <3> QED BY <3>1 DEF Conn
  <2> HIDE DEF w, n, cut
  <2>3. SoundConn(cut, farewells[n], debt[n], n \in served) /\ conn[n].ending = "no"
    BY <1>4, <1>9, <2>2 DEF SoundConn
  <2> QED BY <1>2, <1>a, <1>3, <1>4, <1>9, <2>1, <2>2, <2>3, ToldOutcome
<1>10. CASE /\ ~ conn[n].registered /\ conn[n].connected
            /\ conn' = [conn EXCEPT ![n] = over]
            /\ farewells' = [farewells EXCEPT ![n] = @ + 1]
            /\ served' = served \ {n}
  <2>1. conn[n].ending = "no" /\ farewells[n] = 0
    BY <1>4, <1>10 DEF SoundConn
  <2>2. farewells' = [farewells EXCEPT ![n] = 1]
    BY <1>1, <1>10, <2>1 DEF NetTypeOK
  <2>3. /\ over \in Conn
        /\ over.connected = FALSE /\ over.ending = "done"
        /\ over.cause = conn[n].cause /\ over.kicked = conn[n].kicked
    <3>1. conn[n] \in Conn
      BY <1>4
    <3> QED BY <3>1 DEF Conn
  <2> HIDE DEF w, n, over
  <2>4. SoundConn(over, 1, debt[n], n \in served')
    BY <1>4, <2>3 DEF SoundConn
  <2> QED BY <1>2, <1>a, <1>3, <1>4, <1>10, <2>1, <2>2, <2>3, <2>4, ToldOutcome
<1> QED BY <1>6, <1>7, <1>8, <1>9, <1>10 DEF Told

(***************************************************************************)
(* The actions, by way of the four kinds of step                           *)
(***************************************************************************)

\* A worker that is not in a departure goes to a step of session s.
LEMMA GoneTo ==
  ASSUME NetInv, NEW t \in Workers, NEW s \in Sessions,
         NEW step \in {"send", "reason", "kick", "drop"}, Goto(t, step, s)
  PROVE  /\ worker' \in [Workers -> Worker]
         /\ worker'[t].step = step /\ worker'[t].s = s
         /\ \A u \in Workers \ {t} : worker'[u] = worker[u]
<1> DEFINE w == [worker[t] EXCEPT !.step = step, !.s = s]
<1>1. worker \in [Workers -> Worker]
  BY DEF NetInv, NetTypeOK
<1>2. w \in Worker /\ w.step = step /\ w.s = s
  BY <1>1 DEF Worker, Steps, Target
<1>3. worker' = [worker EXCEPT ![t] = w]
  BY <1>1 DEF Goto
<1> HIDE DEF w
<1> QED BY <1>1, <1>2, <1>3

LEMMA Rested ==
  ASSUME NetInv, NEW t \in Workers, Rest(t)
  PROVE  /\ worker' \in [Workers -> Worker]
         /\ worker'[t].step = "idle"
         /\ \A u \in Workers \ {t} : worker'[u] = worker[u]
<1>1. worker \in [Workers -> Worker]
  BY DEF NetInv, NetTypeOK
<1>2. Resting \in Worker /\ Resting.step = "idle"
  BY DEF Resting, Worker, Steps, Target
<1>3. worker' = [worker EXCEPT ![t] = Resting]
  BY DEF Rest
<1> QED BY <1>1, <1>2, <1>3

LEMMA WentOn ==
  ASSUME NetInv, NEW t \in Workers, NEW then \in {"idle", "kick"}, Then(t, then)
  PROVE  /\ worker' \in [Workers -> Worker]
         /\ worker'[t].step = then
         /\ then # "idle" => worker'[t].s = worker[t].s
         /\ \A u \in Workers \ {t} : worker'[u] = worker[u]
<1>1. worker \in [Workers -> Worker]
  BY DEF NetInv, NetTypeOK
<1>2. CASE then = "idle"
  BY <1>2, Rested DEF Then, Rest
<1>3. CASE then = "kick"
  <2> DEFINE w == [worker[t] EXCEPT !.step = then]
  <2>1. w \in Worker /\ w.step = then /\ w.s = worker[t].s
    BY <1>1 DEF Worker, Steps
  <2>2. worker' = [worker EXCEPT ![t] = w]
    BY <1>1, <1>3 DEF Then
  <2> HIDE DEF w
  <2> QED BY <1>1, <2>1, <2>2
<1> QED BY <1>2, <1>3

\* The fields of a session as the invariant has them.
LEMMA FieldsOf ==
  ASSUME NetInv, NEW s \in Sessions
  PROVE  /\ conn[s] \in Conn /\ farewells[s] \in Nat /\ debt[s] \in Nat
         /\ conn[s].queue \in Nat /\ conn[s].inFlight \in Nat
         /\ SoundConn(conn[s], farewells[s], debt[s], s \in served)
  BY DEF NetInv, NetTypeOK, Sound, Conn

\* QuietStep of a worker t that moves on to a step of the same session.
LEMMA MoveStep ==
  ASSUME NetInv, NEW t \in Workers, NEW s \in Sessions, NEW c \in Conn, NEW d \in Nat,
         worker[t].step \notin {"leave", "tell"},
         worker' \in [Workers -> Worker],
         worker'[t].step \notin {"leave", "tell"},
         worker'[t].step # "idle" => worker'[t].s = s,
         worker'[t].step = "drop" => c.kicked /\ (c.connected => d = 0),
         \A u \in Workers \ {t} : worker'[u] = worker[u],
         conn' = [conn EXCEPT ![s] = c],
         debt' = [debt EXCEPT ![s] = d],
         sends' \in 0 .. MaxSends,
         UNCHANGED <<lock, served, farewells>>,
         SoundConn(c, farewells[s], d, s \in served),
         c.ending = conn[s].ending,
         conn[s].kicked => c.kicked,
         c.connected = conn[s].connected,
         conn[s].kicked /\ debt[s] = 0 => d = 0
  PROVE  NetInv'
<1>1. served \subseteq served' /\ served' \subseteq Sessions
  BY DEF NetInv, NetTypeOK
<1>2. SoundConn(c, farewells[s], d, s \in served')
  <2>1. (s \in served') = (s \in served)
    OBVIOUS
  <2> QED BY <2>1
<1>3. ASSUME NEW u \in Workers
      PROVE  \/ worker'[u] = worker[u]
             \/ /\ worker[u].step \notin {"leave", "tell"}
                /\ worker'[u].step \notin {"leave", "tell"}
                /\ worker'[u].step # "idle" => worker'[u].s \in Sessions
                /\ worker'[u].step = "drop" =>
                     worker'[u].s = s /\ c.kicked /\ (c.connected => d = 0)
  <2>1. CASE u = t
    BY <2>1
  <2>2. CASE u # t
    BY <2>2
  <2> QED BY <2>1, <2>2
<1>4. /\ conn[s].ending = "done" => c.ending = "done"
      /\ conn[s].kicked /\ c.connected => conn[s].connected
  OBVIOUS
<1> QED BY <1>1, <1>2, <1>3, <1>4, QuietStep

LEMMA DisconnectStep ==
  ASSUME NetInv, NEW t \in Workers, worker[t].step \notin {"leave", "tell"},
         NEW s \in Sessions, NEW c \in Conn, NEW held \in BOOLEAN, NEW d \in Nat,
         conn[s].connected, c.kicked = conn[s].kicked, c.cause = conn[s].cause,
         ~ c.kicked => d = 0,
         debt[s] = 0 => d = 0,
         Disconnect(t, s, c, held),
         debt' = [debt EXCEPT ![s] = d],
         UNCHANGED <<served, sends>>
  PROVE  NetInv'
<1>1. SoundConn(conn[s], farewells[s], debt[s], s \in served)
  BY FieldsOf
<1>2. sends \in 0 .. MaxSends /\ served \subseteq Sessions
  BY DEF NetInv, NetTypeOK
<1>3. CASE /\ conn' = [conn EXCEPT ![s] =
                        [c EXCEPT !.connected = FALSE, !.ending = "pending",
                                  !.registered = IF held THEN FALSE ELSE @]]
           /\ Rest(t)
           /\ UNCHANGED <<lock, farewells>>
  <2> DEFINE e == [c EXCEPT !.connected = FALSE, !.ending = "pending",
                            !.registered = IF held THEN FALSE ELSE @]
  <2>1. /\ e \in Conn /\ e.connected = FALSE /\ e.ending = "pending"
        /\ e.cause = c.cause /\ e.kicked = c.kicked
    BY DEF Conn
  <2>2. conn' = [conn EXCEPT ![s] = e]
    BY <1>3
  <2> HIDE DEF e
  <2>3. SoundConn(e, farewells[s], d, s \in served) /\ conn[s].ending = "no"
    BY <1>1, <2>1 DEF SoundConn
  <2>4. SoundConn(e, farewells[s], d, s \in served')
    BY <2>3
  <2>5. \A u \in Workers : worker'[u] = worker[u] \/ (u = t /\ worker'[u].step = "idle")
    BY <1>3, Rested
  <2>6. worker' \in [Workers -> Worker] /\ UNCHANGED <<lock, farewells>>
    BY <1>3, Rested
  <2> QED BY <1>2, <2>1, <2>2, <2>3, <2>4, <2>5, <2>6, QuietStep
<1>4. CASE ProcessDisconnect(t, s, [c EXCEPT !.closed = TRUE], held)
  <2> DEFINE e == [c EXCEPT !.closed = TRUE]
  <2>1. e \in Conn /\ e.cause = c.cause /\ e.kicked = c.kicked
    BY DEF Conn
  <2> HIDE DEF e
  <2>2. ProcessDisconnect(t, s, e, held)
    BY <1>4 DEF e
  <2>3. ~ Leaving(t)
    BY DEF Leaving
  <2> QED BY <2>1, <2>2, <2>3, FarewellStep
<1> QED BY <1>3, <1>4 DEF Disconnect

\* RegisterSend: the fields c hold a packet and are registered.
LEMMA RegisterStep ==
  ASSUME NetInv, NEW t \in Workers, worker[t].step \notin {"leave", "tell"},
         NEW s \in Sessions, NEW c \in Conn, NEW d \in Nat, NEW then \in {"idle", "kick"},
         then = "kick" => worker[t].s = s,
         c.queue > 0, c.connected => c.registered,
         c.connected = conn[s].connected, c.ending = conn[s].ending,
         c.kicked = conn[s].kicked, c.cause = conn[s].cause,
         c.connected => d <= c.queue,
         ~ c.kicked => d = 0,
         debt[s] = 0 => d = 0,
         RegisterSend(t, s, c, then),
         debt' = [debt EXCEPT ![s] = d],
         UNCHANGED <<served, sends>>
  PROVE  NetInv'
<1>1. SoundConn(conn[s], farewells[s], debt[s], s \in served)
  BY FieldsOf
<1>2. sends \in 0 .. MaxSends /\ served \subseteq Sessions
  BY DEF NetInv, NetTypeOK
<1>3. CASE /\ conn' = [conn EXCEPT ![s] =
                        IF c.connected THEN [c EXCEPT !.inFlight = c.queue, !.queue = 0] ELSE c]
           /\ Then(t, then)
           /\ UNCHANGED <<lock, farewells>>
  <2> DEFINE e == IF c.connected THEN [c EXCEPT !.inFlight = c.queue, !.queue = 0] ELSE c
  <2>1. /\ e \in Conn /\ e.connected = c.connected /\ e.ending = c.ending
        /\ e.cause = c.cause /\ e.kicked = c.kicked /\ e.registered = c.registered
        /\ e.connected => e.inFlight = c.queue /\ e.queue = 0
    <3>1. CASE c.connected
      BY <3>1 DEF Conn
    <3>2. CASE ~ c.connected
      BY <3>2 DEF Conn
    <3> QED BY <3>1, <3>2
  <2>2. conn' = [conn EXCEPT ![s] = e]
    BY <1>3
  <2>3. c.queue \in Nat
    BY DEF Conn
  <2> HIDE DEF e
  <2>4. SoundConn(e, farewells[s], d, s \in served)
    BY <1>1, <2>1, <2>3 DEF SoundConn
  <2>5. SoundConn(e, farewells[s], d, s \in served')
    BY <2>4
  <2>6. /\ worker' \in [Workers -> Worker]
        /\ \A u \in Workers : \/ worker'[u] = worker[u]
                              \/ /\ u = t /\ worker'[u].step \in {"idle", "kick"}
                                 /\ worker'[u].step = "kick" => worker'[u].s = s
        /\ UNCHANGED <<lock, farewells>>
    BY <1>3, WentOn
  <2>7. /\ conn[s].ending = "done" => e.ending = "done"
        /\ conn[s].kicked => e.kicked
        /\ conn[s].kicked /\ e.connected => conn[s].connected
    BY <2>1
  <2>8. ASSUME NEW u \in Workers
        PROVE  \/ worker'[u] = worker[u]
               \/ /\ worker[u].step \notin {"leave", "tell"}
                  /\ worker'[u].step \notin {"leave", "tell"}
                  /\ worker'[u].step # "idle" => worker'[u].s \in Sessions
                  /\ worker'[u].step = "drop" =>
                       worker'[u].s = s /\ e.kicked /\ (e.connected => d = 0)
    BY <2>6
  <2>9. e \in Conn /\ sends' \in 0 .. MaxSends
    BY <1>2, <2>1
  <2> QED BY <1>2, <2>2, <2>5, <2>6, <2>7, <2>8, <2>9, QuietStep
<1>4. CASE c.connected /\ Disconnect(t, s, [c EXCEPT !.queue = 0], TRUE)
  <2> DEFINE e == [c EXCEPT !.queue = 0]
  <2>1. e \in Conn /\ e.cause = c.cause /\ e.kicked = c.kicked
    BY DEF Conn
  <2> HIDE DEF e
  <2>2. Disconnect(t, s, e, TRUE)
    BY <1>4 DEF e
  <2> QED BY <1>4, <2>1, <2>2, DisconnectStep
<1> QED BY <1>3, <1>4 DEF RegisterSend

LEMMA ConnectStep ==
  ASSUME NetInv, NEW s \in Sessions, ProcessConnect(s)
  PROVE  NetInv'
<1> DEFINE c == [NewConn EXCEPT !.connected = TRUE]
<1>1. NetTypeOK
  BY DEF NetInv
<1>2. /\ conn[s] = NewConn
      /\ served' = served \cup {s}
      /\ conn' = [conn EXCEPT ![s] = c]
      /\ UNCHANGED <<lock, worker, sends, farewells, debt>>
  BY <1>1 DEF ProcessConnect, NetTypeOK
<1>3. debt' = [debt EXCEPT ![s] = debt[s]]
  BY <1>1, <1>2 DEF NetTypeOK
<1>4. NewConn.ending = "no" /\ NewConn.kicked = FALSE /\ NewConn.cause = FALSE
  BY DEF NewConn
<1>5. farewells[s] = 0 /\ debt[s] = 0
  <2>1. SoundConn(NewConn, farewells[s], debt[s], s \in served)
    BY <1>2, FieldsOf
  <2> QED BY <1>4, <2>1 DEF SoundConn
<1>6. /\ c \in Conn /\ c.ending = "no" /\ c.kicked = FALSE /\ c.cause = FALSE
      /\ c.registered = FALSE /\ c.queue = 0 /\ c.inFlight = 0
  BY DEF NewConn, Conn
<1> HIDE DEF c
<1>7. s \in served'
  BY <1>2
<1>8. SoundConn(c, farewells[s], debt[s], s \in served')
  BY <1>5, <1>6, <1>7 DEF SoundConn
<1>9. /\ worker' \in [Workers -> Worker] /\ sends' \in 0 .. MaxSends
      /\ served \subseteq served' /\ served' \subseteq Sessions
      /\ debt[s] \in Nat
  BY <1>1, <1>2 DEF NetTypeOK
<1>10. conn[s].ending = "no" /\ conn[s].kicked = FALSE
  BY <1>2, <1>4
<1> QED BY <1>2, <1>3, <1>6, <1>8, <1>9, <1>10, QuietStep

LEMMA DisconnectTimeoutStep ==
  ASSUME NetInv, NEW s \in Sessions, DisconnectTimeout(s)
  PROVE  NetInv'
<1> DEFINE c == [conn[s] EXCEPT !.closed = TRUE]
<1>1. NetTypeOK
  BY DEF NetInv
<1>2. /\ conn' = [conn EXCEPT ![s] = c]
      /\ UNCHANGED <<lock, worker, served, sends, farewells, debt>>
  BY <1>1 DEF DisconnectTimeout, NetTypeOK
<1>3. debt' = [debt EXCEPT ![s] = debt[s]]
  BY <1>1, <1>2 DEF NetTypeOK
<1>4. /\ c \in Conn /\ c.ending = conn[s].ending /\ c.kicked = conn[s].kicked
      /\ c.cause = conn[s].cause /\ c.connected = conn[s].connected
      /\ c.registered = conn[s].registered /\ c.queue = conn[s].queue
      /\ c.inFlight = conn[s].inFlight
  BY <1>1 DEF NetTypeOK, Conn
<1> HIDE DEF c
<1>5. SoundConn(c, farewells[s], debt[s], s \in served')
  <2>1. SoundConn(conn[s], farewells[s], debt[s], s \in served)
    BY FieldsOf
  <2>2. SoundConn(c, farewells[s], debt[s], s \in served)
    BY <1>4, <2>1 DEF SoundConn
  <2> QED BY <1>2, <2>2
<1>6. /\ worker' \in [Workers -> Worker] /\ sends' \in 0 .. MaxSends
      /\ served \subseteq served' /\ served' \subseteq Sessions
      /\ debt[s] \in Nat
  BY <1>1, <1>2 DEF NetTypeOK
<1> QED BY <1>2, <1>3, <1>4, <1>5, <1>6, QuietStep

LEMMA BeginStep ==
  ASSUME NetInv, NEW t \in Workers, NEW s \in Sessions, BeginSend(t, s) \/ BeginKick(t, s)
  PROVE  NetInv'
<1> DEFINE c == conn[s]
<1>1. NetTypeOK
  BY DEF NetInv
<1>2. /\ worker[t].step = "idle"
      /\ \E step \in {"send", "reason", "kick"} : Goto(t, step, s)
      /\ sends' = sends + 1 /\ sends < MaxSends
      /\ UNCHANGED <<conn, lock, served, farewells, debt>>
  BY DEF BeginSend, BeginKick, Idle
<1>3. /\ conn' = [conn EXCEPT ![s] = c] /\ debt' = [debt EXCEPT ![s] = debt[s]]
      /\ sends' \in 0 .. MaxSends
  BY <1>1, <1>2, NetAssumption DEF NetTypeOK
<1>4. SoundConn(c, farewells[s], debt[s], s \in served) /\ c \in Conn /\ debt[s] \in Nat
  BY FieldsOf
<1>5. /\ worker' \in [Workers -> Worker]
      /\ worker'[t].step \in {"send", "reason", "kick"} /\ worker'[t].s = s
      /\ \A u \in Workers \ {t} : worker'[u] = worker[u]
  BY <1>2, GoneTo
<1>6. c.ending = conn[s].ending /\ c.kicked = conn[s].kicked /\ c.connected = conn[s].connected
  OBVIOUS
<1>7. /\ worker[t].step \notin {"leave", "tell"} /\ worker'[t].step \notin {"leave", "tell"}
      /\ worker'[t].step # "idle" => worker'[t].s = s
      /\ worker'[t].step # "drop"
      /\ UNCHANGED <<lock, served, farewells>>
  BY <1>2, <1>5
<1>8. worker' \in [Workers -> Worker] /\ \A u \in Workers \ {t} : worker'[u] = worker[u]
  BY <1>5
<1> HIDE DEF c
<1> QED BY <1>3, <1>4, <1>6, <1>7, <1>8, MoveStep

LEMMA SendStep ==
  ASSUME NetInv, NEW t \in Workers, Send(t)
  PROVE  NetInv'
<1> DEFINE s == worker[t].s
           c == conn[s]
           pushed == [conn[s] EXCEPT !.queue = @ + 1, !.registered = TRUE]
           then == IF worker[t].step = "reason" THEN "kick" ELSE "idle"
<1>1. NetTypeOK /\ Aimed
  BY DEF NetInv
<1>2. /\ worker[t].step \in {"send", "reason"}
      /\ UNCHANGED <<served, sends, debt>>
  BY DEF Send
<1>3. s \in Sessions /\ then \in {"idle", "kick"}
  BY <1>1, <1>2 DEF Aimed
<1>4. /\ conn[s] \in Conn /\ debt[s] \in Nat
      /\ conn[s].queue \in Nat /\ conn[s].inFlight \in Nat
      /\ SoundConn(conn[s], farewells[s], debt[s], s \in served)
  BY <1>3, FieldsOf
<1>5. /\ pushed \in Conn
      /\ pushed.queue = conn[s].queue + 1 /\ pushed.registered = TRUE
      /\ pushed.connected = conn[s].connected /\ pushed.inFlight = conn[s].inFlight
      /\ pushed.ending = conn[s].ending
      /\ pushed.cause = conn[s].cause /\ pushed.kicked = conn[s].kicked
  <2>1. conn[s].queue + 1 \in Nat
    BY <1>4
  <2> HIDE DEF s
  <2> QED BY <1>4, <2>1 DEF Conn
<1>6. debt' = [debt EXCEPT ![s] = debt[s]]
  BY <1>1, <1>2 DEF NetTypeOK
<1>7. sends' \in 0 .. MaxSends
  BY <1>1, <1>2 DEF NetTypeOK
<1>8. ASSUME Then(t, then)
      PROVE  /\ worker' \in [Workers -> Worker]
             /\ worker'[t].step \in {"idle", "kick"}
             /\ worker'[t].step # "idle" => worker'[t].s = s
             /\ \A u \in Workers \ {t} : worker'[u] = worker[u]
  BY <1>3, <1>8, WentOn
<1> HIDE DEF then
<1>9. CASE conn[s].cause /\ Then(t, then) /\ UNCHANGED <<conn, lock, farewells>>
  <2>1. /\ conn' = [conn EXCEPT ![s] = c] /\ c \in Conn
        /\ c.ending = conn[s].ending /\ c.kicked = conn[s].kicked
        /\ c.connected = conn[s].connected
    BY <1>1, <1>4, <1>9 DEF NetTypeOK
  <2>2. SoundConn(c, farewells[s], debt[s], s \in served)
    BY <1>4
  <2>3. UNCHANGED <<lock, served, farewells>> /\ worker[t].step \notin {"leave", "tell"}
    BY <1>2, <1>9
  <2>4. /\ worker'[t].step \notin {"leave", "tell"}
        /\ worker'[t].step # "idle" => worker'[t].s = s
        /\ worker'[t].step # "drop"
        /\ worker' \in [Workers -> Worker]
        /\ \A u \in Workers \ {t} : worker'[u] = worker[u]
    BY <1>8, <1>9
  <2> HIDE DEF s, c
  <2>5. s \in Sessions /\ debt[s] \in Nat
    BY <1>3, <1>4
  <2> QED BY <1>6, <1>7, <2>1, <2>2, <2>3, <2>4, <2>5, MoveStep
<1>10. CASE ~ conn[s].registered /\ RegisterSend(t, s, pushed, then)
  <2>1. pushed.connected => debt[s] <= pushed.queue
    <3> HIDE DEF s, pushed
    <3> QED BY <1>4, <1>5, <1>10 DEF SoundConn
  <2>2. ~ pushed.kicked => debt[s] = 0
    <3> HIDE DEF s, pushed
    <3> QED BY <1>4, <1>5 DEF SoundConn
  <2>3. pushed.queue > 0
    BY <1>4, <1>5
  <2>4. worker[t].step \notin {"leave", "tell"} /\ (then = "kick" => worker[t].s = s)
    BY <1>2
  <2>5. /\ pushed \in Conn /\ (pushed.connected => pushed.registered)
        /\ pushed.connected = conn[s].connected /\ pushed.ending = conn[s].ending
        /\ pushed.kicked = conn[s].kicked /\ pushed.cause = conn[s].cause
    BY <1>5
  <2>6. UNCHANGED <<served, sends>> /\ debt[s] \in Nat
    BY <1>2, <1>4
  <2>7. RegisterSend(t, s, pushed, then)
    BY <1>10
  <2> HIDE DEF s, pushed
  <2> QED BY <1>3, <1>6, <2>1, <2>2, <2>3, <2>4, <2>5, <2>6, <2>7, RegisterStep
<1>11. CASE /\ conn[s].registered
            /\ conn' = [conn EXCEPT ![s] = pushed]
            /\ Then(t, then)
            /\ UNCHANGED <<lock, farewells>>
  <2> HIDE DEF s, pushed
  <2>1. SoundConn(pushed, farewells[s], debt[s], s \in served)
    BY <1>4, <1>5, <1>11 DEF SoundConn
  <2>2. UNCHANGED <<lock, served, farewells>> /\ worker[t].step \notin {"leave", "tell"}
    BY <1>2, <1>11
  <2>3. /\ worker'[t].step \notin {"leave", "tell"}
        /\ worker'[t].step # "idle" => worker'[t].s = s
        /\ worker'[t].step # "drop"
        /\ worker' \in [Workers -> Worker]
        /\ \A u \in Workers \ {t} : worker'[u] = worker[u]
    BY <1>8, <1>11
  <2>4. s \in Sessions /\ debt[s] \in Nat /\ conn' = [conn EXCEPT ![s] = pushed]
    BY <1>3, <1>4, <1>11
  <2>5. /\ pushed \in Conn /\ pushed.ending = conn[s].ending
        /\ pushed.kicked = conn[s].kicked /\ pushed.connected = conn[s].connected
    BY <1>5
  <2> QED BY <1>6, <1>7, <2>1, <2>2, <2>3, <2>4, <2>5, MoveStep
<1> QED BY <1>9, <1>10, <1>11 DEF Send, then

LEMMA ProcessSendStep ==
  ASSUME NetInv, NEW t \in Workers, NEW s \in Sessions, ProcessSend(t, s)
  PROVE  NetInv'
<1> DEFINE sent == [conn[s] EXCEPT !.inFlight = 0]
           quiet == [conn[s] EXCEPT !.inFlight = 0, !.registered = FALSE]
           d == IF debt[s] < conn[s].inFlight THEN 0 ELSE debt[s] - conn[s].inFlight
<1>1. NetTypeOK
  BY DEF NetInv
<1>2. /\ worker[t].step \notin {"leave", "tell"} /\ conn[s].inFlight > 0
      /\ UNCHANGED <<served, sends>>
  BY DEF ProcessSend, Idle
<1>3. /\ conn[s] \in Conn /\ debt[s] \in Nat
      /\ conn[s].queue \in Nat /\ conn[s].inFlight \in Nat
      /\ SoundConn(conn[s], farewells[s], debt[s], s \in served)
  BY FieldsOf
<1>4. debt' = [debt EXCEPT ![s] = d] /\ d \in Nat /\ (debt[s] = 0 => d = 0)
  <2>1. debt' = [debt EXCEPT ![s] = d]
    BY <1>1 DEF ProcessSend, NetTypeOK
  <2>2. d \in Nat /\ (debt[s] = 0 => d = 0)
    BY <1>2, <1>3
  <2> QED BY <2>1, <2>2
<1>5. /\ sent \in Conn /\ sent.queue = conn[s].queue
      /\ sent.registered = conn[s].registered /\ sent.connected = conn[s].connected
      /\ sent.ending = conn[s].ending
      /\ sent.cause = conn[s].cause /\ sent.kicked = conn[s].kicked
  BY <1>3 DEF Conn
<1>6. /\ quiet \in Conn /\ quiet.queue = conn[s].queue /\ quiet.inFlight = 0
      /\ quiet.registered = FALSE /\ quiet.connected = conn[s].connected
      /\ quiet.ending = conn[s].ending
      /\ quiet.cause = conn[s].cause /\ quiet.kicked = conn[s].kicked
  BY <1>3 DEF Conn
<1>7. /\ ~ conn[s].kicked => d = 0
      /\ conn[s].connected => d <= conn[s].queue
  BY <1>2, <1>3 DEF SoundConn
<1>8. \/ conn[s].queue > 0 /\ RegisterSend(t, s, sent, "idle")
      \/ /\ conn[s].queue = 0
         /\ conn' = [conn EXCEPT ![s] = quiet]
         /\ IF conn[s].cause THEN Goto(t, "drop", s) ELSE UNCHANGED worker
         /\ UNCHANGED <<lock, farewells>>
  <2>1. quiet = [sent EXCEPT !.registered = FALSE]
    BY <1>3 DEF Conn
  <2>2. IF sent.queue > 0 THEN RegisterSend(t, s, sent, "idle")
        ELSE /\ conn' = [conn EXCEPT ![s] = [sent EXCEPT !.registered = FALSE]]
             /\ IF sent.cause THEN Goto(t, "drop", s) ELSE UNCHANGED worker
             /\ UNCHANGED <<lock, farewells>>
    BY DEF ProcessSend
  <2> HIDE DEF sent, quiet
  <2> QED BY <1>3, <1>5, <2>1, <2>2
<1>9. CASE conn[s].queue > 0 /\ RegisterSend(t, s, sent, "idle")
  <2>1. /\ sent.queue > 0 /\ (sent.connected => sent.registered)
        /\ sent.connected => d <= sent.queue
        /\ ~ sent.kicked => d = 0
    <3> HIDE DEF sent, d
    <3> QED BY <1>2, <1>3, <1>5, <1>7, <1>9 DEF SoundConn
  <2>2. RegisterSend(t, s, sent, "idle")
    BY <1>9
  <2> HIDE DEF sent, d
  <2> QED BY <1>2, <1>4, <1>5, <2>1, <2>2, RegisterStep
<1>10. CASE /\ conn[s].queue = 0
            /\ conn' = [conn EXCEPT ![s] = quiet]
            /\ IF conn[s].cause THEN Goto(t, "drop", s) ELSE UNCHANGED worker
            /\ UNCHANGED <<lock, farewells>>
  <2> HIDE DEF quiet, d
  <2>1. SoundConn(quiet, farewells[s], d, s \in served)
    BY <1>3, <1>6, <1>7, <1>10 DEF SoundConn
  <2>2. /\ worker' \in [Workers -> Worker]
        /\ \A u \in Workers \ {t} : worker'[u] = worker[u]
        /\ \/ conn[s].cause /\ worker'[t].step = "drop" /\ worker'[t].s = s
           \/ worker'[t] = worker[t]
    BY <1>1, <1>10, GoneTo DEF NetTypeOK
  <2>3. /\ conn' = [conn EXCEPT ![s] = quiet]
        /\ UNCHANGED <<lock, served, farewells>> /\ sends' \in 0 .. MaxSends
    BY <1>1, <1>2, <1>10 DEF NetTypeOK
  <2>4. worker[t].step = "idle"
    BY DEF ProcessSend, Idle
  <2>5. /\ worker'[t].step \notin {"leave", "tell"}
        /\ worker'[t].step # "idle" => worker'[t].s = s
    BY <2>2, <2>4
  <2>6. worker'[t].step = "drop" => quiet.kicked /\ (quiet.connected => d = 0)
    BY <1>3, <1>4, <1>6, <1>7, <1>10, <2>2, <2>4 DEF SoundConn
  <2>7. \A u \in Workers \ {t} : worker'[u] = worker[u]
    BY <2>2
  <2>8. worker' \in [Workers -> Worker] /\ worker[t].step \notin {"leave", "tell"}
    BY <2>2, <2>4
  <2>9. /\ quiet \in Conn /\ quiet.ending = conn[s].ending
        /\ quiet.kicked = conn[s].kicked /\ quiet.connected = conn[s].connected
    BY <1>6
  <2> QED BY <1>4, <2>1, <2>3, <2>5, <2>6, <2>7, <2>8, <2>9, MoveStep
<1> QED BY <1>8, <1>9, <1>10

LEMMA SendFailsStep ==
  ASSUME NetInv, NEW t \in Workers, NEW s \in Sessions, SendFails(t, s)
  PROVE  NetInv'
<1> DEFINE failed == [conn[s] EXCEPT !.inFlight = 0]
<1>1. NetTypeOK
  BY DEF NetInv
<1>2. /\ worker[t].step = "idle" /\ worker[t].step \notin {"leave", "tell"}
      /\ UNCHANGED <<served, sends>>
  BY DEF SendFails, Idle
<1>3. /\ conn[s] \in Conn /\ debt[s] \in Nat
      /\ SoundConn(conn[s], farewells[s], debt[s], s \in served)
  BY FieldsOf
<1>4. debt' = [debt EXCEPT ![s] = debt[s]]
  BY <1>1 DEF SendFails, NetTypeOK
<1>5. /\ failed \in Conn /\ failed.connected = conn[s].connected
      /\ failed.ending = conn[s].ending
      /\ failed.cause = conn[s].cause /\ failed.kicked = conn[s].kicked
  BY <1>3 DEF Conn
<1>6. \/ conn[s].connected /\ Disconnect(t, s, failed, FALSE)
      \/ /\ ~ conn[s].connected
         /\ conn' = [conn EXCEPT ![s] = failed] /\ UNCHANGED <<worker, lock, farewells>>
  <2>1. IF failed.connected THEN Disconnect(t, s, failed, FALSE)
        ELSE conn' = [conn EXCEPT ![s] = failed] /\ UNCHANGED <<worker, lock, farewells>>
    BY DEF SendFails
  <2> HIDE DEF failed
  <2> QED BY <1>5, <2>1
<1> HIDE DEF failed
<1>7. ~ failed.kicked => debt[s] = 0
  BY <1>3, <1>5 DEF SoundConn
<1>8. CASE conn[s].connected /\ Disconnect(t, s, failed, FALSE)
  <2>1. conn[s].connected /\ worker[t].step \notin {"leave", "tell"}
    BY <1>2, <1>8
  <2>2. Disconnect(t, s, failed, FALSE) /\ UNCHANGED <<served, sends>> /\ debt[s] \in Nat
    BY <1>2, <1>3, <1>8
  <2> QED BY <1>4, <1>5, <1>7, <2>1, <2>2, DisconnectStep
<1>9. CASE /\ ~ conn[s].connected
           /\ conn' = [conn EXCEPT ![s] = failed] /\ UNCHANGED <<worker, lock, farewells>>
  <2>1. SoundConn(failed, farewells[s], debt[s], s \in served)
    BY <1>3, <1>5, <1>9 DEF SoundConn
  <2>2. /\ worker' \in [Workers -> Worker] /\ worker'[t].step = "idle"
        /\ worker'[t].step \notin {"leave", "tell"}
        /\ \A u \in Workers \ {t} : worker'[u] = worker[u]
    BY <1>1, <1>2, <1>9 DEF NetTypeOK
  <2>3. /\ conn' = [conn EXCEPT ![s] = failed]
        /\ UNCHANGED <<lock, served, farewells>> /\ sends' \in 0 .. MaxSends
    BY <1>1, <1>2, <1>9 DEF NetTypeOK
  <2>4. worker[t].step \notin {"leave", "tell"} /\ debt[s] \in Nat
    BY <1>2, <1>3
  <2> QED BY <1>4, <1>5, <2>1, <2>2, <2>3, <2>4, MoveStep
<1> QED BY <1>6, <1>8, <1>9

LEMMA KickStep ==
  ASSUME NetInv, NEW t \in Workers, DisconnectAfterSend(t)
  PROVE  NetInv'
<1> DEFINE s == worker[t].s
           c == [conn[s] EXCEPT !.kicked = TRUE, !.cause = @ \/ conn[s].registered]
           d == IF conn[s].kicked THEN debt[s] ELSE conn[s].queue + conn[s].inFlight
<1>1. NetTypeOK /\ Aimed
  BY DEF NetInv
<1>2. /\ worker[t].step = "kick" /\ worker[t].step \notin {"leave", "tell"}
      /\ UNCHANGED <<lock, served, sends, farewells>>
      /\ IF conn[s].cause \/ conn[s].registered THEN Rest(t) ELSE Goto(t, "drop", s)
  BY DEF DisconnectAfterSend
<1>3. s \in Sessions
  BY <1>1, <1>2 DEF Aimed
<1>4. /\ conn[s] \in Conn /\ debt[s] \in Nat
      /\ conn[s].queue \in Nat /\ conn[s].inFlight \in Nat
      /\ SoundConn(conn[s], farewells[s], debt[s], s \in served)
  BY <1>3, FieldsOf
<1>5. debt' = [debt EXCEPT ![s] = d] /\ conn' = [conn EXCEPT ![s] = c]
  BY <1>1, <1>3 DEF DisconnectAfterSend, NetTypeOK
<1>6. d \in Nat /\ (conn[s].kicked /\ debt[s] = 0 => d = 0)
  BY <1>4
<1>7. /\ c \in Conn /\ c.kicked = TRUE /\ c.connected = conn[s].connected
      /\ c.ending = conn[s].ending /\ c.registered = conn[s].registered
      /\ c.queue = conn[s].queue /\ c.inFlight = conn[s].inFlight
  BY <1>4 DEF Conn
<1>8. \/ worker'[t].step = "idle"
      \/ /\ worker'[t].step = "drop" /\ worker'[t].s = s
         /\ ~ conn[s].registered
  BY <1>2, <1>3, GoneTo, Rested
<1>9. worker' \in [Workers -> Worker] /\ \A u \in Workers \ {t} : worker'[u] = worker[u]
  BY <1>2, <1>3, GoneTo, Rested
<1>10. ~ conn[s].registered /\ conn[s].connected => d = 0
  BY <1>4 DEF SoundConn
<1> HIDE DEF s, c
<1>11. SoundConn(c, farewells[s], d, s \in served)
  BY <1>4, <1>6, <1>7 DEF SoundConn
<1> HIDE DEF d
<1>12. /\ worker'[t].step \notin {"leave", "tell"}
       /\ worker'[t].step # "idle" => worker'[t].s = s
       /\ worker'[t].step = "drop" => c.kicked /\ (c.connected => d = 0)
  BY <1>7, <1>8, <1>10
<1>13. /\ UNCHANGED <<lock, served, farewells>> /\ sends' \in 0 .. MaxSends
       /\ worker[t].step \notin {"leave", "tell"}
  BY <1>1, <1>2 DEF NetTypeOK
<1>14. conn[s].kicked => c.kicked
  BY <1>7
<1> QED BY <1>3, <1>5, <1>6, <1>7, <1>9, <1>11, <1>12, <1>13, <1>14, MoveStep

\* Disconnect of a session as it is.
LEMMA DisconnectAsIs ==
  ASSUME NetInv, NEW t \in Workers, worker[t].step \notin {"leave", "tell"},
         NEW s \in Sessions, conn[s].connected, Disconnect(t, s, conn[s], FALSE),
         UNCHANGED <<served, sends, debt>>
  PROVE  NetInv'
<1> DEFINE c == conn[s]
<1>1. /\ conn[s] \in Conn /\ debt[s] \in Nat
      /\ SoundConn(conn[s], farewells[s], debt[s], s \in served)
  BY FieldsOf
<1>2. debt' = [debt EXCEPT ![s] = debt[s]]
  BY DEF NetInv, NetTypeOK
<1>3. ~ c.kicked => debt[s] = 0
  BY <1>1 DEF SoundConn
<1>4. c \in Conn /\ c.kicked = conn[s].kicked /\ c.cause = conn[s].cause
  BY <1>1
<1>5. Disconnect(t, s, c, FALSE) /\ UNCHANGED <<served, sends>> /\ debt[s] \in Nat
  BY <1>1
<1> HIDE DEF c
<1> QED BY <1>2, <1>3, <1>4, <1>5, DisconnectStep

LEMMA DropStep ==
  ASSUME NetInv, NEW t \in Workers, Drop(t)
  PROVE  NetInv'
<1> DEFINE s == worker[t].s
<1>1. NetTypeOK /\ Aimed
  BY DEF NetInv
<1>2. /\ worker[t].step = "drop" /\ worker[t].step \notin {"leave", "tell"}
      /\ UNCHANGED <<served, sends, debt>> /\ DisconnectOnce(t, s)
  BY DEF Drop
<1>3. s \in Sessions
  BY <1>1, <1>2 DEF Aimed
<1> HIDE DEF s
<1>4. CASE conn[s].connected
  <2>1. Disconnect(t, s, conn[s], FALSE)
    BY <1>2, <1>4 DEF DisconnectOnce
  <2> QED BY <1>2, <1>3, <1>4, <2>1, DisconnectAsIs
<1>5. CASE ~ conn[s].connected
  <2> DEFINE c == conn[s]
  <2>1. Rest(t) /\ UNCHANGED <<conn, lock, farewells>>
    BY <1>2, <1>5 DEF DisconnectOnce
  <2>2. /\ c \in Conn /\ debt[s] \in Nat
        /\ SoundConn(c, farewells[s], debt[s], s \in served)
    BY <1>3, FieldsOf
  <2>3. conn' = [conn EXCEPT ![s] = c] /\ debt' = [debt EXCEPT ![s] = debt[s]]
    BY <1>1, <1>2, <2>1 DEF NetTypeOK
  <2>4. /\ worker' \in [Workers -> Worker] /\ worker'[t].step = "idle"
        /\ worker'[t].step \notin {"leave", "tell"}
        /\ \A u \in Workers \ {t} : worker'[u] = worker[u]
    BY <2>1, Rested
  <2>5. /\ UNCHANGED <<lock, served, farewells>> /\ sends' \in 0 .. MaxSends
        /\ worker[t].step \notin {"leave", "tell"}
    BY <1>1, <1>2, <2>1 DEF NetTypeOK
  <2>6. c.ending = conn[s].ending /\ c.kicked = conn[s].kicked /\ c.connected = conn[s].connected
    OBVIOUS
  <2> HIDE DEF c
  <2> QED BY <1>3, <2>2, <2>3, <2>4, <2>5, <2>6, MoveStep
<1> QED BY <1>4, <1>5

LEMMA HangupStep ==
  ASSUME NetInv, NEW t \in Workers, NEW s \in Sessions, Hangup(t, s) \/ KickTimeout(t, s)
  PROVE  NetInv'
<1>1. /\ worker[t].step \notin {"leave", "tell"}
      /\ conn[s].connected /\ Disconnect(t, s, conn[s], FALSE)
      /\ UNCHANGED <<served, sends, debt>>
  BY DEF Hangup, KickTimeout, Idle
<1> QED BY <1>1, DisconnectAsIs

LEMMA DisconnectCompletesStep ==
  ASSUME NetInv, NEW t \in Workers, NEW s \in Sessions, DisconnectCompletes(t, s)
  PROVE  NetInv'
<1> DEFINE c == conn[s]
<1>1. /\ conn[s] \in Conn /\ debt[s] \in Nat
      /\ SoundConn(conn[s], farewells[s], debt[s], s \in served)
  BY FieldsOf
<1>2. /\ ~ Leaving(t) /\ conn[s].ending = "pending"
      /\ ProcessDisconnect(t, s, c, FALSE) /\ UNCHANGED <<served, sends, debt>>
  BY DEF DisconnectCompletes, Idle, Leaving
<1>3. debt' = [debt EXCEPT ![s] = debt[s]]
  BY <1>2 DEF NetInv, NetTypeOK
<1>4. ~ c.kicked => debt[s] = 0
  BY <1>1 DEF SoundConn
<1>5. c \in Conn /\ c.kicked = conn[s].kicked /\ c.cause = conn[s].cause /\ debt[s] \in Nat
  BY <1>1
<1>6. /\ ProcessDisconnect(t, s, c, FALSE) /\ UNCHANGED <<served, sends>> /\ ~ Leaving(t)
      /\ conn[s].connected \/ conn[s].ending = "pending"
  BY <1>2
<1> HIDE DEF c
<1> QED BY <1>3, <1>4, <1>5, <1>6, FarewellStep

(***************************************************************************)
(* The theorems                                                            *)
(***************************************************************************)

LEMMA NextNetInv == NetInv /\ [NetNext]_netVars => NetInv'
<1> SUFFICES ASSUME NetInv, [NetNext]_netVars
             PROVE  NetInv'
  OBVIOUS
<1>1. ASSUME NEW s \in Sessions, ProcessConnect(s) \/ DisconnectTimeout(s)
      PROVE  NetInv'
  BY <1>1, ConnectStep, DisconnectTimeoutStep
<1>2. ASSUME NEW t \in Workers, WorkerStep(t)
      PROVE  NetInv'
  BY <1>2, SendStep, KickStep, DropStep, ToldStep, LeftStep, TellStep DEF WorkerStep
<1>3. ASSUME NEW t \in Workers, NEW s \in Sessions, SessionStep(t, s)
      PROVE  NetInv'
  BY <1>3, BeginStep, ProcessSendStep, SendFailsStep, HangupStep, DisconnectCompletesStep
     DEF SessionStep
<1>4. CASE UNCHANGED netVars
  BY <1>4 DEF netVars, NetInv, NetTypeOK, Sound, Aimed, Departing, Apart, Kept, Dropping,
              NoLockCycle, WaitsFor, Leaving
<1> QED BY <1>1, <1>2, <1>3, <1>4 DEF NetNext

LEMMA NetInvHolds == NetSpec => []NetInv
<1>1. NetInit => NetInv
  BY InitNetInv
<1>2. NetInv /\ [NetNext]_netVars => NetInv'
  BY NextNetInv
<1> QED BY <1>1, <1>2, PTL DEF NetSpec

\* The variables of Session.cpp keep their types, for any sessions and workers.
THEOREM NetTypes == NetSpec => []NetTypeOK
<1>1. NetInv => NetTypeOK
  BY DEF NetInv
<1> QED BY <1>1, NetInvHolds, PTL

\* However Disconnect, a refused send, a time limit and a completed DisconnectEx
\* race, OnDisconnected runs at most once for a session, and while the session is
\* still registered with the service.
THEOREM FarewellsOnce == NetSpec => []OneFarewell
<1>1. ASSUME NetInv
      PROVE  OneFarewell
  <2>1. ASSUME NEW s \in Sessions
        PROVE  farewells[s] <= 1
    <3>1. SoundConn(conn[s], farewells[s], debt[s], s \in served)
      BY <1>1, FieldsOf
    <3> QED BY <3>1 DEF SoundConn
  <2>2. \A t \in Workers : Leaving(t) => worker[t].s \in served
    BY <1>1 DEF NetInv, Departing
  <2> QED BY <2>1, <2>2 DEF OneFarewell
<1> QED BY <1>1, NetInvHolds, PTL

\* No order of Send, ProcessSend and their failures leaves a packet in the queue of a
\* connected session without a send in flight that takes it along.
THEOREM NoSendStuck == NetSpec => []NoStuckSend
<1>1. ASSUME NetInv
      PROVE  NoStuckSend
  <2> SUFFICES ASSUME NEW s \in Sessions, conn[s].connected, conn[s].queue > 0
               PROVE  conn[s].inFlight > 0
    BY DEF NoStuckSend
  <2>1. SoundConn(conn[s], farewells[s], debt[s], s \in served)
    BY <1>1, FieldsOf
  <2> QED BY <2>1 DEF SoundConn
<1> QED BY <1>1, NetInvHolds, PTL

\* DisconnectAfterSend: whoever goes to disconnect has seen all that was queued
\* before it sent, unless the connection is down already.
THEOREM KicksSendFirst == NetSpec => []KickSendsFirst
<1>1. NetInv => KickSendsFirst
  BY DEF NetInv, Dropping, KickSendsFirst
<1> QED BY <1>1, NetInvHolds, PTL

\* Departures that run under the locks of sessions whose send was refused never wait
\* for each other's locks in a circle, however many threads there are.
THEOREM NoCycleOfLocks == NetSpec => []NoLockCycle
<1>1. NetInv => NoLockCycle
  BY DEF NetInv
<1> QED BY <1>1, NetInvHolds, PTL
=============================================================================
