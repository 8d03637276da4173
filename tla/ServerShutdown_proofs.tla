----------------------- MODULE ServerShutdown_proofs -----------------------
(***************************************************************************)
(* A shutdown whose log does not say otherwise has saved everyone, for any *)
(* clients, rooms and DB queues, and any number of drain rounds that is    *)
(* more than the rooms a departure follows its player through.             *)
(*                                                                         *)
(* The argument.  A departure ahead of the marker of round k has at most   *)
(* Rounds - k rooms to go, one behind it or in a queue whose marker has    *)
(* run has fewer (Spent): a hop costs a room and may cost the place ahead  *)
(* of a marker, a new round costs a round.  After the last round nothing   *)
(* is left to go, and nothing may be pushed after the DB queues stop.      *)
(***************************************************************************)
EXTENDS ServerShutdown, TLAPS

Holds(q, c) == \E i \in 1 .. Len(q) : q[i] = c
Carries(q, c) == \E i \in 1 .. Len(q) : q[i].who = c

\* Every departure in q has fewer than n rooms to go.
Under(q, n) == \A i \in 1 .. Len(q) : q[i].who # NoClient => q[i].n < n

Spent(q, k) ==
  \A i \in 1 .. Len(q) :
    q[i].who # NoClient =>
      \/ q[i].n + k < Rounds
      \/ /\ q[i].n + k <= Rounds
         /\ \E j \in 1 .. Len(q) : i < j /\ q[j] = Marker(k)

\* Where the progress of a client that has played is.
Kept(c) ==
  \/ link[c] \in {"up", "cut"}
  \/ c \in saved
  \/ Holds(saves[StoreOf[c]], c)
  \/ \E r \in Rooms : Carries(roomJobs[r], c)

Early == {"serving", "closed", "cutting", "waiting"}
Late == {"stopping", "joining", "exit"}

DownInv ==
  /\ ShutdownTypeOK
  /\ main \in Early => round = 0 /\ \A r \in Rooms : Under(roomJobs[r], Rounds)
  /\ main \notin Late => stopped = {}
  /\ main = "exit" => \A q \in Stores : saves[q] = <<>>
  /\ ~ warned =>
       /\ \A c \in playing : Kept(c)
       /\ main \notin Early => \A c \in Clients : link[c] \in {"away", "gone"}
       /\ main = "draining" => \A r \in Rooms : Spent(roomJobs[r], round)
       /\ main \in Late => \A r \in Rooms : Under(roomJobs[r], 0)

(***************************************************************************)
(* Queues                                                                  *)
(***************************************************************************)

LEMMA TailFacts ==
  ASSUME NEW S, NEW q \in Seq(S), q # <<>>
  PROVE  /\ Head(q) \in S /\ Tail(q) \in Seq(S)
         /\ Len(q) \in Nat /\ Len(q) > 0 /\ Len(Tail(q)) = Len(q) - 1
         /\ Head(q) = q[1]
         /\ \A i \in 1 .. Len(q) - 1 : Tail(q)[i] = q[i + 1]
  OBVIOUS

LEMMA AppendFacts ==
  ASSUME NEW S, NEW q \in Seq(S), NEW e \in S
  PROVE  /\ Append(q, e) \in Seq(S)
         /\ Len(q) \in Nat /\ Len(Append(q, e)) = Len(q) + 1
         /\ \A i \in 1 .. Len(q) : Append(q, e)[i] = q[i]
         /\ Append(q, e)[Len(q) + 1] = e
  OBVIOUS

LEMMA HopsLeft ==
  ASSUME NEW q \in Seq(RoomJob), NEW i \in 1 .. Len(q)
  PROVE  q[i].n \in Nat
<1>1. q[i] \in RoomJob
  OBVIOUS
<1> QED BY <1>1 DEF RoomJob

LEMMA HoldsAppend ==
  ASSUME NEW S, NEW q \in Seq(S), NEW e \in S, NEW c, Holds(q, c) \/ c = e
  PROVE  Holds(Append(q, e), c)
  BY AppendFacts DEF Holds

LEMMA HoldsTail ==
  ASSUME NEW S, NEW q \in Seq(S), q # <<>>, NEW c, Holds(q, c), Head(q) # c
  PROVE  Holds(Tail(q), c)
<1>1. PICK i \in 1 .. Len(q) : q[i] = c
  BY DEF Holds
<1>2. i - 1 \in 1 .. Len(q) - 1 /\ Tail(q)[i - 1] = c
  BY <1>1, TailFacts
<1> QED BY <1>2, TailFacts DEF Holds

LEMMA CarriesAppend ==
  ASSUME NEW q \in Seq(RoomJob), NEW e \in RoomJob, NEW c, Carries(q, c) \/ c = e.who
  PROVE  Carries(Append(q, e), c)
  BY AppendFacts DEF Carries

LEMMA CarriesTail ==
  ASSUME NEW q \in Seq(RoomJob), q # <<>>, NEW c, Carries(q, c), Head(q).who # c
  PROVE  Carries(Tail(q), c)
<1>1. PICK i \in 1 .. Len(q) : q[i].who = c
  BY DEF Carries
<1>2. i - 1 \in 1 .. Len(q) - 1 /\ Tail(q)[i - 1].who = c
  BY <1>1, TailFacts
<1> QED BY <1>2, TailFacts DEF Carries

LEMMA UnderAppend ==
  ASSUME NEW q \in Seq(RoomJob), NEW e \in RoomJob, NEW n \in Nat, Under(q, n),
         e.who # NoClient => e.n < n
  PROVE  Under(Append(q, e), n)
  BY AppendFacts DEF Under

LEMMA UnderTail ==
  ASSUME NEW q \in Seq(RoomJob), q # <<>>, NEW n \in Nat, Under(q, n)
  PROVE  /\ Under(Tail(q), n)
         /\ Head(q).who # NoClient => Head(q).n < n
  BY TailFacts DEF Under

LEMMA SpentAppend ==
  ASSUME NEW q \in Seq(RoomJob), NEW e \in RoomJob, NEW k \in Nat, Spent(q, k),
         e.who # NoClient => e.n + k < Rounds
  PROVE  Spent(Append(q, e), k)
<1> DEFINE a == Append(q, e)
<1>1. /\ Len(q) \in Nat /\ Len(a) = Len(q) + 1 /\ a[Len(q) + 1] = e
      /\ \A i \in 1 .. Len(q) : a[i] = q[i]
  BY AppendFacts
<1> HIDE DEF a
<1> SUFFICES ASSUME NEW i \in 1 .. Len(a), a[i].who # NoClient
             PROVE  \/ a[i].n + k < Rounds
                    \/ /\ a[i].n + k <= Rounds
                       /\ \E j \in 1 .. Len(a) : i < j /\ a[j] = Marker(k)
  BY DEF Spent, a
<1>2. CASE i = Len(q) + 1
  BY <1>1, <1>2
<1>3. CASE i \in 1 .. Len(q)
  <2>1. a[i] = q[i]
    BY <1>1, <1>3
  <2>2. \/ q[i].n + k < Rounds
        \/ /\ q[i].n + k <= Rounds
           /\ \E j \in 1 .. Len(q) : i < j /\ q[j] = Marker(k)
    BY <1>3, <2>1 DEF Spent
  <2> QED BY <1>1, <2>1, <2>2
<1> QED BY <1>1, <1>2, <1>3

LEMMA SpentTail ==
  ASSUME NEW q \in Seq(RoomJob), q # <<>>, NEW k \in Nat, Spent(q, k)
  PROVE  /\ Spent(Tail(q), k)
         /\ Head(q).who # NoClient => Head(q).n + k <= Rounds
<1> DEFINE a == Tail(q)
<1>1. /\ Len(q) \in Nat /\ Len(q) > 0 /\ Len(a) = Len(q) - 1 /\ Head(q) = q[1]
      /\ \A i \in 1 .. Len(q) - 1 : a[i] = q[i + 1]
      /\ Head(q) \in RoomJob
  BY TailFacts
<1>2. Head(q).n \in Nat /\ Rounds \in Nat
  BY <1>1, ShutdownAssumption DEF RoomJob
<1> HIDE DEF a
<1>3. Head(q).who # NoClient => Head(q).n + k <= Rounds
  BY <1>1, <1>2 DEF Spent
<1>4. ASSUME NEW i \in 1 .. Len(a), a[i].who # NoClient
      PROVE  \/ a[i].n + k < Rounds
             \/ /\ a[i].n + k <= Rounds
                /\ \E j \in 1 .. Len(a) : i < j /\ a[j] = Marker(k)
  <2>1. i + 1 \in 1 .. Len(q) /\ a[i] = q[i + 1]
    BY <1>1, <1>4
  <2>2. CASE q[i + 1].n + k < Rounds
    BY <2>1, <2>2
  <2>3. CASE /\ q[i + 1].n + k <= Rounds
             /\ \E j \in 1 .. Len(q) : i + 1 < j /\ q[j] = Marker(k)
    <3>1. PICK j \in 1 .. Len(q) : i + 1 < j /\ q[j] = Marker(k)
      BY <2>3
    <3>2. j - 1 \in 1 .. Len(a) /\ i < j - 1 /\ a[j - 1] = Marker(k)
      BY <1>1, <1>4, <3>1
    <3> QED BY <2>1, <2>3, <3>2
  <2> QED BY <1>4, <2>1, <2>2, <2>3 DEF Spent
<1> QED BY <1>3, <1>4 DEF Spent, a

\* The marker of a round goes behind all that the queue holds.
LEMMA SpentMarked ==
  ASSUME NEW q \in Seq(RoomJob), NEW k \in Nat,
         \A i \in 1 .. Len(q) : q[i].who # NoClient => q[i].n + k <= Rounds
  PROVE  /\ Spent(Append(q, Marker(k)), k)
         /\ Append(q, Marker(k)) \in Seq(RoomJob)
         /\ \A c \in Clients : Carries(q, c) => Carries(Append(q, Marker(k)), c)
<1> DEFINE a == Append(q, Marker(k))
<1>1. Marker(k) \in RoomJob /\ Marker(k).who = NoClient
  BY DEF Marker, RoomJob
<1>2. /\ Len(q) \in Nat /\ Len(a) = Len(q) + 1 /\ a[Len(q) + 1] = Marker(k)
      /\ \A i \in 1 .. Len(q) : a[i] = q[i]
      /\ a \in Seq(RoomJob)
  BY <1>1, AppendFacts
<1>3. \A c \in Clients : Carries(q, c) => Carries(a, c)
  BY <1>1, CarriesAppend
<1> HIDE DEF a
<1>4. ASSUME NEW i \in 1 .. Len(a), a[i].who # NoClient
      PROVE  /\ a[i].n + k <= Rounds
             /\ \E j \in 1 .. Len(a) : i < j /\ a[j] = Marker(k)
  <2>1. i \in 1 .. Len(q) /\ a[i] = q[i]
    BY <1>1, <1>2, <1>4
  <2> QED BY <1>2, <1>4, <2>1
<1> QED BY <1>2, <1>3, <1>4 DEF Spent, a

\* The invariant of the next state, in terms of the primed variables.
LEMMA DownNext ==
  ASSUME ShutdownTypeOK',
         main' \in Early => round' = 0 /\ \A x \in Rooms : Under(roomJobs'[x], Rounds),
         main' \notin Late => stopped' = {},
         main' = "exit" => \A q \in Stores : saves'[q] = <<>>,
         ~ warned' =>
           /\ \A c \in playing' : Kept(c)'
           /\ main' \notin Early => \A c \in Clients : link'[c] \in {"away", "gone"}
           /\ main' = "draining" => \A x \in Rooms : Spent(roomJobs'[x], round')
           /\ main' \in Late => \A x \in Rooms : Under(roomJobs'[x], 0)
  PROVE  DownInv'
<1>1. /\ (\A x \in Rooms : Under(roomJobs'[x], Rounds))
           => \A x \in Rooms : Under(roomJobs[x], Rounds)'
      /\ (\A x \in Rooms : Under(roomJobs'[x], 0)) => \A x \in Rooms : Under(roomJobs[x], 0)'
      /\ (\A x \in Rooms : Spent(roomJobs'[x], round'))
           => \A x \in Rooms : Spent(roomJobs[x], round)'
  BY DEF Under, Spent
<1> QED BY <1>1 DEF DownInv

(***************************************************************************)
(* The clients, and the main thread while there are sessions               *)
(***************************************************************************)

\* Steps that leave the queues alone and take no connection down for good.
LEMMA LinkStep ==
  ASSUME DownInv,
         UNCHANGED <<round, roomJobs, saves, stopped, saved, warned>>,
         main' = main \/ (main \in Early /\ main' \in Early),
         toCut' \subseteq Clients, playing' \subseteq Clients,
         link' \in [Clients -> Links],
         \A c \in playing' :
           \/ link'[c] \in {"up", "cut"}
           \/ c \in playing /\ link[c] \notin {"up", "cut"},
         main \notin Early /\ ~ warned => \A c \in Clients : link'[c] \in {"away", "gone"}
  PROVE  DownInv'
<1>1. ShutdownTypeOK'
  BY DEF DownInv, ShutdownTypeOK, Early, Stages
<1>2. /\ main' \in Early => round' = 0 /\ \A r \in Rooms : Under(roomJobs'[r], Rounds)
      /\ main' \notin Late => stopped' = {}
      /\ main' = "exit" => \A q \in Stores : saves'[q] = <<>>
  BY DEF DownInv, Early, Late
<1>3. ASSUME ~ warned'
      PROVE  /\ \A c \in playing' : Kept(c)'
             /\ main' \notin Early => \A c \in Clients : link'[c] \in {"away", "gone"}
             /\ main' = "draining" => \A r \in Rooms : Spent(roomJobs'[r], round')
             /\ main' \in Late => \A r \in Rooms : Under(roomJobs'[r], 0)
  <2>1. ASSUME NEW c \in playing'
        PROVE  Kept(c)'
    <3>1. CASE link'[c] \in {"up", "cut"}
      BY <3>1 DEF Kept
    <3>2. CASE c \in playing /\ link[c] \notin {"up", "cut"}
      BY <1>3, <3>2 DEF DownInv, Kept
    <3> QED BY <3>1, <3>2
  <2>2. /\ main' \notin Early => \A c \in Clients : link'[c] \in {"away", "gone"}
        /\ main' = "draining" => \A r \in Rooms : Spent(roomJobs'[r], round')
        /\ main' \in Late => \A r \in Rooms : Under(roomJobs'[r], 0)
    BY <1>3 DEF DownInv, Early, Late
  <2> QED BY <2>1, <2>2
<1> QED BY <1>1, <1>2, <1>3 DEF DownInv, Spent, Under

LEMMA ClientStep ==
  ASSUME DownInv, NEW c \in Clients,
         Accept(c) \/ EnterGame(c) \/ LoseClient(c) \/ RemoveSession(c)
  PROVE  DownInv'
<1>1. ShutdownTypeOK
  BY DEF DownInv
<1>2. /\ UNCHANGED <<round, roomJobs, saves, stopped, saved, warned>>
      /\ main' = main /\ toCut' \subseteq Clients /\ playing' \subseteq Clients
  BY <1>1 DEF Accept, EnterGame, LoseClient, RemoveSession, ShutdownTypeOK
<1>3. link' \in [Clients -> Links]
  BY <1>1 DEF Accept, EnterGame, LoseClient, RemoveSession, ShutdownTypeOK, Links
<1>4. ASSUME NEW d \in playing'
      PROVE  \/ link'[d] \in {"up", "cut"}
             \/ d \in playing /\ link[d] \notin {"up", "cut"}
  BY <1>1 DEF Accept, EnterGame, LoseClient, RemoveSession, ShutdownTypeOK, Links
<1>5. ASSUME main \notin Early, ~ warned
      PROVE  \A d \in Clients : link'[d] \in {"away", "gone"}
  <2>1. \A d \in Clients : link[d] \in {"away", "gone"}
    BY <1>5 DEF DownInv
  <2>2. link[c] \in {"up", "leaving"} \/ main \in Early
    BY DEF Accept, EnterGame, LoseClient, RemoveSession, Early
  <2>3. FALSE
    BY <1>5, <2>1, <2>2
  <2> QED BY <2>3
<1> QED BY <1>2, <1>3, <1>4, <1>5, LinkStep

LEMMA CutStep ==
  ASSUME DownInv,
         CloseService \/ CopySessions \/ NothingToCut \/ \E c \in Clients : CutNext(c)
  PROVE  DownInv'
<1>1. ShutdownTypeOK
  BY DEF DownInv
<1>2. /\ UNCHANGED <<round, roomJobs, saves, stopped, saved, warned>>
      /\ main \in Early /\ main' \in Early
      /\ toCut' \subseteq Clients /\ playing' = playing
  BY <1>1 DEF CloseService, CopySessions, NothingToCut, CutNext, SessionSet, ShutdownTypeOK,
              Early
<1>3. /\ link' \in [Clients -> Links]
      /\ \A d \in Clients : link'[d] = link[d] \/ (link[d] = "up" /\ link'[d] = "cut")
  <2>1. CASE UNCHANGED link
    BY <1>1, <2>1 DEF ShutdownTypeOK
  <2>2. CASE \E c \in Clients : CutNext(c)
    BY <1>1, <2>2 DEF CutNext, ShutdownTypeOK, Links
  <2> QED BY <2>1, <2>2 DEF CloseService, CopySessions, NothingToCut
<1>4. \A d \in playing' : \/ link'[d] \in {"up", "cut"}
                          \/ d \in playing /\ link[d] \notin {"up", "cut"}
  BY <1>1, <1>2, <1>3 DEF ShutdownTypeOK
<1>5. playing' \subseteq Clients
  BY <1>1, <1>2 DEF ShutdownTypeOK
<1> QED BY <1>2, <1>3, <1>4, <1>5, LinkStep

LEMMA OnDisconnectedStep ==
  ASSUME DownInv, NEW c \in Clients, OnDisconnected(c)
  PROVE  DownInv'
<1>1. ShutdownTypeOK
  BY DEF DownInv
<1>2. /\ link[c] = "cut" /\ link' = [link EXCEPT ![c] = "leaving"]
      /\ UNCHANGED <<main, round, toCut, playing, saves, stopped, saved, warned>>
  BY DEF OnDisconnected
<1>3. CASE c \notin playing
  <2>1. /\ UNCHANGED <<round, roomJobs, saves, stopped, saved, warned>>
        /\ main' = main /\ toCut' \subseteq Clients /\ playing' \subseteq Clients
        /\ link' \in [Clients -> Links]
    BY <1>1, <1>2, <1>3 DEF OnDisconnected, ShutdownTypeOK, Links
  <2>2. \A d \in playing' : \/ link'[d] \in {"up", "cut"}
                            \/ d \in playing /\ link[d] \notin {"up", "cut"}
    BY <1>1, <1>2, <1>3 DEF ShutdownTypeOK
  <2>3. ~ (main \notin Early /\ ~ warned)
    BY <1>2 DEF DownInv
  <2> QED BY <2>1, <2>2, <2>3, LinkStep
<1>4. CASE c \in playing
  <2>1. PICK r \in Rooms, n \in 0 .. MaxHops :
          roomJobs' = [roomJobs EXCEPT ![r] = Append(roomJobs[r], [who |-> c, n |-> n])]
    BY <1>4 DEF OnDisconnected
  <2> DEFINE e == [who |-> c, n |-> n]
  <2>2. /\ e \in RoomJob /\ e.who = c /\ e.n < Rounds
        /\ Rounds \in Nat /\ roomJobs[r] \in Seq(RoomJob)
    <3>1. n \in Nat /\ n < Rounds /\ Rounds \in Nat
      BY ShutdownAssumption
    <3>2. e \in RoomJob /\ e.who = c /\ e.n = n
      BY <3>1 DEF RoomJob
    <3> QED BY <1>1, <3>1, <3>2 DEF ShutdownTypeOK
  <2>3. roomJobs' = [roomJobs EXCEPT ![r] = Append(roomJobs[r], e)]
    BY <2>1
  <2> HIDE DEF e
  <2>4. /\ Append(roomJobs[r], e) \in Seq(RoomJob)
        /\ \A d : Carries(roomJobs[r], d) \/ d = c => Carries(Append(roomJobs[r], e), d)
    BY <2>2, AppendFacts, CarriesAppend
  <2>5. ASSUME main \in Early
        PROVE  /\ round = 0
               /\ \A q \in Rooms : Under(roomJobs'[q], Rounds)
    <3>1. round = 0 /\ \A q \in Rooms : Under(roomJobs[q], Rounds)
      BY <2>5 DEF DownInv
    <3>2. Under(Append(roomJobs[r], e), Rounds)
      BY <2>2, <3>1, UnderAppend
    <3> QED BY <1>1, <2>3, <3>1, <3>2 DEF ShutdownTypeOK
  <2>6. ShutdownTypeOK'
    BY <1>1, <1>2, <1>3, <2>3, <2>4 DEF ShutdownTypeOK, Links
  <2>7. \A q \in Rooms : roomJobs'[q] =
          IF q = r THEN Append(roomJobs[r], e) ELSE roomJobs[q]
    BY <1>1, <2>3 DEF ShutdownTypeOK
  <2>8. ASSUME ~ warned
        PROVE  main \in Early /\ \A d \in playing : Kept(d)'
    <3>1. main \in Early
      BY <1>2, <2>8 DEF DownInv
    <3>2. ASSUME NEW d \in playing
          PROVE  Kept(d)'
      <4>1. Kept(d) /\ playing \subseteq Clients
        BY <1>1, <2>8 DEF DownInv, ShutdownTypeOK
      <4>2. d = c \/ link'[d] = link[d]
        BY <1>1, <1>2, <4>1 DEF ShutdownTypeOK
      <4>3. CASE \E q \in Rooms : Carries(roomJobs[q], d)
        <5>1. \E q \in Rooms : Carries(roomJobs'[q], d)
          BY <2>4, <2>7, <4>3
        <5> QED BY <5>1 DEF Kept, Carries
      <4>4. CASE d = c
        <5>1. Carries(roomJobs'[r], d)
          BY <2>4, <2>7, <4>4
        <5> QED BY <5>1 DEF Kept, Carries
      <4> QED BY <1>2, <4>1, <4>2, <4>3, <4>4 DEF Kept, Holds
    <3> QED BY <3>1, <3>2
  <2>9. /\ main' = main /\ round' = round /\ stopped' = stopped /\ saves' = saves
        /\ warned' = warned /\ playing' = playing
    BY <1>2
  <2>10. /\ main' \in Early => round' = 0 /\ \A q \in Rooms : Under(roomJobs[q], Rounds)'
         /\ main' \notin Late => stopped' = {}
         /\ main' = "exit" => \A q \in Stores : saves'[q] = <<>>
    BY <2>5, <2>9 DEF DownInv, Under
  <2>11. Early \cap Late = {} /\ "draining" \notin Early
    BY DEF Early, Late
  <2> QED BY <2>6, <2>8, <2>9, <2>10, <2>11 DEF DownInv
<1> QED BY <1>3, <1>4

(***************************************************************************)
(* Room jobs and saves                                                     *)
(***************************************************************************)

\* A room job runs: what it leaves in its own queue.
LEMMA HeadOfRoom ==
  ASSUME DownInv, NEW r \in Rooms, roomJobs[r] # <<>>
  PROVE  /\ roomJobs[r] \in Seq(RoomJob) /\ Rounds \in Nat /\ round \in Nat
         /\ Head(roomJobs[r]) \in RoomJob /\ Tail(roomJobs[r]) \in Seq(RoomJob)
         /\ main \in Early =>
              /\ Under(Tail(roomJobs[r]), Rounds)
              /\ Head(roomJobs[r]).who # NoClient => Head(roomJobs[r]).n < Rounds
         /\ main = "draining" /\ ~ warned =>
              /\ Spent(Tail(roomJobs[r]), round)
              /\ Head(roomJobs[r]).who # NoClient => Head(roomJobs[r]).n + round <= Rounds
         /\ main \in Late /\ ~ warned =>
              Under(Tail(roomJobs[r]), 0) /\ Head(roomJobs[r]).who = NoClient
<1>1. roomJobs[r] \in Seq(RoomJob) /\ Rounds \in Nat /\ round \in Nat
  BY ShutdownAssumption DEF DownInv, ShutdownTypeOK
<1>2. Head(roomJobs[r]) \in RoomJob /\ Tail(roomJobs[r]) \in Seq(RoomJob)
  BY <1>1, TailFacts
<1>3. main \in Early =>
        /\ Under(Tail(roomJobs[r]), Rounds)
        /\ Head(roomJobs[r]).who # NoClient => Head(roomJobs[r]).n < Rounds
  BY <1>1, UnderTail DEF DownInv
<1>4. main = "draining" /\ ~ warned =>
        /\ Spent(Tail(roomJobs[r]), round)
        /\ Head(roomJobs[r]).who # NoClient => Head(roomJobs[r]).n + round <= Rounds
  BY <1>1, SpentTail DEF DownInv
<1>5. ASSUME main \in Late, ~ warned
      PROVE  Under(Tail(roomJobs[r]), 0) /\ Head(roomJobs[r]).who = NoClient
  <2>1. Under(roomJobs[r], 0)
    BY <1>5 DEF DownInv
  <2>2. /\ Under(Tail(roomJobs[r]), 0)
        /\ Head(roomJobs[r]).who # NoClient => Head(roomJobs[r]).n < 0
    BY <1>1, <2>1, UnderTail
  <2>3. Head(roomJobs[r]).n \in Nat
    BY <1>2 DEF RoomJob
  <2> QED BY <2>2, <2>3
<1> QED BY <1>1, <1>2, <1>3, <1>4, <1>5

\* A marker, and a departure that ends here.
LEMMA RunHereStep ==
  ASSUME DownInv, NEW r \in Rooms, main # "exit", roomJobs[r] # <<>>,
         roomJobs' = [roomJobs EXCEPT ![r] = Tail(@)],
         \/ Head(roomJobs[r]).who = NoClient /\ UNCHANGED saves
         \/ Head(roomJobs[r]).who # NoClient /\ PushSave(Head(roomJobs[r]).who),
         UNCHANGED <<main, round, toCut, link, playing, stopped, saved, warned>>
  PROVE  DownInv'
<1> DEFINE q == roomJobs[r]
           job == Head(q)
<1>1. ShutdownTypeOK /\ NoClient \notin Clients /\ StoreOf \in [Clients -> Stores]
  BY ShutdownAssumption DEF DownInv
<1>2. /\ q \in Seq(RoomJob) /\ job \in RoomJob /\ Tail(q) \in Seq(RoomJob)
      /\ main \in Early => Under(Tail(q), Rounds)
      /\ main = "draining" /\ ~ warned => Spent(Tail(q), round)
      /\ main \in Late /\ ~ warned => Under(Tail(q), 0) /\ job.who = NoClient
  BY HeadOfRoom
<1>3. /\ roomJobs' \in [Rooms -> Seq(RoomJob)]
      /\ \A x \in Rooms : roomJobs'[x] = IF x = r THEN Tail(q) ELSE roomJobs[x]
  BY <1>1, <1>2 DEF ShutdownTypeOK
<1>4. /\ \A d \in Clients : Carries(q, d) /\ job.who # d => Carries(Tail(q), d)
      /\ job.who \in Clients \cup {NoClient}
  BY <1>2, CarriesTail DEF RoomJob
<1> HIDE DEF q, job
<1>5. /\ saves' \in [Stores -> Seq(Clients)]
      /\ \A d \in Clients : Holds(saves[StoreOf[d]], d) => Holds(saves'[StoreOf[d]], d)
      /\ job.who # NoClient /\ StoreOf[job.who] \notin stopped =>
           Holds(saves'[StoreOf[job.who]], job.who)
  <2>1. CASE UNCHANGED saves /\ job.who = NoClient
    BY <1>1, <2>1 DEF ShutdownTypeOK
  <2>2. CASE job.who # NoClient /\ PushSave(job.who)
    <3> DEFINE c == job.who
               s == StoreOf[c]
    <3>1. c \in Clients /\ s \in Stores
      BY <1>1, <1>4, <2>2
    <3>2. CASE s \in stopped
      BY <1>1, <2>2, <3>2 DEF PushSave, ShutdownTypeOK
    <3>3. CASE s \notin stopped
      <4>1. saves' = [saves EXCEPT ![s] = Append(saves[s], c)] /\ saves[s] \in Seq(Clients)
        BY <1>1, <2>2, <3>1, <3>3 DEF PushSave, ShutdownTypeOK
      <4> HIDE DEF c, s
      <4>2. /\ Append(saves[s], c) \in Seq(Clients)
            /\ \A d : Holds(saves[s], d) \/ d = c => Holds(Append(saves[s], c), d)
        BY <3>1, <4>1, AppendFacts, HoldsAppend
      <4>3. \A x \in Stores : saves'[x] = IF x = s THEN Append(saves[s], c) ELSE saves[x]
        BY <1>1, <4>1 DEF ShutdownTypeOK
      <4>4. saves' \in [Stores -> Seq(Clients)]
        BY <1>1, <4>1, <4>2 DEF ShutdownTypeOK
      <4>5. \A d \in Clients : Holds(saves[StoreOf[d]], d) => Holds(saves'[StoreOf[d]], d)
        BY <1>1, <4>2, <4>3
      <4>6. Holds(saves'[s], c)
        BY <3>1, <4>2, <4>3
      <4> QED BY <4>4, <4>5, <4>6 DEF c, s
    <3> QED BY <3>2, <3>3
  <2> QED BY <2>1, <2>2 DEF q, job
<1>6. ShutdownTypeOK'
  BY <1>1, <1>3, <1>5 DEF ShutdownTypeOK
<1>7. /\ main' \in Early => round' = 0 /\ \A x \in Rooms : Under(roomJobs'[x], Rounds)
      /\ main' \notin Late => stopped' = {}
      /\ main' # "exit"
  BY <1>2, <1>3 DEF DownInv
<1>8. ASSUME ~ warned'
      PROVE  /\ \A c \in playing' : Kept(c)'
             /\ main' \notin Early => \A c \in Clients : link'[c] \in {"away", "gone"}
             /\ main' = "draining" => \A x \in Rooms : Spent(roomJobs'[x], round')
             /\ main' \in Late => \A x \in Rooms : Under(roomJobs'[x], 0)
  <2>1. ASSUME NEW d \in playing
        PROVE  Kept(d)'
    <3>1. Kept(d) /\ d \in Clients
      BY <1>1, <1>8 DEF DownInv, ShutdownTypeOK
    <3>2. CASE link[d] \in {"up", "cut"} \/ d \in saved
      BY <3>2 DEF Kept
    <3>3. CASE Holds(saves[StoreOf[d]], d) \/ Holds(saves'[StoreOf[d]], d)
      <4>1. Holds(saves'[StoreOf[d]], d)
        BY <1>5, <3>1, <3>3
      <4> QED BY <4>1 DEF Kept, Holds
    <3>4. CASE \E x \in Rooms : Carries(roomJobs[x], d)
      <4>1. PICK x \in Rooms : Carries(roomJobs[x], d)
        BY <3>4
      <4>2. CASE x = r /\ job.who = d
        <5>1. job.who # NoClient /\ main \notin Late /\ stopped = {}
          BY <1>1, <1>2, <1>8, <3>1, <4>2 DEF DownInv
        <5>2. Holds(saves'[StoreOf[d]], d)
          BY <1>5, <4>2, <5>1
        <5> QED BY <3>3, <5>2
      <4>3. CASE x # r \/ job.who # d
        <5>1. \E y \in Rooms : Carries(roomJobs'[y], d)
          BY <1>3, <1>4, <3>1, <4>1, <4>3 DEF q
        <5> QED BY <5>1 DEF Kept, Carries
      <4> QED BY <4>2, <4>3
    <3> QED BY <3>1, <3>2, <3>3, <3>4 DEF Kept
  <2>2. main \notin Early => \A c \in Clients : link[c] \in {"away", "gone"}
    BY <1>8 DEF DownInv
  <2>3. main = "draining" => \A x \in Rooms : Spent(roomJobs'[x], round)
    BY <1>2, <1>3, <1>8 DEF DownInv
  <2>4. main \in Late => \A x \in Rooms : Under(roomJobs'[x], 0)
    BY <1>2, <1>3, <1>8 DEF DownInv
  <2>5. main' = main /\ playing' = playing /\ link' = link /\ round' = round
    OBVIOUS
  <2> QED BY <2>1, <2>2, <2>3, <2>4, <2>5
<1> QED BY <1>6, <1>7, <1>8, DownNext

\* A departure that follows its player into the queue of room x.
LEMMA RunOnStep ==
  ASSUME DownInv, NEW r \in Rooms, NEW x \in Rooms \ {r}, main # "exit", roomJobs[r] # <<>>,
         Head(roomJobs[r]).who # NoClient, Head(roomJobs[r]).n > 0,
         roomJobs' = [[roomJobs EXCEPT ![r] = Tail(roomJobs[r])] EXCEPT
                        ![x] = Append(roomJobs[x], [Head(roomJobs[r]) EXCEPT
                                                      !.n = Head(roomJobs[r]).n - 1])],
         UNCHANGED <<main, round, toCut, link, playing, saves, stopped, saved, warned>>
  PROVE  DownInv'
<1> DEFINE q == roomJobs[r]
           job == Head(q)
           next == [job EXCEPT !.n = job.n - 1]
<1>1. ShutdownTypeOK
  BY DEF DownInv
<1>2. /\ q \in Seq(RoomJob) /\ job \in RoomJob /\ Tail(q) \in Seq(RoomJob)
      /\ Rounds \in Nat /\ round \in Nat
      /\ main \in Early => Under(Tail(q), Rounds) /\ job.n < Rounds
      /\ main = "draining" /\ ~ warned => Spent(Tail(q), round) /\ job.n + round <= Rounds
      /\ ~ (main \in Late /\ ~ warned)
  BY HeadOfRoom
<1>3. /\ next \in RoomJob /\ next.who = job.who
      /\ main \in Early => next.n < Rounds
      /\ main = "draining" /\ ~ warned => next.n + round < Rounds
  <2>1. job.n - 1 \in Nat /\ job.n \in Nat /\ job.n > 0
    BY <1>2 DEF RoomJob
  <2>2. next \in RoomJob /\ next.who = job.who /\ next.n = job.n - 1
    BY <1>2, <2>1 DEF RoomJob
  <2> HIDE DEF next, job, q
  <2> QED BY <1>2, <2>1, <2>2
<1>0. roomJobs' = [[roomJobs EXCEPT ![r] = Tail(q)] EXCEPT ![x] = Append(roomJobs[x], next)]
  OBVIOUS
<1> HIDE DEF next
<1>4. roomJobs[x] \in Seq(RoomJob)
  BY <1>1 DEF ShutdownTypeOK
<1>5. \A y \in Rooms : roomJobs'[y] = IF y = r THEN Tail(q)
                                     ELSE IF y = x THEN Append(roomJobs[x], next)
                                     ELSE roomJobs[y]
  <2> DEFINE f == [roomJobs EXCEPT ![r] = Tail(q)]
  <2>1. /\ DOMAIN f = Rooms
        /\ \A y \in Rooms : f[y] = IF y = r THEN Tail(q) ELSE roomJobs[y]
    BY <1>1 DEF ShutdownTypeOK
  <2>2. roomJobs' = [f EXCEPT ![x] = Append(roomJobs[x], next)]
    BY <1>0
  <2> HIDE DEF f
  <2> QED BY <2>1, <2>2
<1>6. /\ Append(roomJobs[x], next) \in Seq(RoomJob)
      /\ \A d : Carries(roomJobs[x], d) \/ d = job.who => Carries(Append(roomJobs[x], next), d)
  BY <1>3, <1>4, AppendFacts, CarriesAppend
<1>7. roomJobs' \in [Rooms -> Seq(RoomJob)]
  <2>1. [roomJobs EXCEPT ![r] = Tail(q)] \in [Rooms -> Seq(RoomJob)]
    BY <1>1, <1>2 DEF ShutdownTypeOK
  <2> QED BY <1>0, <1>6, <2>1
<1>8. \A d : Carries(q, d) /\ job.who # d => Carries(Tail(q), d)
  BY <1>2, CarriesTail
<1> HIDE DEF q, job
<1>9. ShutdownTypeOK'
  BY <1>1, <1>7 DEF ShutdownTypeOK
<1>10. ASSUME main \in Early
       PROVE  \A y \in Rooms : Under(roomJobs'[y], Rounds)
  <2>1. \A y \in Rooms : Under(roomJobs[y], Rounds)
    BY <1>10 DEF DownInv
  <2>2. Under(Append(roomJobs[x], next), Rounds)
    BY <1>2, <1>3, <1>4, <1>10, <2>1, UnderAppend
  <2> QED BY <1>2, <1>5, <1>10, <2>1, <2>2
<1>11. ASSUME main = "draining", ~ warned
       PROVE  \A y \in Rooms : Spent(roomJobs'[y], round)
  <2>1. \A y \in Rooms : Spent(roomJobs[y], round)
    BY <1>11 DEF DownInv
  <2>2. Spent(Append(roomJobs[x], next), round)
    BY <1>2, <1>3, <1>4, <1>11, <2>1, SpentAppend
  <2> QED BY <1>2, <1>5, <1>11, <2>1, <2>2
<1>12. ASSUME ~ warned, NEW d \in playing
       PROVE  Kept(d)'
  <2>1. Kept(d)
    BY <1>12 DEF DownInv
  <2>2. CASE \E y \in Rooms : Carries(roomJobs[y], d)
    <3>1. \E y \in Rooms : Carries(roomJobs'[y], d)
      BY <1>5, <1>6, <1>8, <2>2 DEF q
    <3> QED BY <3>1 DEF Kept, Carries
  <2>3. CASE link[d] \in {"up", "cut"} \/ d \in saved \/ Holds(saves[StoreOf[d]], d)
    BY <2>3 DEF Kept, Holds
  <2> QED BY <2>1, <2>2, <2>3 DEF Kept
<1>13. /\ main' = main /\ round' = round /\ stopped' = stopped /\ saves' = saves
       /\ warned' = warned /\ playing' = playing /\ link' = link
  OBVIOUS
<1>14. /\ main' \in Early => round' = 0 /\ \A y \in Rooms : Under(roomJobs'[y], Rounds)
       /\ main' \notin Late => stopped' = {}
       /\ main' # "exit"
  BY <1>10, <1>13 DEF DownInv
<1>15. ASSUME ~ warned'
       PROVE  /\ \A d \in playing' : Kept(d)'
              /\ main' \notin Early => \A c \in Clients : link'[c] \in {"away", "gone"}
              /\ main' = "draining" => \A y \in Rooms : Spent(roomJobs'[y], round')
              /\ main' \notin Late
  <2>1. main \notin Early => \A c \in Clients : link[c] \in {"away", "gone"}
    BY <1>13, <1>15 DEF DownInv
  <2>2. ~ warned /\ main \notin Late
    BY <1>2, <1>13, <1>15
  <2>3. \A d \in playing : Kept(d)'
    BY <1>12, <2>2
  <2>4. main = "draining" => \A y \in Rooms : Spent(roomJobs'[y], round')
    BY <1>11, <1>13, <2>2
  <2> QED BY <1>13, <2>1, <2>2, <2>3, <2>4
<1> QED BY <1>9, <1>14, <1>15, DownNext

LEMMA RunRoomJobStep ==
  ASSUME DownInv, NEW r \in Rooms, RunRoomJob(r)
  PROVE  DownInv'
<1> DEFINE job == Head(roomJobs[r])
           popped == [roomJobs EXCEPT ![r] = Tail(@)]
<1>1. job.n \in Nat /\ ShutdownTypeOK
  BY HeadOfRoom DEF RunRoomJob, RoomJob, DownInv
<1>2. /\ main # "exit" /\ roomJobs[r] # <<>>
      /\ UNCHANGED <<main, round, toCut, link, playing, stopped, saved, warned>>
      /\ \/ job.who = NoClient /\ roomJobs' = popped /\ UNCHANGED saves
         \/ job.who # NoClient /\ job.n = 0 /\ roomJobs' = popped /\ PushSave(job.who)
         \/ /\ job.who # NoClient /\ job.n > 0
            /\ \E x \in Rooms \ {r} :
                 roomJobs' = [popped EXCEPT ![x] = Append(@, [job EXCEPT !.n = @ - 1])]
            /\ UNCHANGED saves
  BY <1>1 DEF RunRoomJob
<1>3. CASE /\ roomJobs' = popped
           /\ \/ job.who = NoClient /\ UNCHANGED saves
              \/ job.who # NoClient /\ PushSave(job.who)
  BY <1>2, <1>3, RunHereStep
<1>4. CASE /\ job.who # NoClient /\ job.n > 0
           /\ \E x \in Rooms \ {r} :
                roomJobs' = [popped EXCEPT ![x] = Append(@, [job EXCEPT !.n = @ - 1])]
           /\ UNCHANGED saves
  <2>1. PICK x \in Rooms \ {r} :
          roomJobs' = [popped EXCEPT ![x] = Append(@, [job EXCEPT !.n = @ - 1])]
    BY <1>4
  <2>2. popped[x] = roomJobs[x]
    BY <1>1, <2>1 DEF ShutdownTypeOK
  <2>3. roomJobs' = [popped EXCEPT ![x] = Append(roomJobs[x], [job EXCEPT !.n = job.n - 1])]
    BY <2>1, <2>2
  <2> QED BY <1>2, <1>4, <2>3, RunOnStep
<1> QED BY <1>2, <1>3, <1>4

LEMMA RunSaveStep ==
  ASSUME DownInv, NEW q \in Stores, NEW done \in BOOLEAN, RunSave(q, done)
  PROVE  DownInv'
<1>1. /\ ShutdownTypeOK /\ StoreOf \in [Clients -> Stores] /\ saves[q] \in Seq(Clients)
      /\ saves[q] # <<>>
  BY ShutdownAssumption DEF DownInv, ShutdownTypeOK, RunSave
<1>2. /\ Head(saves[q]) \in Clients /\ Tail(saves[q]) \in Seq(Clients)
      /\ \A d : Holds(saves[q], d) /\ Head(saves[q]) # d => Holds(Tail(saves[q]), d)
  BY <1>1, TailFacts, HoldsTail
<1>3. /\ saves' \in [Stores -> Seq(Clients)]
      /\ \A x \in Stores : saves'[x] = IF x = q THEN Tail(saves[q]) ELSE saves[x]
  BY <1>1, <1>2 DEF RunSave, ShutdownTypeOK
<1>4. /\ saved' = IF done THEN saved \cup {Head(saves[q])} ELSE saved
      /\ warned' = (warned \/ ~ done)
      /\ main' = main /\ round' = round /\ toCut' = toCut /\ link' = link
      /\ playing' = playing /\ roomJobs' = roomJobs /\ stopped' = stopped
  BY DEF RunSave
<1>5. ShutdownTypeOK'
  BY <1>1, <1>2, <1>3, <1>4 DEF ShutdownTypeOK
<1>6. /\ main' \in Early => round' = 0 /\ \A x \in Rooms : Under(roomJobs'[x], Rounds)
      /\ main' \notin Late => stopped' = {}
      /\ main' # "exit"
  BY <1>1, <1>4 DEF DownInv
<1>7. ASSUME ~ warned'
      PROVE  /\ \A c \in playing' : Kept(c)'
             /\ main' \notin Early => \A c \in Clients : link'[c] \in {"away", "gone"}
             /\ main' = "draining" => \A x \in Rooms : Spent(roomJobs'[x], round')
             /\ main' \in Late => \A x \in Rooms : Under(roomJobs'[x], 0)
  <2>1. ~ warned /\ saved' = saved \cup {Head(saves[q])}
    BY <1>4, <1>7
  <2>2. ASSUME NEW d \in playing
        PROVE  Kept(d)'
    <3>1. Kept(d) /\ d \in Clients /\ StoreOf[d] \in Stores
      BY <1>1, <2>1 DEF DownInv, ShutdownTypeOK
    <3>2. CASE Holds(saves[StoreOf[d]], d)
      <4>1. d \in saved' \/ Holds(saves'[StoreOf[d]], d)
        BY <1>2, <1>3, <2>1, <3>1, <3>2
      <4> QED BY <4>1 DEF Kept, Holds
    <3>3. CASE \E x \in Rooms : Carries(roomJobs[x], d)
      <4>1. \E x \in Rooms : Carries(roomJobs'[x], d)
        BY <1>4, <3>3
      <4> QED BY <4>1 DEF Kept, Carries
    <3>4. CASE link[d] \in {"up", "cut"} \/ d \in saved
      BY <1>4, <2>1, <3>4 DEF Kept
    <3> QED BY <3>1, <3>2, <3>3, <3>4 DEF Kept
  <2>3. /\ main \notin Early => \A c \in Clients : link[c] \in {"away", "gone"}
        /\ main = "draining" => \A x \in Rooms : Spent(roomJobs[x], round)
        /\ main \in Late => \A x \in Rooms : Under(roomJobs[x], 0)
    BY <2>1 DEF DownInv
  <2> QED BY <1>4, <2>2, <2>3
<1> QED BY <1>5, <1>6, <1>7, DownNext

(***************************************************************************)
(* The rounds and the end                                                  *)
(***************************************************************************)

\* A round starts: what has at most Rounds - n rooms to go is ahead of its marker.
LEMMA StartRoundStep ==
  ASSUME DownInv, NEW n \in 1 .. Rounds, StartRound(n), main \notin Late,
         UNCHANGED <<toCut, link, playing, saves, stopped, saved>>,
         warned' \in BOOLEAN,
         ~ warned' =>
           /\ ~ warned
           /\ \A c \in Clients : link[c] \in {"away", "gone"}
           /\ \A r \in Rooms : \A i \in 1 .. Len(roomJobs[r]) :
                roomJobs[r][i].who # NoClient => roomJobs[r][i].n + n <= Rounds
  PROVE  DownInv'
<1>1. ShutdownTypeOK /\ n \in Nat /\ Rounds \in Nat
  BY ShutdownAssumption DEF DownInv
<1>2. /\ main' = "draining" /\ round' = n
      /\ roomJobs' = [r \in Rooms |-> Append(roomJobs[r], Marker(n))]
      /\ link' = link /\ playing' = playing /\ stopped' = stopped /\ saves' = saves
      /\ saved' = saved /\ toCut' = toCut
  BY DEF StartRound
<1>3. Marker(n) \in RoomJob
  BY <1>1 DEF Marker, RoomJob
<1>4. ASSUME NEW r \in Rooms
      PROVE  /\ roomJobs[r] \in Seq(RoomJob) /\ roomJobs'[r] \in Seq(RoomJob)
             /\ roomJobs'[r] = Append(roomJobs[r], Marker(n))
             /\ \A d : Carries(roomJobs[r], d) => Carries(roomJobs'[r], d)
  <2>1. roomJobs[r] \in Seq(RoomJob) /\ roomJobs'[r] = Append(roomJobs[r], Marker(n))
    BY <1>1, <1>2, <1>4 DEF ShutdownTypeOK
  <2> QED BY <1>3, <2>1, AppendFacts, CarriesAppend
<1>5. ShutdownTypeOK'
  <2>1. roomJobs' \in [Rooms -> Seq(RoomJob)]
    BY <1>2, <1>4
  <2> QED BY <1>1, <1>2, <2>1 DEF ShutdownTypeOK, Stages
<1>6. main' \notin Early /\ main' \notin Late /\ stopped' = {} /\ main' # "exit"
  BY <1>2 DEF DownInv, Early, Late
<1>7. ASSUME ~ warned'
      PROVE  /\ \A c \in playing' : Kept(c)'
             /\ \A c \in Clients : link'[c] \in {"away", "gone"}
             /\ \A r \in Rooms : Spent(roomJobs'[r], round')
  <2>1. ASSUME NEW d \in playing
        PROVE  Kept(d)'
    <3>1. Kept(d)
      BY <1>7 DEF DownInv
    <3>2. CASE \E r \in Rooms : Carries(roomJobs[r], d)
      <4>1. \E r \in Rooms : Carries(roomJobs'[r], d)
        BY <1>4, <3>2
      <4> QED BY <4>1 DEF Kept, Carries
    <3>3. CASE link[d] \in {"up", "cut"} \/ d \in saved \/ Holds(saves[StoreOf[d]], d)
      BY <1>2, <3>3 DEF Kept, Holds
    <3> QED BY <3>1, <3>2, <3>3 DEF Kept
  <2>2. ASSUME NEW r \in Rooms
        PROVE  Spent(roomJobs'[r], n)
    <3>1. \A i \in 1 .. Len(roomJobs[r]) :
            roomJobs[r][i].who # NoClient => roomJobs[r][i].n + n <= Rounds
      BY <1>7
    <3> QED BY <1>1, <1>4, <3>1, SpentMarked
  <2> QED BY <1>2, <1>7, <2>1, <2>2
<1> QED BY <1>5, <1>6, <1>7, DownNext

LEMMA EndOfSessionsStep ==
  ASSUME DownInv, NEW inTime \in BOOLEAN, EndOfSessions(inTime)
  PROVE  DownInv'
<1>1. ShutdownTypeOK /\ Rounds \in Nat \ {0}
  BY ShutdownAssumption DEF DownInv
<1>2. /\ main = "waiting" /\ (inTime <=> SessionSet = {}) /\ StartRound(1)
      /\ warned' = (warned \/ ~ inTime)
      /\ UNCHANGED <<toCut, link, playing, saves, stopped, saved>>
  BY DEF EndOfSessions
<1>3. 1 \in 1 .. Rounds /\ main \notin Late /\ main \in Early /\ warned' \in BOOLEAN
  BY <1>1, <1>2 DEF Late, Early, ShutdownTypeOK
<1>4. ASSUME ~ warned'
      PROVE  ~ warned /\ \A c \in Clients : link[c] \in {"away", "gone"}
  <2>1. ~ warned /\ SessionSet = {}
    BY <1>2, <1>4
  <2> QED BY <1>1, <2>1 DEF SessionSet, ShutdownTypeOK, Links
<1>5. ASSUME NEW r \in Rooms, NEW i \in 1 .. Len(roomJobs[r]), roomJobs[r][i].who # NoClient
      PROVE  roomJobs[r][i].n + 1 <= Rounds
  <2>1. Under(roomJobs[r], Rounds)
    BY <1>3 DEF DownInv
  <2>2. roomJobs[r] \in Seq(RoomJob)
    BY <1>1 DEF ShutdownTypeOK
  <2>3. roomJobs[r][i].n < Rounds /\ roomJobs[r][i].n \in Nat
    BY <1>5, <2>1, <2>2, HopsLeft DEF Under
  <2> QED BY <1>1, <2>3
<1> QED BY <1>2, <1>3, <1>4, <1>5, StartRoundStep

\* When no queue holds the marker of the round, every departure has taken a room.
LEMMA RoundDone ==
  ASSUME DownInv, main = "draining", ~ warned, Drained,
         NEW r \in Rooms, NEW i \in 1 .. Len(roomJobs[r]), roomJobs[r][i].who # NoClient
  PROVE  roomJobs[r][i].n \in Nat /\ roomJobs[r][i].n + round < Rounds
<1>1. ShutdownTypeOK /\ Spent(roomJobs[r], round)
  BY DEF DownInv
<1>2. roomJobs[r] \in Seq(RoomJob)
  BY <1>1 DEF ShutdownTypeOK
<1>3. \A j \in 1 .. Len(roomJobs[r]) : roomJobs[r][j] # Marker(round)
  BY <1>2 DEF Drained
<1>4. roomJobs[r][i].n \in Nat
  BY <1>2, HopsLeft
<1> QED BY <1>1, <1>3, <1>4 DEF Spent

LEMMA EndOfRoundStep ==
  ASSUME DownInv, NEW inTime \in BOOLEAN, EndOfRound(inTime)
  PROVE  DownInv'
<1>1. ShutdownTypeOK /\ Rounds \in Nat /\ round \in 0 .. Rounds
  BY ShutdownAssumption DEF DownInv, ShutdownTypeOK
<1>2. /\ main = "draining" /\ (inTime <=> Drained)
      /\ warned' = (warned \/ ~ inTime)
      /\ UNCHANGED <<toCut, link, playing, saves, stopped, saved>>
  BY DEF EndOfRound
<1>3. main \notin Late /\ main \notin Early /\ warned' \in BOOLEAN
  BY <1>1, <1>2 DEF Late, Early, ShutdownTypeOK
<1>4. ASSUME ~ warned'
      PROVE  /\ ~ warned /\ \A c \in Clients : link[c] \in {"away", "gone"}
             /\ \A r \in Rooms : \A i \in 1 .. Len(roomJobs[r]) : roomJobs[r][i].who # NoClient =>
                  roomJobs[r][i].n \in Nat /\ roomJobs[r][i].n + round < Rounds
  <2>1. ~ warned /\ Drained
    BY <1>2, <1>4
  <2>2. \A c \in Clients : link[c] \in {"away", "gone"}
    BY <1>3, <2>1 DEF DownInv
  <2> QED BY <1>2, <2>1, <2>2, RoundDone
<1>5. CASE round < Rounds
  <2>1. round + 1 \in 1 .. Rounds /\ StartRound(round + 1)
    BY <1>1, <1>5 DEF EndOfRound
  <2>2. ~ warned' => \A r \in Rooms : \A i \in 1 .. Len(roomJobs[r]) :
          roomJobs[r][i].who # NoClient => roomJobs[r][i].n + (round + 1) <= Rounds
    BY <1>1, <1>4
  <2> QED BY <1>2, <1>3, <1>4, <2>1, <2>2, StartRoundStep
<1>6. CASE ~ round < Rounds
  <2>1. /\ main' = "stopping" /\ round' = round /\ roomJobs' = roomJobs /\ link' = link
        /\ playing' = playing /\ saves' = saves /\ stopped' = stopped /\ saved' = saved
        /\ toCut' = toCut /\ round = Rounds
    BY <1>1, <1>6 DEF EndOfRound
  <2>2. ShutdownTypeOK'
    BY <1>1, <1>3, <2>1 DEF ShutdownTypeOK, Stages
  <2>3. main' \in Late /\ main' \notin Early /\ main' # "draining" /\ main' # "exit"
    BY <2>1 DEF Early, Late
  <2>4. ASSUME ~ warned'
        PROVE  /\ \A c \in playing' : Kept(c)'
               /\ \A c \in Clients : link'[c] \in {"away", "gone"}
               /\ \A r \in Rooms : Under(roomJobs'[r], 0)
    <3>1. \A c \in playing : Kept(c)
      BY <1>4, <2>4 DEF DownInv
    <3>2. \A c \in playing' : Kept(c)'
      BY <2>1, <3>1 DEF Kept, Holds, Carries
    <3>3. ASSUME NEW r \in Rooms, NEW i \in 1 .. Len(roomJobs[r]), roomJobs[r][i].who # NoClient
          PROVE  roomJobs[r][i].n < 0
      <4>1. roomJobs[r][i].n \in Nat /\ roomJobs[r][i].n + round < Rounds
        BY <1>4, <2>4, <3>3
      <4> QED BY <1>1, <2>1, <4>1
    <3>4. \A r \in Rooms : Under(roomJobs[r], 0)
      BY <3>3 DEF Under
    <3> QED BY <1>4, <2>1, <2>4, <3>2, <3>4
  <2> QED BY <2>2, <2>3, <2>4, DownNext
<1> QED BY <1>5, <1>6

\* The steps after the last round.
LEMMA EndStep ==
  ASSUME DownInv, Exit \/ \E q \in Stores : Stop(q)
  PROVE  DownInv'
<1>1. ShutdownTypeOK
  BY DEF DownInv
<1>2. /\ main \in Late /\ main' \in Late
      /\ round' = round /\ roomJobs' = roomJobs /\ link' = link /\ playing' = playing
      /\ saves' = saves /\ saved' = saved /\ toCut' = toCut /\ warned' = warned
      /\ stopped' \subseteq Stores
  BY <1>1 DEF Exit, Stop, Late, ShutdownTypeOK
<1>3. main' = "exit" => \A q \in Stores : saves'[q] = <<>>
  BY <1>2 DEF Exit, Stop
<1>4. /\ main' \notin Early /\ main' # "draining" /\ main \notin Early
      /\ main' \in Stages
  BY <1>2 DEF Early, Late, Stages
<1>5. ShutdownTypeOK'
  BY <1>1, <1>2, <1>4 DEF ShutdownTypeOK
<1>6. ASSUME ~ warned'
      PROVE  /\ \A c \in playing' : Kept(c)'
             /\ \A c \in Clients : link'[c] \in {"away", "gone"}
             /\ \A x \in Rooms : Under(roomJobs'[x], 0)
  <2>1. /\ \A c \in playing : Kept(c)
        /\ \A c \in Clients : link[c] \in {"away", "gone"}
        /\ \A x \in Rooms : Under(roomJobs[x], 0)
    BY <1>2, <1>4, <1>6 DEF DownInv
  <2>2. \A c \in playing' : Kept(c)'
    BY <1>2, <2>1 DEF Kept, Holds, Carries
  <2> QED BY <1>2, <2>1, <2>2
<1> QED BY <1>2, <1>3, <1>4, <1>5, <1>6, DownNext

(***************************************************************************)
(* The theorems                                                            *)
(***************************************************************************)

LEMMA InitDownInv == ShutdownInit => DownInv
<1> SUFFICES ASSUME ShutdownInit
             PROVE  DownInv
  OBVIOUS
<1>1. /\ main = "serving" /\ round = 0 /\ toCut = {} /\ playing = {} /\ stopped = {}
      /\ saved = {} /\ warned = FALSE
      /\ link = [c \in Clients |-> "away"]
      /\ roomJobs = [r \in Rooms |-> <<>>] /\ saves = [q \in Stores |-> <<>>]
  BY DEF ShutdownInit
<1>2. ShutdownTypeOK
  <2>1. <<>> \in Seq(RoomJob) /\ <<>> \in Seq(Clients)
    OBVIOUS
  <2>2. roomJobs \in [Rooms -> Seq(RoomJob)] /\ saves \in [Stores -> Seq(Clients)]
    BY <1>1, <2>1
  <2>3. link \in [Clients -> Links]
    BY <1>1 DEF Links
  <2>4. round \in 0 .. Rounds /\ main \in Stages
    BY <1>1, ShutdownAssumption DEF Stages
  <2> QED BY <1>1, <2>2, <2>3, <2>4 DEF ShutdownTypeOK
<1>3. \A r \in Rooms : Under(roomJobs[r], Rounds)
  BY <1>1 DEF Under
<1> QED BY <1>1, <1>2, <1>3 DEF DownInv, Early, Late

LEMMA NextDownInv == DownInv /\ [ShutdownNext]_downVars => DownInv'
<1> SUFFICES ASSUME DownInv, [ShutdownNext]_downVars
             PROVE  DownInv'
  OBVIOUS
<1>1. CASE CloseService \/ CopySessions \/ NothingToCut \/ \E c \in Clients : CutNext(c)
  BY <1>1, CutStep
<1>2. CASE Exit \/ \E q \in Stores : Stop(q)
  BY <1>2, EndStep
<1>3. CASE \E inTime \in BOOLEAN : EndOfSessions(inTime) \/ EndOfRound(inTime)
  BY <1>3, EndOfSessionsStep, EndOfRoundStep
<1>4. CASE \E c \in Clients :
             Accept(c) \/ EnterGame(c) \/ LoseClient(c) \/ OnDisconnected(c) \/ RemoveSession(c)
  BY <1>4, ClientStep, OnDisconnectedStep
<1>5. CASE \E r \in Rooms : RunRoomJob(r)
  BY <1>5, RunRoomJobStep
<1>6. CASE \E q \in Stores, done \in BOOLEAN : RunSave(q, done)
  BY <1>6, RunSaveStep
<1>7. CASE UNCHANGED downVars
  BY <1>7 DEF downVars, DownInv, ShutdownTypeOK, Under, Spent, Kept, Holds, Carries
<1> QED BY <1>1, <1>2, <1>3, <1>4, <1>5, <1>6, <1>7 DEF ShutdownNext, MainStep

LEMMA DownInvHolds == ShutdownSpec => []DownInv
  BY InitDownInv, NextDownInv, PTL DEF ShutdownSpec

\* Every variable keeps its type: the state of the main thread, the sessions, the
\* queues and what has been saved.
THEOREM ShutdownTypes == ShutdownSpec => []ShutdownTypeOK
<1>1. DownInv => ShutdownTypeOK
  BY DEF DownInv
<1> QED BY <1>1, DownInvHolds, PTL

\* A server that exits without having logged that a player may be lost (Shutdown,
\* its waits and its drain rounds; the DB threads' saves) has saved everyone who
\* ever played.
THEOREM SavedOnExit == ShutdownSpec => []SavedAtExit
<1>1. ASSUME DownInv, main = "exit", ~ warned, NEW c \in playing
      PROVE  c \in saved
  <2>1. /\ c \in Clients /\ NoClient \notin Clients /\ StoreOf[c] \in Stores
        /\ Kept(c)
    BY <1>1, ShutdownAssumption DEF DownInv, ShutdownTypeOK
  <2>2. main \notin Early /\ main \in Late
    BY <1>1 DEF Early, Late
  <2>3. link[c] \notin {"up", "cut"}
    BY <1>1, <2>1, <2>2 DEF DownInv
  <2>4. ~ Holds(saves[StoreOf[c]], c)
    BY <1>1, <2>1 DEF DownInv, Holds
  <2>5. ASSUME NEW r \in Rooms
        PROVE  ~ Carries(roomJobs[r], c)
    <3>1. Under(roomJobs[r], 0) /\ roomJobs[r] \in Seq(RoomJob)
      BY <1>1, <2>2 DEF DownInv, ShutdownTypeOK
    <3>2. \A i \in 1 .. Len(roomJobs[r]) : roomJobs[r][i].n \in Nat
      BY <3>1, HopsLeft
    <3> QED BY <2>1, <3>1, <3>2 DEF Carries, Under
  <2> QED BY <2>1, <2>3, <2>4, <2>5 DEF Kept
<1>2. DownInv => SavedAtExit
  BY <1>1 DEF SavedAtExit
<1> QED BY <1>2, DownInvHolds, PTL
=============================================================================
