---------------------------- MODULE AuthTickets ----------------------------
(***************************************************************************)
(* The way from a login to a world: the auth server (AuthServer/src:       *)
(* login, world selection) writes login sessions and tickets to Redis, a   *)
(* game server lists its world there and consumes the tickets in jobs on   *)
(* its DB threads (GameServer/Network/AuthTicket.cpp, WorldListing.cpp).   *)
(*                                                                         *)
(* A request of the auth server gives way at every await, and a ticket is  *)
(* consumed by two calls of Redis, GET and DEL.  Anything can happen       *)
(* between: a ban, an expiry, a crash, an exception of the Redis client,   *)
(* the same ticket on another thread.                                      *)
(***************************************************************************)
EXTENDS Naturals, Sequences

CONSTANTS
  Accounts,
  Worlds,       \* a game server each
  Tickets,      \* the UUIDs that selectWorld draws
  DBThreads,    \* the DB threads of each game server
  NoAccount, NoTicket, NoWorld

ASSUME TicketAssumption ==
  /\ NoAccount \notin Accounts
  /\ NoTicket \notin Tickets
  /\ NoWorld \notin Worlds

VARIABLES
  loginSession, \* accounts with a live loginSession key
  banned,       \* accounts whose BannedUntil lies ahead
  listed,       \* worlds whose entry in Redis is alive
  running,      \* game servers that run
  request,      \* the selectWorld request of each account
  authTicket,   \* the live authTicket:<world>:<ticket> keys, with their account
  drawn,        \* history: what each ticket was issued for
  consume,      \* what each DB thread is doing
  entered       \* history: where and as whom each ticket let someone in

ticketVars == <<loginSession, banned, listed, running, request, authTicket, drawn,
                consume, entered>>

Issue == [world : Worlds \cup {NoWorld}, account : Accounts \cup {NoAccount}]
NotIssued == [world |-> NoWorld, account |-> NoAccount]
Key == [world : Worlds, ticket : Tickets, account : Accounts]
Request == [step : {"none", "status", "world", "ticket"}, world : Worlds \cup {NoWorld}]
NoRequest == [step |-> "none", world |-> NoWorld]
Consumption ==
  [step : {"idle", "get", "del"}, ticket : Tickets \cup {NoTicket},
   account : Accounts \cup {NoAccount}]
NotConsuming == [step |-> "idle", ticket |-> NoTicket, account |-> NoAccount]

\* Every ticket in Redis names a world and an account, whatever requests of the auth
\* server and jobs of the game servers cross.
TicketsTypeOK ==
  /\ loginSession \subseteq Accounts
  /\ banned \subseteq Accounts
  /\ listed \subseteq Worlds
  /\ running \subseteq Worlds
  /\ request \in [Accounts -> Request]
  /\ authTicket \subseteq Key
  /\ drawn \in [Tickets -> Issue]
  /\ consume \in [Worlds \X DBThreads -> Consumption]
  /\ entered \in [Tickets -> Seq(Issue)]

TicketsInit ==
  /\ loginSession = {}
  /\ banned = {}
  /\ listed = {}
  /\ running = Worlds
  /\ request = [a \in Accounts |-> NoRequest]
  /\ authTicket = {}
  /\ drawn = [t \in Tickets |-> NotIssued]
  /\ consume = [j \in Worlds \X DBThreads |-> NotConsuming]
  /\ entered = [t \in Tickets |-> <<>>]

(***************************************************************************)
(* The auth server                                                         *)
(***************************************************************************)

\* AuthService.login with the right password; login sessions are not told apart.  A ban
\* between its awaits leaves what a ban right after it leaves, so it is one step.
Login(a) ==
  /\ a \notin banned
  /\ loginSession' = loginSession \cup {a}
  /\ UNCHANGED <<banned, listed, running, request, authTicket, drawn, consume, entered>>

SessionExpires(a) ==
  /\ loginSession' = loginSession \ {a}
  /\ UNCHANGED <<banned, listed, running, request, authTicket, drawn, consume, entered>>

Ban(a) ==
  /\ banned' = banned \cup {a}
  /\ UNCHANGED <<loginSession, listed, running, request, authTicket, drawn, consume, entered>>

Step(a, step) == request' = [request EXCEPT ![a].step = step]
Answer(a) == request' = [request EXCEPT ![a] = NoRequest]

\* selectWorld, await by await: the login session,
SelectWorld(a, w) ==
  /\ request[a] = NoRequest
  /\ a \in loginSession
  /\ request' = [request EXCEPT ![a] = [step |-> "status", world |-> w]]
  /\ UNCHANGED <<loginSession, banned, listed, running, authTicket, drawn, consume, entered>>

\* the ban,
FindStatus(a) ==
  /\ request[a].step = "status"
  /\ IF a \in banned THEN Answer(a) ELSE Step(a, "world")
  /\ UNCHANGED <<loginSession, banned, listed, running, authTicket, drawn, consume, entered>>

\* the world's entry,
FindWorld(a) ==
  /\ request[a].step = "world"
  /\ IF request[a].world \in listed THEN Step(a, "ticket") ELSE Answer(a)
  /\ UNCHANGED <<loginSession, banned, listed, running, authTicket, drawn, consume, entered>>

\* a ticket nobody drew before.
IssueTicket(a, t) ==
  /\ request[a].step = "ticket"
  /\ drawn[t] = NotIssued
  /\ drawn' = [drawn EXCEPT ![t] = [world |-> request[a].world, account |-> a]]
  /\ authTicket' = authTicket \cup {[world |-> request[a].world, ticket |-> t, account |-> a]}
  /\ Answer(a)
  /\ UNCHANGED <<loginSession, banned, listed, running, consume, entered>>

TicketExpires(k) ==
  /\ k \in authTicket
  /\ authTicket' = authTicket \ {k}
  /\ UNCHANGED <<loginSession, banned, listed, running, request, drawn, consume, entered>>

(***************************************************************************)
(* A game server                                                           *)
(***************************************************************************)

\* WorldListing::Publish, and the TTL that one transaction sets with the entry.
Publish(w) ==
  /\ w \in running
  /\ listed' = listed \cup {w}
  /\ UNCHANGED <<loginSession, banned, running, request, authTicket, drawn, consume, entered>>

EntryExpires(w) ==
  /\ listed' = listed \ {w}
  /\ UNCHANGED <<loginSession, banned, running, request, authTicket, drawn, consume, entered>>

\* The process ends with the jobs on its DB threads, or starts again.
Crash(w) ==
  /\ w \in running
  /\ running' = running \ {w}
  /\ consume' = [j \in Worlds \X DBThreads |->
                   IF j[1] = w THEN NotConsuming ELSE consume[j]]
  /\ UNCHANGED <<loginSession, banned, listed, request, authTicket, drawn, entered>>

Restart(w) ==
  /\ w \notin running
  /\ running' = running \cup {w}
  /\ UNCHANGED <<loginSession, banned, listed, request, authTicket, drawn, consume, entered>>

\* Handle_C_CONNECT_LOBBY: a job on any DB thread, with the ticket the client sent.
ConnectLobby(w, d, t) ==
  /\ w \in running
  /\ consume[<<w, d>>] = NotConsuming
  /\ consume' = [consume EXCEPT ![<<w, d>>] = [NotConsuming EXCEPT !.step = "get", !.ticket = t]]
  /\ UNCHANGED <<loginSession, banned, listed, running, request, authTicket, drawn, entered>>

Give(w, d) == consume' = [consume EXCEPT ![<<w, d>>] = NotConsuming]

KeysOf(w, t) == {k \in authTicket : k.world = w /\ k.ticket = t}

\* AuthTicket::Consume, its GET under the key of this world,
GetTicket(w, d) ==
  LET found == KeysOf(w, consume[<<w, d>>].ticket) IN
  /\ consume[<<w, d>>].step = "get"
  /\ IF found = {} THEN Give(w, d)
     ELSE \E k \in found :
            consume' = [consume EXCEPT ![<<w, d>>].step = "del", ![<<w, d>>].account = k.account]
  /\ UNCHANGED <<loginSession, banned, listed, running, request, authTicket, drawn, entered>>

Pass(w, d) ==
  LET c == consume[<<w, d>>]
  IN entered' = [entered EXCEPT ![c.ticket] =
                   Append(@, [world |-> w, account |-> c.account])]

\* Deviation: whoever read the value passes.
DeleteTicket_ReaderPasses(w, d) ==
  LET found == KeysOf(w, consume[<<w, d>>].ticket) IN
  /\ consume[<<w, d>>].step = "del"
  /\ authTicket' = authTicket \ found
  /\ Pass(w, d)
  /\ Give(w, d)
  /\ UNCHANGED <<loginSession, banned, listed, running, request, drawn>>

\* and its DEL: only who deleted the key passes.
DeleteTicket(w, d) ==
  LET found == KeysOf(w, consume[<<w, d>>].ticket) IN
  /\ consume[<<w, d>>].step = "del"
  /\ authTicket' = authTicket \ found
  /\ IF found = {} THEN UNCHANGED entered ELSE Pass(w, d)
  /\ Give(w, d)
  /\ UNCHANGED <<loginSession, banned, listed, running, request, drawn>>

\* The Redis client throws and DBWorker::RunJob ends the job: no answer, nobody passes.
\* (A DEL whose answer is lost is an expiry and then this.)
RedisFails(w, d) ==
  /\ consume[<<w, d>>].step # "idle"
  /\ Give(w, d)
  /\ UNCHANGED <<loginSession, banned, listed, running, request, authTicket, drawn, entered>>

AuthServerStep(a) ==
  \/ Login(a) \/ SessionExpires(a) \/ Ban(a) \/ FindStatus(a) \/ FindWorld(a)
  \/ \E w \in Worlds : SelectWorld(a, w)
  \/ \E t \in Tickets : IssueTicket(a, t)

GameServerStep(w) ==
  \/ Publish(w) \/ EntryExpires(w) \/ Crash(w) \/ Restart(w)
  \/ \E d \in DBThreads :
       \/ GetTicket(w, d) \/ DeleteTicket(w, d) \/ RedisFails(w, d)
       \/ \E t \in Tickets : ConnectLobby(w, d, t)

TicketsNext ==
  \/ \E a \in Accounts : AuthServerStep(a)
  \/ \E k \in authTicket : TicketExpires(k)
  \/ \E w \in Worlds : GameServerStep(w)

TicketsSpec == TicketsInit /\ [][TicketsNext]_ticketVars

(***************************************************************************)
(* Properties                                                              *)
(***************************************************************************)

\* A ticket lets one connection in at most, only in the world it was issued for and
\* only as the account that asked for it, however many jobs of however many game
\* servers consume it at the same time (the comment in AuthTicket::Consume).
TicketPassesOnce ==
  \A t \in Tickets : entered[t] \in {<<>>, <<drawn[t]>>}
=============================================================================
