------------------------- MODULE AuthTickets_proofs -------------------------
(***************************************************************************)
(* Proofs about AuthTickets, for any accounts, worlds, tickets and DB      *)
(* threads: types, and that a ticket passes once.                          *)
(***************************************************************************)
EXTENDS AuthTickets, TLAPS

\* A request has its world, a job its ticket.
Asked == \A a \in Accounts : request[a].step # "none" => request[a].world \in Worlds
Carried ==
  \A j \in Worlds \X DBThreads : consume[j].step # "idle" => consume[j].ticket \in Tickets

\* A key that is alive is the one key of a ticket nobody entered with.
Fresh ==
  \A k \in authTicket :
    /\ entered[k.ticket] = <<>>
    /\ drawn[k.ticket] = [world |-> k.world, account |-> k.account]

\* Who has read a key knows what its ticket was issued for.
Read ==
  \A j \in Worlds \X DBThreads : consume[j].step = "del" =>
    /\ consume[j].account \in Accounts
    /\ drawn[consume[j].ticket] = [world |-> j[1], account |-> consume[j].account]

Undrawn == \A t \in Tickets : drawn[t] = NotIssued => entered[t] = <<>>

TicketInv ==
  TicketsTypeOK /\ Asked /\ Carried /\ Fresh /\ Read /\ Undrawn /\ TicketPassesOnce

LEMMA InitTicketInv == TicketsInit => TicketInv
  BY TicketAssumption
  DEF TicketsInit, TicketInv, TicketsTypeOK, Asked, Carried, Fresh, Read, Undrawn,
      TicketPassesOnce, Issue, NotIssued, Key, Request, NoRequest, Consumption,
      NotConsuming

(***************************************************************************)
(* Steps that touch neither keys nor jobs                                  *)
(***************************************************************************)

LEMMA QuietStep ==
  ASSUME TicketInv,
         loginSession' \subseteq Accounts, banned' \subseteq Accounts,
         listed' \subseteq Worlds, running' \subseteq Worlds,
         request' \in [Accounts -> Request],
         \A a \in Accounts : request'[a].step # "none" => request'[a].world \in Worlds,
         UNCHANGED <<authTicket, drawn, consume, entered>>
  PROVE  TicketInv'
  BY DEF TicketInv, TicketsTypeOK, Asked, Carried, Fresh, Read, Undrawn, TicketPassesOnce

LEMMA LoginStep ==
  ASSUME TicketInv, NEW a \in Accounts,
         Login(a) \/ SessionExpires(a) \/ Ban(a) \/ FindStatus(a) \/ FindWorld(a)
           \/ \E w \in Worlds : SelectWorld(a, w)
  PROVE  TicketInv'
<1>1. TicketsTypeOK /\ Asked
  BY DEF TicketInv
<1>2. CASE Login(a) \/ SessionExpires(a) \/ Ban(a)
  BY <1>1, <1>2, QuietStep DEF Login, SessionExpires, Ban, TicketsTypeOK, Asked
<1>3. CASE FindStatus(a) \/ FindWorld(a)
  <2>1. \/ request' = [request EXCEPT ![a] = NoRequest]
        \/ request[a].step # "none" /\ request' = [request EXCEPT ![a].step = "world"]
        \/ request[a].step # "none" /\ request' = [request EXCEPT ![a].step = "ticket"]
    BY <1>3 DEF FindStatus, FindWorld, Step, Answer
  <2>2. NoRequest \in Request /\ NoRequest.step = "none"
    BY DEF NoRequest, Request
  <2>3. request \in [Accounts -> Request]
    BY <1>1 DEF TicketsTypeOK
  <2>4. request' \in [Accounts -> Request]
    <3>1. CASE request' = [request EXCEPT ![a] = NoRequest]
      BY <2>2, <2>3, <3>1
    <3>2. CASE request' = [request EXCEPT ![a].step = "world"]
      BY <2>3, <3>2 DEF Request
    <3>3. CASE request' = [request EXCEPT ![a].step = "ticket"]
      BY <2>3, <3>3 DEF Request
    <3> QED BY <2>1, <3>1, <3>2, <3>3
  <2>5. \A b \in Accounts : request'[b].step # "none" => request'[b].world \in Worlds
    <3>1. CASE request' = [request EXCEPT ![a] = NoRequest]
      BY <1>1, <2>2, <2>3, <3>1 DEF Asked
    <3>2. CASE request[a].step # "none" /\ request' = [request EXCEPT ![a].step = "world"]
      BY <1>1, <2>3, <3>2 DEF Asked, Request
    <3>3. CASE request[a].step # "none" /\ request' = [request EXCEPT ![a].step = "ticket"]
      BY <1>1, <2>3, <3>3 DEF Asked, Request
    <3> QED BY <2>1, <3>1, <3>2, <3>3
  <2> QED BY <1>1, <1>3, <2>4, <2>5, QuietStep DEF FindStatus, FindWorld, TicketsTypeOK
<1>4. ASSUME NEW w \in Worlds, SelectWorld(a, w)
      PROVE  TicketInv'
  <2>1. request' \in [Accounts -> Request]
    BY <1>1, <1>4 DEF SelectWorld, TicketsTypeOK, Request
  <2>2. \A b \in Accounts : request'[b].step # "none" => request'[b].world \in Worlds
    BY <1>1, <1>4 DEF SelectWorld, TicketsTypeOK, Asked
  <2> QED BY <1>1, <1>4, <2>1, <2>2, QuietStep DEF SelectWorld, TicketsTypeOK
<1> QED BY <1>2, <1>3, <1>4

LEMMA ListingStep ==
  ASSUME TicketInv, NEW w \in Worlds, Publish(w) \/ EntryExpires(w) \/ Restart(w)
  PROVE  TicketInv'
<1>1. TicketsTypeOK /\ Asked
  BY DEF TicketInv
<1> QED
  BY <1>1, QuietStep DEF Publish, EntryExpires, Restart, TicketsTypeOK, Asked

(***************************************************************************)
(* The keys                                                                *)
(***************************************************************************)

LEMMA IssueStep ==
  ASSUME TicketInv, NEW a \in Accounts, NEW t \in Tickets, IssueTicket(a, t)
  PROVE  TicketInv'
<1> DEFINE i == [world |-> request[a].world, account |-> a]
<1>1. TicketsTypeOK /\ Asked /\ Carried /\ Fresh /\ Read /\ Undrawn /\ TicketPassesOnce
  BY DEF TicketInv
<1>2. /\ drawn[t] = NotIssued
      /\ drawn' = [drawn EXCEPT ![t] = i]
      /\ authTicket' =
           authTicket \cup {[world |-> request[a].world, ticket |-> t, account |-> a]}
      /\ request' = [request EXCEPT ![a] = NoRequest]
      /\ request[a].world \in Worlds
      /\ UNCHANGED <<loginSession, banned, listed, running, consume, entered>>
  BY <1>1 DEF IssueTicket, Answer, Asked
<1>3. entered[t] = <<>>
  BY <1>1, <1>2 DEF Undrawn
<1>4. i \in Issue /\ i.account \in Accounts /\ i # NotIssued
  BY <1>2, TicketAssumption DEF Issue, NotIssued
<1>5. TicketsTypeOK'
  BY <1>1, <1>2, <1>4 DEF TicketsTypeOK, Key, Request, NoRequest
<1>6. Asked' /\ Carried'
  BY <1>1, <1>2 DEF Asked, Carried, TicketsTypeOK, NoRequest
<1>7. \A k \in authTicket : k.ticket # t
  <2>1. SUFFICES ASSUME NEW k \in authTicket, k.ticket = t
                 PROVE  FALSE
    OBVIOUS
  <2>2. k.account \in Accounts
    BY <1>1 DEF TicketsTypeOK, Key
  <2>3. drawn[t].account = k.account
    <3>1. drawn[k.ticket] = [world |-> k.world, account |-> k.account]
      BY <1>1 DEF Fresh
    <3>2. drawn[k.ticket].account = k.account
      BY <3>1
    <3> QED BY <2>1, <3>2
  <2> QED BY <1>2, <2>2, <2>3, TicketAssumption DEF NotIssued
<1>8. Fresh'
  <2>1. ASSUME NEW k \in authTicket
        PROVE  entered'[k.ticket] = <<>>
               /\ drawn'[k.ticket] = [world |-> k.world, account |-> k.account]
    <3>1. k.ticket \in Tickets \ {t}
      BY <1>1, <1>7 DEF TicketsTypeOK, Key
    <3> QED BY <1>1, <1>2, <3>1 DEF Fresh, TicketsTypeOK
  <2>2. drawn'[t] = i /\ entered'[t] = <<>>
    BY <1>1, <1>2, <1>3 DEF TicketsTypeOK
  <2> DEFINE n == [world |-> request[a].world, ticket |-> t, account |-> a]
  <2>3. entered'[n.ticket] = <<>> /\ drawn'[n.ticket] = [world |-> n.world, account |-> n.account]
    BY <2>2
  <2>4. authTicket' = authTicket \cup {n}
    BY <1>2
  <2> HIDE DEF n
  <2> QED BY <2>1, <2>3, <2>4 DEF Fresh
<1>9. Read'
  <2>1. SUFFICES ASSUME NEW j \in Worlds \X DBThreads, consume[j].step = "del"
                 PROVE  /\ consume[j].account \in Accounts
                        /\ drawn'[consume[j].ticket] =
                             [world |-> j[1], account |-> consume[j].account]
    BY <1>2 DEF Read
  <2>2. /\ consume[j].account \in Accounts
        /\ drawn[consume[j].ticket] = [world |-> j[1], account |-> consume[j].account]
        /\ consume[j].ticket \in Tickets
    BY <1>1, <2>1 DEF Read, Carried
  <2>3. consume[j].ticket # t
    BY <1>2, <2>2, TicketAssumption DEF NotIssued
  <2> QED BY <1>1, <1>2, <2>2, <2>3 DEF TicketsTypeOK
<1>10. Undrawn' /\ TicketPassesOnce'
  BY <1>1, <1>2, <1>3, <1>4 DEF Undrawn, TicketPassesOnce, TicketsTypeOK
<1> QED BY <1>5, <1>6, <1>8, <1>9, <1>10 DEF TicketInv

LEMMA ExpireStep ==
  ASSUME TicketInv, NEW k \in authTicket, TicketExpires(k)
  PROVE  TicketInv'
  BY DEF TicketExpires, TicketInv, TicketsTypeOK, Asked, Carried, Fresh, Read, Undrawn,
         TicketPassesOnce

(***************************************************************************)
(* The jobs on the DB threads                                              *)
(***************************************************************************)

\* A step that changes only what the job j does.
LEMMA JobStep ==
  ASSUME TicketInv, NEW j \in Worlds \X DBThreads, NEW c \in Consumption,
         consume' = [consume EXCEPT ![j] = c],
         c.step # "idle" => c.ticket \in Tickets,
         c.step = "del" => /\ c.account \in Accounts
                           /\ drawn[c.ticket] = [world |-> j[1], account |-> c.account],
         UNCHANGED <<loginSession, banned, listed, running, request, authTicket, drawn,
                     entered>>
  PROVE  TicketInv'
<1>1. TicketsTypeOK /\ Asked /\ Carried /\ Fresh /\ Read /\ Undrawn /\ TicketPassesOnce
  BY DEF TicketInv
<1>2. TicketsTypeOK'
  BY <1>1 DEF TicketsTypeOK
<1>3. \A i \in Worlds \X DBThreads : consume'[i] = IF i = j THEN c ELSE consume[i]
  BY <1>1 DEF TicketsTypeOK
<1>4. Carried' /\ Read'
  BY <1>1, <1>3 DEF Carried, Read
<1>5. Asked' /\ Fresh' /\ Undrawn' /\ TicketPassesOnce'
  BY <1>1 DEF Asked, Fresh, Undrawn, TicketPassesOnce
<1> QED BY <1>2, <1>4, <1>5 DEF TicketInv

LEMMA NotConsumingType == NotConsuming \in Consumption /\ NotConsuming.step = "idle"
  BY DEF NotConsuming, Consumption

LEMMA ConnectStep ==
  ASSUME TicketInv, NEW w \in Worlds, NEW d \in DBThreads, NEW t \in Tickets,
         ConnectLobby(w, d, t)
  PROVE  TicketInv'
<1> DEFINE c == [NotConsuming EXCEPT !.step = "get", !.ticket = t]
<1>1. c \in Consumption /\ c.step = "get" /\ c.ticket = t
  BY DEF NotConsuming, Consumption
<1>2. consume' = [consume EXCEPT ![<<w, d>>] = c]
  BY DEF ConnectLobby
<1> QED BY <1>1, <1>2, JobStep DEF ConnectLobby

LEMMA GetStep ==
  ASSUME TicketInv, NEW w \in Worlds, NEW d \in DBThreads, GetTicket(w, d)
  PROVE  TicketInv'
<1> DEFINE j == <<w, d>>
           t == consume[j].ticket
<1>1. TicketsTypeOK /\ Carried /\ Fresh
  BY DEF TicketInv
<1>2. consume[j] \in Consumption /\ t \in Tickets
  BY <1>1 DEF GetTicket, TicketsTypeOK, Carried
<1>3. CASE KeysOf(w, t) = {}
  BY <1>3, NotConsumingType, JobStep DEF GetTicket, Give
<1>4. CASE KeysOf(w, t) # {}
  <2>1. PICK k \in KeysOf(w, t) :
          consume' = [consume EXCEPT ![j].step = "del", ![j].account = k.account]
    BY <1>4 DEF GetTicket
  <2> DEFINE c == [consume[j] EXCEPT !.step = "del", !.account = k.account]
  <2>2. consume' = [consume EXCEPT ![j] = c]
    BY <1>1, <2>1 DEF TicketsTypeOK
  <2>3. k \in authTicket /\ k.world = w /\ k.ticket = t /\ k.account \in Accounts
    BY <1>1, <2>1 DEF KeysOf, TicketsTypeOK, Key
  <2>4. c \in Consumption /\ c.ticket = t /\ c.account = k.account
    BY <1>2, <2>3 DEF Consumption
  <2>5. drawn[t] = [world |-> w, account |-> k.account]
    BY <1>1, <2>3 DEF Fresh
  <2> QED BY <1>2, <2>2, <2>3, <2>4, <2>5, JobStep DEF GetTicket
<1> QED BY <1>3, <1>4

LEMMA DeleteStep ==
  ASSUME TicketInv, NEW w \in Worlds, NEW d \in DBThreads, DeleteTicket(w, d)
  PROVE  TicketInv'
<1> DEFINE j == <<w, d>>
           t == consume[j].ticket
           i == [world |-> w, account |-> consume[j].account]
<1>1. TicketsTypeOK /\ Asked /\ Carried /\ Fresh /\ Read /\ Undrawn /\ TicketPassesOnce
  BY DEF TicketInv
<1>2. /\ t \in Tickets
      /\ consume[j].account \in Accounts
      /\ drawn[t] = i
  BY <1>1 DEF DeleteTicket, Carried, Read
<1>3. consume' = [consume EXCEPT ![j] = NotConsuming]
  BY DEF DeleteTicket, Give
<1>4. CASE KeysOf(w, t) = {}
  BY <1>3, <1>4, NotConsumingType, JobStep DEF DeleteTicket
<1>5. CASE KeysOf(w, t) # {}
  <2>1. /\ authTicket' = authTicket \ KeysOf(w, t)
        /\ entered' = [entered EXCEPT ![t] = Append(@, i)]
        /\ UNCHANGED <<loginSession, banned, listed, running, request, drawn>>
    <3>1. Pass(w, d)
      BY <1>5 DEF DeleteTicket
    <3>2. entered' = [entered EXCEPT ![t] = Append(@, i)]
      BY <3>1 DEF Pass
    <3> QED BY <1>5, <3>2 DEF DeleteTicket
  <2>2. entered[t] = <<>>
    <3>1. PICK k \in authTicket : k.ticket = t
      BY <1>5 DEF KeysOf
    <3>2. entered[k.ticket] = <<>>
      BY <1>1 DEF Fresh
    <3> QED BY <3>1, <3>2
  <2>3. entered' = [entered EXCEPT ![t] = <<i>>]
    BY <1>1, <2>1, <2>2 DEF TicketsTypeOK
  <2>4. i \in Issue /\ i # NotIssued
    BY <1>2, TicketAssumption DEF Issue, NotIssued
  <2>5. TicketsTypeOK'
    <3>1. <<i>> \in Seq(Issue)
      BY <2>4
    <3>2. entered' \in [Tickets -> Seq(Issue)]
      BY <1>1, <2>3, <3>1 DEF TicketsTypeOK
    <3>3. consume' \in [Worlds \X DBThreads -> Consumption]
      BY <1>1, <1>3, NotConsumingType DEF TicketsTypeOK
    <3> QED BY <1>1, <2>1, <3>2, <3>3 DEF TicketsTypeOK
  <2>6. Asked'
    BY <1>1, <2>1 DEF Asked
  <2>7. Carried' /\ Read'
    <3>1. \A x \in Worlds \X DBThreads :
            consume'[x] = IF x = j THEN NotConsuming ELSE consume[x]
      BY <1>1, <1>3 DEF TicketsTypeOK
    <3> QED BY <1>1, <2>1, <3>1, NotConsumingType DEF Carried, Read
  <2>8. Fresh'
    <3>1. SUFFICES ASSUME NEW k \in authTicket \ KeysOf(w, t)
                   PROVE  /\ entered'[k.ticket] = <<>>
                          /\ drawn[k.ticket] = [world |-> k.world, account |-> k.account]
      BY <2>1 DEF Fresh
    <3>2. drawn[k.ticket] = [world |-> k.world, account |-> k.account]
      BY <1>1 DEF Fresh
    <3>3. k.ticket # t
      BY <1>2, <3>1, <3>2 DEF KeysOf
    <3> QED BY <1>1, <2>3, <3>2, <3>3 DEF Fresh, TicketsTypeOK, Key
  <2>9. Undrawn' /\ TicketPassesOnce'
    BY <1>1, <1>2, <2>1, <2>3, <2>4 DEF Undrawn, TicketPassesOnce, TicketsTypeOK
  <2> QED BY <2>5, <2>6, <2>7, <2>8, <2>9 DEF TicketInv
<1> QED BY <1>4, <1>5

LEMMA FailStep ==
  ASSUME TicketInv, NEW w \in Worlds, NEW d \in DBThreads, RedisFails(w, d)
  PROVE  TicketInv'
  BY NotConsumingType, JobStep DEF RedisFails, Give

LEMMA CrashStep ==
  ASSUME TicketInv, NEW w \in Worlds, Crash(w)
  PROVE  TicketInv'
<1>1. TicketsTypeOK /\ Asked /\ Carried /\ Fresh /\ Read /\ Undrawn /\ TicketPassesOnce
  BY DEF TicketInv
<1>2. consume' \in [Worlds \X DBThreads -> Consumption]
  BY <1>1, NotConsumingType DEF Crash, TicketsTypeOK
<1>3. TicketsTypeOK'
  BY <1>1, <1>2 DEF Crash, TicketsTypeOK
<1>4. \A j \in Worlds \X DBThreads : consume'[j] \in {NotConsuming, consume[j]}
  BY DEF Crash
<1>5. Carried' /\ Read'
  BY <1>1, <1>4, NotConsumingType DEF Crash, Carried, Read
<1>6. Asked' /\ Fresh' /\ Undrawn' /\ TicketPassesOnce'
  BY <1>1 DEF Crash, Asked, Fresh, Undrawn, TicketPassesOnce
<1> QED BY <1>3, <1>5, <1>6 DEF TicketInv

(***************************************************************************)
(* The theorems                                                            *)
(***************************************************************************)

LEMMA NextTicketInv == TicketInv /\ [TicketsNext]_ticketVars => TicketInv'
<1> SUFFICES ASSUME TicketInv, [TicketsNext]_ticketVars
             PROVE  TicketInv'
  OBVIOUS
<1>1. CASE UNCHANGED ticketVars
  BY <1>1 DEF ticketVars, TicketInv, TicketsTypeOK, Asked, Carried, Fresh, Read, Undrawn,
              TicketPassesOnce
<1>2. ASSUME NEW a \in Accounts, AuthServerStep(a)
      PROVE  TicketInv'
  BY <1>2, LoginStep, IssueStep DEF AuthServerStep
<1>3. ASSUME NEW k \in authTicket, TicketExpires(k)
      PROVE  TicketInv'
  BY <1>3, ExpireStep
<1>4. ASSUME NEW w \in Worlds, GameServerStep(w)
      PROVE  TicketInv'
  BY <1>4, ListingStep, CrashStep, ConnectStep, GetStep, DeleteStep, FailStep
     DEF GameServerStep
<1> QED BY <1>1, <1>2, <1>3, <1>4 DEF TicketsNext

LEMMA TicketInvHolds == TicketsSpec => []TicketInv
  BY InitTicketInv, NextTicketInv, PTL DEF TicketsSpec

\* The variables of the login and ticket flow keep their types.
THEOREM TicketTypes == TicketsSpec => []TicketsTypeOK
<1>1. TicketInv => TicketsTypeOK
  BY DEF TicketInv
<1> QED BY <1>1, TicketInvHolds, PTL

\* Whatever jobs consume a ticket, on any thread of any game server, crashes and
\* expiries included, it lets one connection in at most, in its world and as its
\* account (AuthTicket::Consume).
THEOREM TicketsPassOnce == TicketsSpec => []TicketPassesOnce
<1>1. TicketInv => TicketPassesOnce
  BY DEF TicketInv
<1> QED BY <1>1, TicketInvHolds, PTL
=============================================================================
