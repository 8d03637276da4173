--------------------------- MODULE MCServerParts ---------------------------
(***************************************************************************)
(* Four parts of the server that share no variable, side by side: a        *)
(* behaviour chooses one of them at the start and runs it alone.  The      *)
(* states are the sum of the parts', not their product.                    *)
(***************************************************************************)
EXTENDS SocketSessions, ServerShutdown, AuthTickets, PlayerProgress, TLC

CONSTANTS s1, s2, t1, t2, c1, c2, r1, r2, q1, q2, a1, a2, w1, w2, k1, k2, d1, d2,
          coat, hat, elixir

StoreOfClient == c1 :> q1 @@ c2 :> q2
BothForTheBody == coat :> "armor" @@ hat :> "armor"
CoatGivesMore == coat :> 3 @@ hat :> 1
CoatNeedsLevelTwo == coat :> 2 @@ hat :> 1
ThreeLevels == <<0, 10, 20>>
HpOfLevels == <<2, 3, 4>>

VARIABLE part

vars == <<part, netVars, downVars, ticketVars, progressVars>>

Init ==
  /\ part \in {"connections", "shutdown", "tickets", "progress"}
  /\ NetInit /\ ShutdownInit /\ TicketsInit /\ ProgressInit

Next ==
  \/ /\ part = "connections"
     /\ NetNext
     /\ UNCHANGED <<part, downVars, ticketVars, progressVars>>
  \/ /\ part = "shutdown"
     /\ ShutdownNext
     /\ UNCHANGED <<part, netVars, ticketVars, progressVars>>
  \/ /\ part = "tickets"
     /\ TicketsNext
     /\ UNCHANGED <<part, netVars, downVars, progressVars>>
  \/ /\ part = "progress"
     /\ ProgressNext
     /\ UNCHANGED <<part, netVars, downVars, ticketVars>>

Spec == Init /\ [][Next]_vars /\ NetFairness
=============================================================================
