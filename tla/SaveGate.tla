------------------------------ MODULE SaveGate ------------------------------
(***************************************************************************)
(* GameServer/Network/SaveGate: one mark per account (user) that says "a   *)
(* progress save of this account is not finished", and at most one parked  *)
(* load per mark.  Every operation runs under the gate's lock, so each is   *)
(* one atomic action on the gate's variables.                              *)
(*                                                                         *)
(* The C++ map holds an entry only for held accounts; here `held' is the   *)
(* set of its keys and `parked' the optional load of each entry.           *)
(***************************************************************************)
EXTENDS ServerWorld

VARIABLES
  held,       \* accounts with an entry in SaveGate::_entries
  parked,     \* Entry::parked and Entry::token of each account
  nextToken   \* SaveGate::_nextToken

gateVars == <<held, parked, nextToken>>

NoLoad == [kind |-> "none"]

(***************************************************************************)
(* What a parked callback does when it is run: the load of a game entry    *)
(* ("load") or the character list of a lobby return ("accept").            *)
(***************************************************************************)
ParkedLoad == [kind : {"load", "accept"}, session : Sessions, token : Nat]

GateTypeOK ==
  /\ held \subseteq Users
  /\ parked \in [Users -> ParkedLoad \cup {NoLoad}]
  /\ nextToken \in Nat

GateInit ==
  /\ held = {}
  /\ parked = [u \in Users |-> NoLoad]
  /\ nextToken = 1

(***************************************************************************)
(* Hold: try_emplace, so a mark that exists keeps its parked load.         *)
(***************************************************************************)
Hold(u) ==
  /\ held' = held \cup {u}
  /\ UNCHANGED <<parked, nextToken>>

(***************************************************************************)
(* Park: the load is kept only for a held account without a parked load.   *)
(* The caller acts on the result.                                          *)
(***************************************************************************)
ParkResult(u) ==
  IF u \notin held THEN "NOT_HELD"
  ELSE IF parked[u] # NoLoad THEN "BUSY" ELSE "PARKED"

Park(u, kind, s) ==
  IF ParkResult(u) = "PARKED"
  THEN /\ parked' = [parked EXCEPT ![u] =
                       [kind |-> kind, session |-> s, token |-> nextToken]]
       /\ nextToken' = nextToken + 1
       /\ UNCHANGED held
  ELSE UNCHANGED gateVars

(***************************************************************************)
(* Release: erase the entry.  The caller receives parked[u] as it was.     *)
(***************************************************************************)
Release(u) ==
  /\ held' = held \ {u}
  /\ parked' = [parked EXCEPT ![u] = NoLoad]
  /\ UNCHANGED nextToken

(***************************************************************************)
(* Expire: take the load out when it is still the one the timer was set    *)
(* for.  The mark stays: the save it waits for is still to come.           *)
(***************************************************************************)
Expires(u, token) == parked[u] # NoLoad /\ parked[u].token = token

Expire(u, token) ==
  /\ parked' = IF Expires(u, token) THEN [parked EXCEPT ![u] = NoLoad] ELSE parked
  /\ UNCHANGED <<held, nextToken>>
=============================================================================
