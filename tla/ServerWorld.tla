----------------------------- MODULE ServerWorld -----------------------------
(***************************************************************************)
(* The sets the game-server modules speak about: network sessions, the     *)
(* accounts they log in to, the player objects a server run creates, and   *)
(* the rooms (channels) of the maps.                                       *)
(***************************************************************************)
EXTENDS Integers, Sequences

CONSTANTS
  Sessions,   \* GameSession objects, one per TCP connection
  Users,      \* accounts (int64 userId)
  UserOf,     \* the account whose auth ticket a session presents
  NoSession,
  Rooms,      \* Room objects; a map has one room per channel
  Maps,
  MapOf,      \* the map a room is a copy of
  NoRoom,
  MaxPlayers  \* bound: player objects created in one run

ASSUME WorldAssumption ==
  /\ UserOf \in [Sessions -> Users]
  /\ MapOf \in [Rooms -> Maps]
  /\ NoSession \notin Sessions
  /\ NoRoom \notin Rooms
  /\ MaxPlayers \in Nat

(***************************************************************************)
(* Player objects are numbered in the order they are created; 0 stands for *)
(* a null PlayerRef.                                                       *)
(***************************************************************************)
Players == 1 .. MaxPlayers
NoPlayer == 0
=============================================================================
