--------------------------- MODULE ProgressLease ---------------------------
(***************************************************************************)
(* What the server promises about the progress of an account, without the  *)
(* machinery: the progress is lent to one player object at a time.  A       *)
(* player that never entered a room hands it back unchanged; one that did  *)
(* hands it back by being saved, once.  Only then is it lent again.        *)
(* (ProgressCoordinator.h: a load does not run before the save of the same *)
(* account has ended.)                                                     *)
(***************************************************************************)
EXTENDS Integers

CONSTANTS
  LeaseUsers,   \* accounts
  LeasePlayers, \* player objects
  NoBorrower

VARIABLES
  stage,    \* what has become of each player object
  borrower  \* the account a player object was loaded for

LeaseInit ==
  /\ stage = [p \in LeasePlayers |-> "fresh"]
  /\ borrower = [p \in LeasePlayers |-> NoBorrower]

(* The account's progress is with nobody.                                  *)
Free(u) ==
  \A p \in LeasePlayers : borrower[p] = u => stage[p] \in {"unplayed", "saved"}

Lend(u, p) ==
  /\ stage[p] = "fresh" /\ Free(u)
  /\ stage' = [stage EXCEPT ![p] = "lent"]
  /\ borrower' = [borrower EXCEPT ![p] = u]

(* From here on the player's progress may differ from the database.        *)
Play(p) ==
  /\ stage[p] = "lent"
  /\ stage' = [stage EXCEPT ![p] = "played"]
  /\ UNCHANGED borrower

HandBack(p) ==
  /\ stage[p] = "lent"
  /\ stage' = [stage EXCEPT ![p] = "unplayed"]
  /\ UNCHANGED borrower

Save(p) ==
  /\ stage[p] = "played"
  /\ stage' = [stage EXCEPT ![p] = "saved"]
  /\ UNCHANGED borrower

LeaseNext ==
  \/ \E u \in LeaseUsers, p \in LeasePlayers : Lend(u, p)
  \/ \E p \in LeasePlayers : Play(p) \/ HandBack(p) \/ Save(p)

LeaseSpec == LeaseInit /\ [][LeaseNext]_<<stage, borrower>>
=============================================================================
