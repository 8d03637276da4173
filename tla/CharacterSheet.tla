--------------------------- MODULE CharacterSheet ---------------------------
(***************************************************************************)
(* What the server promises a player about a character, without slots,     *)
(* stacks, worn parts, sessions and saves: what the character has changes  *)
(* by a purchase, a sale and the use of a potion, its gold by these and by *)
(* rewards, and a level that was reached is never lost.  Equipping,        *)
(* moving, dying, leaving the game and coming back change nothing of it.   *)
(***************************************************************************)
EXTENDS Integers

CONSTANTS Wares, Usable, BuyPrice, SellPrice, Levels, Bounties

VARIABLES
  has,     \* how many of each ware
  purse,
  reached  \* the level

Init ==
  /\ has = [x \in Wares |-> 0]
  /\ purse = 0
  /\ reached = 1

Buy(x) ==
  /\ purse >= BuyPrice
  /\ has' = [has EXCEPT ![x] = @ + 1]
  /\ purse' = purse - BuyPrice
  /\ UNCHANGED reached

Sell(x) ==
  /\ has[x] > 0
  /\ has' = [has EXCEPT ![x] = @ - 1]
  /\ purse' = purse + SellPrice
  /\ UNCHANGED reached

Use(x) ==
  /\ has[x] > 0
  /\ has' = [has EXCEPT ![x] = @ - 1]
  /\ UNCHANGED <<purse, reached>>

Reward(bounty) ==
  /\ purse' = purse + bounty
  /\ reached' \in {l \in Levels : l >= reached}
  /\ UNCHANGED has

Next ==
  \/ \E x \in Wares : Buy(x) \/ Sell(x)
  \/ \E x \in Usable : Use(x)
  \/ \E bounty \in Bounties : Reward(bounty)

Spec == Init /\ [][Next]_<<has, purse, reached>>
=============================================================================
