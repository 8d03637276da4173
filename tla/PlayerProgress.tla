--------------------------- MODULE PlayerProgress ---------------------------
(***************************************************************************)
(* What a character owns and has reached: bags, worn gear, quick slots,    *)
(* gold, experience, level and HP, through every request that changes them *)
(* (Game/Entities/Player.cpp with the components in Game/Inventory,        *)
(* Game/Items, Game/Equipment, Game/QuickSlots and Game/Progress), through *)
(* death, the save at the end of the session and the next load.            *)
(*                                                                         *)
(* While the character is offline the variables are the saved row.  MP is  *)
(* kept like HP and miscellaneous items like consumables: one of each.     *)
(* Every request of an entity is one job of its room, so one action.       *)
(***************************************************************************)
EXTENDS Integers, FiniteSets

CONSTANTS
  Gear, Potions,  \* templates: what is worn, and what stacks and is used
  PartOf,         \* the part of the body each gear is for
  HpBonus,        \* the HP each gear gives
  Needs,          \* the level each gear needs
  MaxStack,       \* of a potion; gear does not stack
  SlotCount,      \* slots of a section
  QuickSlots,
  BuyPrice, SellPrice,
  MaxLevel,
  LevelStart,     \* the level table, as the experience at which each level starts
  ClassHp,        \* ClassLevelStat.MaxHp of each level
  Hits, Rewards, Bounties,   \* damage, experience and gold that come in
  MaxGold, MaxUid,           \* bounds on gold and on the items that are made
  NoItem, NoRef

Parts == {"weapon", "armor"}  \* two of the six GearParts
Levels == 1 .. MaxLevel
Slots == 1 .. SlotCount

\* What Tools/DataBuilder enforces (a level requires something, the last one nothing),
\* and what holds of the shipped tables (an HP above one that no level lowers).  The
\* server checks neither when it loads them.
ASSUME ProgressAssumption ==
  /\ Gear \cap Potions = {}
  /\ PartOf \in [Gear -> Parts]
  /\ HpBonus \in [Gear -> Nat]
  /\ Needs \in [Gear -> Nat]
  /\ MaxStack \in Nat \ {0}
  /\ SlotCount \in Nat
  /\ QuickSlots \subseteq Nat
  /\ BuyPrice \in Nat /\ SellPrice \in Nat
  /\ MaxLevel \in Nat \ {0}
  /\ LevelStart \in [Levels -> Nat]
  /\ LevelStart[1] = 0
  /\ \A l, k \in Levels : l < k => LevelStart[l] < LevelStart[k]
  /\ ClassHp \in [Levels -> Nat \ {0, 1}]
  /\ \A l, k \in Levels : l <= k => ClassHp[l] <= ClassHp[k]
  /\ Hits \subseteq Nat /\ Rewards \subseteq Nat /\ Bounties \subseteq Nat
  /\ MaxGold \in Nat /\ MaxUid \in Nat
  /\ NoRef \notin Potions
  /\ NoItem \notin [uid : Nat \ {0}, template : Gear \cup Potions, count : Nat \ {0}]

VARIABLES
  online,
  bag,      \* InventoryComponent::_sections
  worn,     \* EquipmentComponent::_equipped
  quick,    \* QuickSlotComponent::_slots
  gold,
  exp,      \* _totalExp
  level,
  maxHp, hp,
  dead,     \* _isDead, which is not saved
  made,     \* how many item uids were drawn
  ledger    \* history: of each template, what was bought and not sold or used

progressVars == <<online, bag, worn, quick, gold, exp, level, maxHp, hp, dead, made, ledger>>
stats == <<exp, level, maxHp, hp, dead>>
goods == <<bag, worn, gold, made, ledger>>

Templates == Gear \cup Potions
Sections == {"gear", "consumable"}
SectionOf(x) == IF x \in Gear THEN "gear" ELSE "consumable"
StackOf(x) == IF x \in Gear THEN 1 ELSE MaxStack

Item == [uid : Nat \ {0}, template : Templates, count : Nat \ {0}]
Slot == Item \cup {NoItem}

\* Stacks are never empty, experience stays below the end of the table, gold and HP are
\* never negative.
ProgressTypeOK ==
  /\ online \in BOOLEAN
  /\ bag \in [Sections -> [Slots -> Slot]]
  /\ worn \in [Parts -> Slot]
  /\ quick \in [QuickSlots -> Potions \cup {NoRef}]
  /\ gold \in Nat
  /\ exp \in 0 .. LevelStart[MaxLevel]
  /\ level \in Levels
  /\ maxHp \in Nat
  /\ hp \in Nat
  /\ dead \in BOOLEAN
  /\ made \in Nat
  /\ ledger \in [Templates -> Int]

\* A character at its first entry.
ProgressInit ==
  /\ online = FALSE
  /\ bag = [c \in Sections |-> [i \in Slots |-> NoItem]]
  /\ worn = [p \in Parts |-> NoItem]
  /\ quick = [q \in QuickSlots |-> NoRef]
  /\ gold = 0
  /\ exp = 0
  /\ level = 1
  /\ maxHp = ClassHp[1]
  /\ hp = ClassHp[1]
  /\ dead = FALSE
  /\ made = 0
  /\ ledger = [x \in Templates |-> 0]

(***************************************************************************)
(* Levels and stats                                                        *)
(***************************************************************************)

Least(S) == CHOOSE i \in S : \A j \in S : i <= j
Greatest(S) == CHOOSE i \in S : \A j \in S : j <= i
Lesser(a, b) == IF a <= b THEN a ELSE b

\* Leveling::Locate
LevelOf(e) == Greatest({l \in Levels : LevelStart[l] <= e})

\* Leveling::AddExp: what is above the start of the last level is dropped.
AddExp(e, gained) == Lesser(e + gained, LevelStart[MaxLevel])

\* The row of the last level requires 0.
ExpRequirement(l) == IF l = MaxLevel THEN 0 ELSE LevelStart[l + 1] - LevelStart[l]

\* Deviation: the penalty does not stop at the start of the level.
ApplyDeathPenalty_NoFloor(e) == e - Lesser((ExpRequirement(LevelOf(e)) * 10) \div 100, e)

\* Leveling::ApplyDeathPenalty
ApplyDeathPenalty(e) ==
  LET l == LevelOf(e) IN
  e - Lesser((ExpRequirement(l) * 10) \div 100, e - LevelStart[l])

BonusOf(item) == IF item = NoItem THEN 0 ELSE HpBonus[item.template]

\* CalculateFinalStat for the HP: the class's row and what is worn.
FinalHp(l, w) == ClassHp[l] + BonusOf(w["weapon"]) + BonusOf(w["armor"])

\* Deviation: the current value is left above a maximum that went down.
RefreshFinalStat_NoClamp(w) ==
  /\ maxHp' = FinalHp(level, w)
  /\ UNCHANGED hp

RefreshFinalStat(w) ==
  /\ maxHp' = FinalHp(level, w)
  /\ hp' = Lesser(hp, FinalHp(level, w))

(***************************************************************************)
(* Items                                                                   *)
(***************************************************************************)

EmptySlots(c) == {i \in Slots : bag[c][i] = NoItem}
SlotsOf(x) == {i \in Slots : bag[SectionOf(x)][i] # NoItem
                             /\ bag[SectionOf(x)][i].template = x}

\* InventoryComponent::AddNewItem of one: onto the first stack with room, or into the
\* first empty slot with a uid of its own.
AddNewItem(x) ==
  LET c == SectionOf(x)
      stacks == {i \in SlotsOf(x) : bag[c][i].count < StackOf(x)}
  IN
  \/ /\ stacks # {}
     /\ bag' = [bag EXCEPT ![c][Least(stacks)].count = @ + 1]
     /\ UNCHANGED made
  \/ /\ stacks = {}
     /\ EmptySlots(c) # {}
     /\ made < MaxUid
     /\ bag' = [bag EXCEPT ![c][Least(EmptySlots(c))] =
                  [uid |-> made + 1, template |-> x, count |-> 1]]
     /\ made' = made + 1

\* RemoveItem of one; the slot of the last one becomes empty.
Without(b, c, i) ==
  IF b[c][i].count = 1 THEN [b EXCEPT ![c][i] = NoItem]
  ELSE [b EXCEPT ![c][i].count = @ - 1]

BuyItem(x) ==
  /\ online
  /\ gold >= BuyPrice
  /\ AddNewItem(x)
  /\ gold' = gold - BuyPrice
  /\ ledger' = [ledger EXCEPT ![x] = @ + 1]
  /\ UNCHANGED <<online, worn, quick, stats>>

SellItem(c, i) ==
  /\ online
  /\ bag[c][i] # NoItem
  /\ gold + SellPrice <= MaxGold
  /\ bag' = Without(bag, c, i)
  /\ gold' = gold + SellPrice
  /\ ledger' = [ledger EXCEPT ![bag[c][i].template] = @ - 1]
  /\ UNCHANGED <<online, worn, quick, made, stats>>

\* ProcessUseItem; the amount depends on the template.
UseItem(i, amount) ==
  /\ online
  /\ ~ dead
  /\ bag["consumable"][i] # NoItem
  /\ bag' = Without(bag, "consumable", i)
  /\ hp' = Lesser(hp + amount, maxHp)
  /\ ledger' = [ledger EXCEPT ![bag["consumable"][i].template] = @ - 1]
  /\ UNCHANGED <<online, worn, quick, gold, exp, level, maxHp, dead, made>>

\* ProcessUseQuickSlot: the first stack of the template that the quick slot names.
UseQuickSlot(q, amount) ==
  /\ quick[q] # NoRef
  /\ SlotsOf(quick[q]) # {}
  /\ UseItem(Least(SlotsOf(quick[q])), amount)

\* ProcessEquipGear: Equip before RemoveItem.
EquipGear(i) ==
  LET item == bag["gear"][i]
      dressed == [worn EXCEPT ![PartOf[item.template]] = item]
  IN
  /\ online
  /\ item # NoItem
  /\ Needs[item.template] <= level
  /\ worn[PartOf[item.template]] = NoItem
  /\ worn' = dressed
  /\ bag' = Without(bag, "gear", i)
  /\ RefreshFinalStat(dressed)
  /\ UNCHANGED <<online, quick, gold, exp, level, dead, made, ledger>>

\* Deviation: the room in the bag is not asked for before.
UnequipGear_Unasked(p) ==
  LET bare == [worn EXCEPT ![p] = NoItem] IN
  /\ online
  /\ worn[p] # NoItem
  /\ worn' = bare
  /\ bag' = IF EmptySlots("gear") = {} THEN bag
            ELSE [bag EXCEPT !["gear"][Least(EmptySlots("gear"))] = worn[p]]
  /\ RefreshFinalStat(bare)
  /\ UNCHANGED <<online, quick, gold, exp, level, dead, made, ledger>>

\* ProcessUnequipGear, with CanAddItem and AddItem of a gear.
UnequipGear(p) ==
  LET bare == [worn EXCEPT ![p] = NoItem] IN
  /\ online
  /\ worn[p] # NoItem
  /\ EmptySlots("gear") # {}
  /\ worn' = bare
  /\ bag' = [bag EXCEPT !["gear"][Least(EmptySlots("gear"))] = worn[p]]
  /\ RefreshFinalStat(bare)
  /\ UNCHANGED <<online, quick, gold, exp, level, dead, made, ledger>>

\* QuickSlotComponent::Set: a template that another quick slot names changes places
\* with what was here.
SetQuickSlot(q, ref) ==
  /\ online
  /\ quick[q] # ref
  /\ quick' = [k \in QuickSlots |->
                 IF k = q THEN ref
                 ELSE IF ref # NoRef /\ quick[k] = ref THEN quick[q] ELSE quick[k]]
  /\ UNCHANGED <<online, goods, stats>>

(***************************************************************************)
(* Combat                                                                  *)
(***************************************************************************)

\* Creature::OnHit; ResolveHit leaves the dead alone.
OnHit(damage) ==
  /\ online
  /\ ~ dead
  /\ hp' = IF damage < hp THEN hp - damage ELSE 0
  /\ dead' = (damage >= hp)
  /\ UNCHANGED <<online, quick, exp, level, maxHp, goods>>

\* OnGetReward, with every OnLevelUp: the maximum grows by what the class's row grows.
OnGetReward(gained, bounty) ==
  LET e == AddExp(exp, gained)
      l == LevelOf(e)
  IN
  /\ online
  /\ ~ dead
  /\ gold + bounty <= MaxGold
  /\ gold' = gold + bounty
  /\ exp' = e
  /\ level' = IF level < l THEN l ELSE level
  /\ maxHp' = IF level < l THEN maxHp + ClassHp[l] - ClassHp[level] ELSE maxHp
  /\ UNCHANGED <<online, bag, worn, quick, hp, dead, made, ledger>>

\* ProcessRespawn in the town; the level is not set again.
TownRespawn ==
  /\ exp' = ApplyDeathPenalty(exp)
  /\ hp' = maxHp \div 2
  /\ dead' = FALSE

Respawn ==
  /\ online
  /\ dead
  /\ TownRespawn
  /\ UNCHANGED <<online, quick, level, maxHp, goods>>

(***************************************************************************)
(* Saving and loading                                                      *)
(***************************************************************************)

\* MakeDisconnectSaveData: who is dead is saved as if respawned.
SaveAndLeave ==
  /\ online
  /\ online' = FALSE
  /\ IF dead THEN TownRespawn ELSE UNCHANGED <<exp, hp, dead>>
  /\ UNCHANGED <<quick, level, maxHp, goods>>

\* InventoryComponent::LoadItem of every row.
BagLoads ==
  \A c \in Sections, i \in Slots : bag[c][i] # NoItem =>
    /\ SectionOf(bag[c][i].template) = c
    /\ bag[c][i].count \in 1 .. StackOf(bag[c][i].template)

\* EquipmentComponent::LoadEquipped of every row.
WornLoads ==
  \A p \in Parts : worn[p] # NoItem =>
    /\ worn[p].template \in Gear
    /\ PartOf[worn[p].template] = p
    /\ worn[p].count >= 1

\* ValidateLoadedStat
StatLoads == hp <= FinalHp(LevelOf(exp), worn)

\* QuickSlotComponent::Load drops a reference that an earlier quick slot has.
QuickLoads(q) == \A k \in QuickSlots : k < q => quick[k] # quick[q]

\* ApplyProgress and OnLoaded; a row that does not load is refused and stays.
Load ==
  /\ ~ online
  /\ BagLoads
  /\ WornLoads
  /\ StatLoads
  /\ online' = TRUE
  /\ level' = LevelOf(exp)
  /\ maxHp' = FinalHp(LevelOf(exp), worn)
  /\ quick' = [q \in QuickSlots |-> IF QuickLoads(q) THEN quick[q] ELSE NoRef]
  /\ UNCHANGED <<exp, hp, dead, goods>>

(***************************************************************************)
(* All of it                                                               *)
(***************************************************************************)

ItemRequest ==
  \/ \E x \in Templates : BuyItem(x)
  \/ \E c \in Sections, i \in Slots : SellItem(c, i)
  \/ \E i \in Slots : EquipGear(i)
  \/ \E p \in Parts : UnequipGear(p)
  \/ \E i \in Slots, amount \in Hits : UseItem(i, amount)
  \/ \E q \in QuickSlots, amount \in Hits : UseQuickSlot(q, amount)
  \/ \E q \in QuickSlots, ref \in Potions \cup {NoRef} : SetQuickSlot(q, ref)

ProgressNext ==
  \/ ItemRequest
  \/ \E damage \in Hits : OnHit(damage)
  \/ \E gained \in Rewards, bounty \in Bounties : OnGetReward(gained, bounty)
  \/ Respawn
  \/ SaveAndLeave
  \/ Load

ProgressSpec == ProgressInit /\ [][ProgressNext]_progressVars

(***************************************************************************)
(* Properties                                                              *)
(***************************************************************************)

Places == (Sections \X Slots) \cup ({"worn"} \X Parts)
At(place) == IF place[1] = "worn" THEN worn[place[2]] ELSE bag[place[1]][place[2]]

\* Where x is, and every single piece of it, as its place and its number in the stack.
PlacesOf(x) == {s \in Places : At(s) # NoItem /\ At(s).template = x}
Pieces(x) == {u \in PlacesOf(x) \X (1 .. MaxStack) : u[2] <= At(u[1]).count}

\* What a character bought and did not sell or use it has, in its bags or on its
\* body, once: no sequence of requests with full bags, worn parts and stacks loses an
\* item or makes one, and no uid is in two places (a save of it would fail, ItemUid is
\* its primary key).
ItemsConserved ==
  /\ \A x \in Templates : Cardinality(Pieces(x)) = ledger[x]
  /\ \A s, t \in Places :
       s # t /\ At(s) # NoItem /\ At(t) # NoItem => At(s).uid # At(t).uid

\* Whatever a session did, what it saves is let in again as it was: every item in its
\* place, no quick slot dropped, the level the one of the experience, HP within the
\* maximum (Player.cpp: "넘는 채로 저장되면 다음 입장의 대조가 거절한다") and above zero
\* (Player.cpp, ApplyTownRespawnForSave).
SavedProgressLoads ==
  ~ online =>
    /\ BagLoads
    /\ WornLoads
    /\ StatLoads
    /\ \A q \in QuickSlots : quick[q] # NoRef => QuickLoads(q)
    /\ level = LevelOf(exp)
    /\ hp > 0

Sheet == INSTANCE CharacterSheet WITH
  Wares <- Templates,
  Usable <- Potions,
  has <- [x \in Templates |-> Cardinality(Pieces(x))],
  purse <- gold,
  reached <- level

\* Through bags, worn gear, death, saves and loads the character is the one of its
\* sheet: items come and go by purchase, sale and use only, gold by these and rewards,
\* and no penalty of a death and no load, which takes the level of the experience,
\* lowers a level (Leveling.cpp: "레벨이 시작하는 값 밑으로 내려가면 레벨이 떨어진다").
ImplementsSheet == Sheet!Spec
=============================================================================
