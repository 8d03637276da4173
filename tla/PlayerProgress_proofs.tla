------------------------ MODULE PlayerProgress_proofs ------------------------
(***************************************************************************)
(* Proofs about PlayerProgress, for any items, level table and bounds:     *)
(* types, that what a session saves loads again, that no request loses an  *)
(* item or makes one, and the character's sheet.                           *)
(***************************************************************************)
EXTENDS PlayerProgress, FiniteSetTheorems, WellFoundedInduction, TLAPS

(***************************************************************************)
(* The least and the greatest of a set of naturals                         *)
(***************************************************************************)

LEMMA LeastOf ==
  ASSUME NEW S \in SUBSET Nat, S # {}
  PROVE  Least(S) \in S /\ \A j \in S : Least(S) <= j
<1>1. PICK i \in S : \A j \in S : ~ (<<j, i>> \in OpToRel(<, Nat))
  BY NatLessThanWellFounded, WFMin
<1>2. \A j \in S : i <= j
  <2>1. SUFFICES ASSUME NEW j \in S, j < i
                 PROVE  FALSE
    BY SMT
  <2>2. <<j, i>> \in Nat \X Nat /\ <<j, i>>[1] < <<j, i>>[2]
    BY <2>1
  <2>3. <<j, i>> \in OpToRel(<, Nat)
    BY <2>2 DEF OpToRel
  <2> QED BY <1>1, <2>3
<1> QED BY <1>2 DEF Least

LEMMA GreatestOf ==
  ASSUME NEW n \in Nat, NEW S \in SUBSET (0 .. n), S # {}
  PROVE  Greatest(S) \in S /\ \A j \in S : j <= Greatest(S)
<1> DEFINE T == {n - j : j \in S}
<1>1. T \in SUBSET Nat /\ T # {}
  <2>1. \A j \in S : n - j \in Nat
    OBVIOUS
  <2> QED BY <2>1
<1>2. Least(T) \in T /\ \A k \in T : Least(T) <= k
  <2> HIDE DEF T
  <2> QED BY <1>1, LeastOf
<1>3. PICK i \in S : Least(T) = n - i
  BY <1>2
<1>4. \A j \in S : j <= i
  BY <1>2, <1>3, SMT
<1> QED BY <1>4 DEF Greatest

(***************************************************************************)
(* Levels                                                                  *)
(***************************************************************************)

\* LevelOf is the last level whose start is reached, and grows with the experience.
LEMMA LevelOfFacts ==
  ASSUME NEW e \in Nat
  PROVE  /\ LevelOf(e) \in Levels
         /\ LevelStart[LevelOf(e)] <= e
         /\ \A l \in Levels : LevelStart[l] <= e => l <= LevelOf(e)
<1> DEFINE S == {l \in Levels : LevelStart[l] <= e}
<1>1. 1 \in S /\ MaxLevel \in Nat /\ S \in SUBSET (0 .. MaxLevel)
  BY ProgressAssumption DEF Levels
<1>2. Greatest(S) \in S /\ \A l \in S : l <= Greatest(S)
  <2> HIDE DEF S
  <2> QED BY <1>1, GreatestOf
<1> QED BY <1>2 DEF LevelOf

LEMMA LevelOfGrows ==
  ASSUME NEW e \in Nat, NEW f \in Nat, e <= f
  PROVE  LevelOf(e) <= LevelOf(f)
<1>1. LevelOf(e) \in Levels /\ LevelStart[LevelOf(e)] <= e
  BY LevelOfFacts
<1>2. LevelStart[LevelOf(e)] \in Nat
  BY <1>1, ProgressAssumption
<1>3. LevelStart[LevelOf(e)] <= f
  BY <1>1, <1>2
<1> QED BY <1>1, <1>3, LevelOfFacts

LEMMA TenPercent == ASSUME NEW r \in Nat PROVE (r * 10) \div 100 \in Nat
  OBVIOUS

\* A death costs experience and no level.
LEMMA PenaltyKeepsLevel ==
  ASSUME NEW e \in 0 .. LevelStart[MaxLevel]
  PROVE  /\ ApplyDeathPenalty(e) \in 0 .. LevelStart[MaxLevel]
         /\ LevelOf(ApplyDeathPenalty(e)) = LevelOf(e)
<1> DEFINE l == LevelOf(e)
           loss == (ExpRequirement(l) * 10) \div 100
           f == ApplyDeathPenalty(e)
<1>1. MaxLevel \in Levels /\ LevelStart[MaxLevel] \in Nat /\ e \in Nat
  BY ProgressAssumption DEF Levels
<1>2. l \in Levels /\ LevelStart[l] <= e /\ LevelStart[l] \in Nat
  BY <1>1, LevelOfFacts, ProgressAssumption
<1>3. ExpRequirement(l) \in Nat
  <2>1. CASE l = MaxLevel
    BY <2>1 DEF ExpRequirement
  <2>2. CASE l # MaxLevel
    <3>1. l + 1 \in Levels /\ l < l + 1
      BY <1>2, <2>2, ProgressAssumption DEF Levels
    <3>2. LevelStart[l] < LevelStart[l + 1] /\ LevelStart[l + 1] \in Nat
      BY <1>2, <3>1, ProgressAssumption
    <3> QED BY <1>2, <2>2, <3>2 DEF ExpRequirement
  <2> QED BY <2>1, <2>2
<1>4. loss \in Nat
  BY <1>3, TenPercent
<1>5. f = e - Lesser(loss, e - LevelStart[l])
  BY DEF ApplyDeathPenalty
<1>6. f \in Nat /\ f <= e /\ LevelStart[l] <= f
  <2> DEFINE s == LevelStart[l]
  <2>1. s \in Nat /\ s <= e /\ e \in Nat /\ loss \in Nat /\ f = e - Lesser(loss, e - s)
    BY <1>1, <1>2, <1>4, <1>5
  <2>2. f \in Nat /\ f <= e /\ s <= f
    <3> HIDE DEF loss, f, s
    <3> QED BY <2>1 DEF Lesser
  <2> QED BY <2>2
<1>7. l <= LevelOf(f)
  BY <1>2, <1>6, LevelOfFacts
<1>8. LevelOf(f) <= l
  BY <1>1, <1>6, LevelOfGrows
<1>9. LevelOf(f) \in Levels
  BY <1>6, LevelOfFacts
<1>10. LevelOf(f) = l
  <2> HIDE DEF f, l
  <2> QED BY <1>2, <1>7, <1>8, <1>9 DEF Levels
<1>11. f \in 0 .. LevelStart[MaxLevel]
  <2> HIDE DEF f
  <2> QED BY <1>1, <1>6
<1> QED BY <1>10, <1>11

LEMMA RewardRaisesLevel ==
  ASSUME NEW e \in 0 .. LevelStart[MaxLevel], NEW gained \in Nat
  PROVE  /\ AddExp(e, gained) \in 0 .. LevelStart[MaxLevel]
         /\ LevelOf(AddExp(e, gained)) \in Levels
         /\ LevelOf(e) <= LevelOf(AddExp(e, gained))
<1>1. LevelStart[MaxLevel] \in Nat
  BY ProgressAssumption DEF Levels
<1>2. /\ AddExp(e, gained) \in 0 .. LevelStart[MaxLevel]
      /\ e <= AddExp(e, gained) /\ e \in Nat /\ AddExp(e, gained) \in Nat
  BY <1>1 DEF AddExp, Lesser
<1> QED BY <1>2, LevelOfFacts, LevelOfGrows

(***************************************************************************)
(* Stats                                                                   *)
(***************************************************************************)

LEMMA FinalHpFacts ==
  ASSUME NEW w \in [Parts -> Slot], NEW l \in Levels,
         \A p \in Parts : w[p] # NoItem => w[p].template \in Gear
  PROVE  /\ FinalHp(l, w) \in Nat
         /\ FinalHp(l, w) >= 2
         /\ \A k \in Levels : l <= k => /\ FinalHp(l, w) <= FinalHp(k, w)
                                      /\ FinalHp(k, w) = FinalHp(l, w) + ClassHp[k] - ClassHp[l]
<1>1. \A p \in Parts : BonusOf(w[p]) \in Nat
  BY ProgressAssumption DEF BonusOf
<1>2. BonusOf(w["weapon"]) \in Nat /\ BonusOf(w["armor"]) \in Nat
  BY <1>1 DEF Parts
<1>3. \A k \in Levels : ClassHp[k] \in Nat /\ ClassHp[k] >= 2
  BY ProgressAssumption
<1>4. \A k \in Levels : l <= k => ClassHp[l] <= ClassHp[k]
  BY ProgressAssumption
<1> HIDE DEF BonusOf
<1> QED BY <1>2, <1>3, <1>4 DEF FinalHp

(***************************************************************************)
(* The invariant.  Level and maximum are kept up to date online and        *)
(* offline; the maximum, a sum that goes up with levels and down with      *)
(* gear, is what HP is compared with at the next load.                     *)
(***************************************************************************)

Distinct ==
  \A q, k \in QuickSlots : q # k /\ quick[q] # NoRef => quick[q] # quick[k]

Measured ==
  /\ level = LevelOf(exp)
  /\ maxHp = FinalHp(level, worn)
  /\ hp <= maxHp

Vital == (dead <=> hp = 0) /\ (online \/ ~ dead)

\* Gear does not stack.
Single == \A p \in Parts : worn[p] # NoItem => worn[p].count = 1

ProgressInv ==
  ProgressTypeOK /\ BagLoads /\ WornLoads /\ Single /\ Distinct /\ Measured /\ Vital

LEMMA InitProgressInv == ProgressInit => ProgressInv
<1> SUFFICES ASSUME ProgressInit
             PROVE  ProgressInv
  OBVIOUS
<1> USE DEF ProgressInit
<1>1. 1 \in Levels /\ MaxLevel \in Levels /\ LevelStart[MaxLevel] \in Nat
  BY ProgressAssumption DEF Levels
<1>2. ClassHp[1] \in Nat /\ ClassHp[1] >= 2
  BY <1>1, ProgressAssumption
<1>3. ProgressTypeOK
  <2>1. bag \in [Sections -> [Slots -> Slot]] /\ worn \in [Parts -> Slot]
    BY DEF Slot
  <2>2. ledger \in [Templates -> Int] /\ quick \in [QuickSlots -> Potions \cup {NoRef}]
    OBVIOUS
  <2>3. 0 \in 0 .. LevelStart[MaxLevel]
    BY <1>1
  <2> QED BY <1>1, <1>2, <2>1, <2>2, <2>3 DEF ProgressTypeOK
<1>4. BagLoads /\ WornLoads /\ Single /\ Distinct
  BY DEF BagLoads, WornLoads, Single, Distinct
<1>5. FinalHp(1, worn) = ClassHp[1]
  BY <1>2 DEF FinalHp, BonusOf, Parts
<1>6. LevelOf(0) = 1
  <2>1. LevelOf(0) \in Levels /\ LevelStart[LevelOf(0)] <= 0
    BY LevelOfFacts
  <2>2. ASSUME LevelOf(0) # 1 PROVE FALSE
    <3>1. LevelStart[1] < LevelStart[LevelOf(0)] /\ LevelStart[LevelOf(0)] \in Nat
      BY <1>1, <2>1, <2>2, ProgressAssumption DEF Levels
    <3> QED BY <2>1, <3>1, ProgressAssumption
  <2> QED BY <2>2
<1> QED BY <1>2, <1>3, <1>4, <1>5, <1>6 DEF ProgressInv, Measured, Vital

(***************************************************************************)
(* Changes of the bags                                                     *)
(***************************************************************************)

\* An item that may lie in section c.
Fits(c, item) ==
  item # NoItem => /\ SectionOf(item.template) = c
                   /\ item.count \in 1 .. StackOf(item.template)

LEMMA StackFacts == \A x \in Templates : StackOf(x) \in Nat /\ StackOf(x) >= 1
BY ProgressAssumption DEF StackOf

LEMMA ItemIsSomething == NoItem \notin Item
BY ProgressAssumption DEF Item, Templates

\* One slot changes.
LEMMA SlotChange ==
  ASSUME ProgressTypeOK, BagLoads,
         NEW c \in Sections, NEW i \in Slots, NEW item \in Slot, Fits(c, item),
         bag' = [bag EXCEPT ![c][i] = item]
  PROVE  bag' \in [Sections -> [Slots -> Slot]] /\ BagLoads'
<1>1. bag \in [Sections -> [Slots -> Slot]]
  BY DEF ProgressTypeOK
<1>2. bag' \in [Sections -> [Slots -> Slot]]
  BY <1>1
<1>3. ASSUME NEW d \in Sections, NEW j \in Slots
      PROVE  bag'[d][j] = IF d = c /\ j = i THEN item ELSE bag[d][j]
  BY <1>1
<1>4. ASSUME NEW d \in Sections, NEW j \in Slots PROVE Fits(d, bag'[d][j])
  <2>1. CASE d = c /\ j = i
    BY <1>3, <2>1
  <2>2. CASE ~ (d = c /\ j = i)
    <3>1. bag'[d][j] = bag[d][j]
      BY <1>3, <2>2
    <3> QED BY <3>1 DEF BagLoads, Fits
  <2> QED BY <2>1, <2>2
<1>5. BagLoads'
  BY <1>4 DEF BagLoads, Fits
<1> QED BY <1>2, <1>5

\* One of the slot's stack is taken: the slot keeps the item or becomes empty.
LEMMA WithoutOne ==
  ASSUME ProgressTypeOK,
         NEW c \in Sections, NEW i \in Slots, bag[c][i] # NoItem,
         bag' = Without(bag, c, i)
  PROVE  /\ bag[c][i] \in Item
         /\ \E item \in Slot :
              /\ bag' = [bag EXCEPT ![c][i] = item]
              /\ \/ bag[c][i].count = 1 /\ item = NoItem
                 \/ /\ item \in Item
                    /\ item.uid = bag[c][i].uid
                    /\ item.template = bag[c][i].template
                    /\ bag[c][i].count = item.count + 1
<1> DEFINE item == bag[c][i]
           less == [item EXCEPT !.count = @ - 1]
<1>1. item \in Item
  BY DEF ProgressTypeOK, Slot
<1>2. /\ item.uid \in Nat \ {0} /\ item.template \in Templates /\ item.count \in Nat \ {0}
      /\ less = [uid |-> item.uid, template |-> item.template, count |-> item.count - 1]
  BY <1>1 DEF Item
<1>4. CASE item.count = 1
  <2>1. bag' = [bag EXCEPT ![c][i] = NoItem]
    BY <1>4 DEF Without
  <2> QED BY <1>1, <1>4, <2>1 DEF Slot
<1>5. CASE item.count # 1
  <2>1. bag' = [bag EXCEPT ![c][i] = less]
    BY <1>5 DEF Without
  <2>2. less \in Item
    BY <1>2, <1>5 DEF Item
  <2>3. less.uid = item.uid /\ less.template = item.template /\ item.count = less.count + 1
    BY <1>2
  <2>4. less \in Slot
    BY <2>2 DEF Slot
  <2> HIDE DEF less
  <2> QED BY <1>1, <2>1, <2>2, <2>3, <2>4
<1> QED BY <1>4, <1>5

LEMMA WithoutFits ==
  ASSUME ProgressTypeOK, BagLoads,
         NEW c \in Sections, NEW i \in Slots, bag[c][i] # NoItem,
         bag' = Without(bag, c, i)
  PROVE  bag' \in [Sections -> [Slots -> Slot]] /\ BagLoads'
<1>1. PICK item \in Slot :
        /\ bag' = [bag EXCEPT ![c][i] = item]
        /\ \/ bag[c][i].count = 1 /\ item = NoItem
           \/ /\ item \in Item
              /\ item.uid = bag[c][i].uid
              /\ item.template = bag[c][i].template
              /\ bag[c][i].count = item.count + 1
  BY WithoutOne
<1>2. SectionOf(bag[c][i].template) = c /\ bag[c][i].count \in 1 .. StackOf(bag[c][i].template)
  BY DEF BagLoads
<1>3. Fits(c, item)
  <2>1. SUFFICES ASSUME item # NoItem
                 PROVE  SectionOf(item.template) = c /\ item.count \in 1 .. StackOf(item.template)
    BY DEF Fits
  <2>2. item.template \in Templates /\ item.count \in Nat \ {0}
    BY <1>1, <2>1 DEF Item
  <2>3. StackOf(item.template) \in Nat
    BY <2>2, StackFacts
  <2> QED BY <1>1, <1>2, <2>1, <2>2, <2>3
<1> QED BY <1>1, <1>3, SlotChange

\* A slot's stack grows by one, or an empty slot gets an item with the next uid.
LEMMA AddedOne ==
  ASSUME ProgressTypeOK, NEW x \in Templates, AddNewItem(x)
  PROVE  /\ SectionOf(x) \in Sections
         /\ \E i \in Slots, item \in Item :
              /\ bag' = [bag EXCEPT ![SectionOf(x)][i] = item]
              /\ item.template = x /\ item.count <= StackOf(x)
              /\ \/ /\ bag[SectionOf(x)][i] \in Item
                    /\ bag[SectionOf(x)][i].uid = item.uid
                    /\ bag[SectionOf(x)][i].template = x
                    /\ item.count = bag[SectionOf(x)][i].count + 1
                    /\ made' = made
                 \/ /\ bag[SectionOf(x)][i] = NoItem
                    /\ item.uid = made + 1 /\ item.count = 1
                    /\ made' = made + 1
<1> DEFINE c == SectionOf(x)
           stacks == {i \in SlotsOf(x) : bag[c][i].count < StackOf(x)}
<1>1. c \in Sections
  BY DEF SectionOf, Sections
<1>2. bag \in [Sections -> [Slots -> Slot]] /\ made \in Nat
  BY DEF ProgressTypeOK
<1>3. CASE /\ stacks # {}
           /\ bag' = [bag EXCEPT ![c][Least(stacks)].count = @ + 1]
           /\ UNCHANGED made
  <2>1. stacks \in SUBSET Nat
    BY ProgressAssumption DEF SlotsOf, Slots
  <2>2. PICK i \in stacks : i = Least(stacks)
    <3> HIDE DEF stacks
    <3> QED BY <1>3, <2>1, LeastOf
  <2> DEFINE item == bag[c][i]
             more == [item EXCEPT !.count = @ + 1]
  <2>3. i \in Slots /\ item # NoItem /\ item.template = x /\ item.count < StackOf(x)
    BY DEF SlotsOf
  <2>4. item \in Item
    BY <1>1, <1>2, <2>3 DEF Slot
  <2>5. /\ item.uid \in Nat \ {0} /\ item.template \in Templates /\ item.count \in Nat \ {0}
        /\ more = [uid |-> item.uid, template |-> item.template, count |-> item.count + 1]
    BY <2>4 DEF Item
  <2>6. more \in Item
    BY <2>5 DEF Item
  <2>7. more.uid = item.uid /\ more.template = x /\ more.count = item.count + 1
    BY <2>3, <2>5
  <2>8. more.count <= StackOf(x)
    BY <2>3, <2>5, <2>7, StackFacts
  <2>9. bag' = [bag EXCEPT ![c][i] = more]
    BY <1>3, <2>2
  <2> HIDE DEF more
  <2> QED BY <1>1, <1>3, <2>3, <2>4, <2>6, <2>7, <2>8, <2>9
<1>4. CASE /\ EmptySlots(c) # {}
           /\ bag' = [bag EXCEPT ![c][Least(EmptySlots(c))] =
                        [uid |-> made + 1, template |-> x, count |-> 1]]
           /\ made' = made + 1
  <2> DEFINE item == [uid |-> made + 1, template |-> x, count |-> 1]
  <2>1. EmptySlots(c) \in SUBSET Nat
    BY ProgressAssumption DEF EmptySlots, Slots
  <2>2. PICK i \in EmptySlots(c) : i = Least(EmptySlots(c))
    BY <1>4, <2>1, LeastOf
  <2>3. i \in Slots /\ bag[c][i] = NoItem
    BY DEF EmptySlots
  <2>4. made + 1 \in Nat \ {0}
    BY <1>2
  <2>5. item \in Item
    BY <2>4 DEF Item
  <2>6. item.template = x /\ item.count = 1 /\ item.uid = made + 1 /\ 1 <= StackOf(x)
    BY StackFacts
  <2>7. bag' = [bag EXCEPT ![c][i] = item]
    BY <1>4, <2>2
  <2> HIDE DEF item
  <2> QED BY <1>1, <1>4, <2>3, <2>5, <2>6, <2>7
<1> QED BY <1>3, <1>4 DEF AddNewItem

LEMMA AddedFits ==
  ASSUME ProgressTypeOK, BagLoads, NEW x \in Templates, AddNewItem(x)
  PROVE  /\ bag' \in [Sections -> [Slots -> Slot]] /\ BagLoads'
         /\ made' \in Nat
<1>1. SectionOf(x) \in Sections /\ made \in Nat
  BY AddedOne DEF ProgressTypeOK
<1>2. PICK i \in Slots, item \in Item :
        /\ bag' = [bag EXCEPT ![SectionOf(x)][i] = item]
        /\ item.template = x /\ item.count <= StackOf(x)
        /\ made' \in {made, made + 1}
  BY AddedOne
<1>3. item \in Slot
  BY DEF Slot
<1>4. Fits(SectionOf(x), item)
  <2>1. item.count \in Nat \ {0} /\ StackOf(x) \in Nat
    BY StackFacts DEF Item
  <2> QED BY <1>2, <2>1 DEF Fits
<1>5. made' \in Nat
  BY <1>1, <1>2
<1> QED BY <1>1, <1>2, <1>3, <1>4, <1>5, SlotChange

(***************************************************************************)
(* Worn gear and what it does to the HP                                    *)
(***************************************************************************)

LEMMA WornChange ==
  ASSUME ProgressInv,
         NEW p \in Parts, NEW item \in Slot,
         item # NoItem => /\ item.template \in Gear
                          /\ PartOf[item.template] = p
                          /\ item.count = 1,
         NEW w, w = [worn EXCEPT ![p] = item],
         worn' = w, level' = level, exp' = exp, dead' = dead, online' = online,
         RefreshFinalStat(w)
  PROVE  /\ worn' \in [Parts -> Slot] /\ WornLoads' /\ Single'
         /\ maxHp' \in Nat /\ hp' \in Nat
         /\ Measured' /\ Vital'
<1>1. worn \in [Parts -> Slot] /\ hp \in Nat /\ level \in Levels
  BY DEF ProgressInv, ProgressTypeOK
<1>2. w \in [Parts -> Slot] /\ worn' \in [Parts -> Slot]
  BY <1>1
<1>3. \A q \in Parts : w[q] = IF q = p THEN item ELSE worn[q]
  BY <1>1
<1>4. WornLoads' /\ Single'
  BY <1>3 DEF ProgressInv, WornLoads, Single
<1>5. \A q \in Parts : w[q] # NoItem => w[q].template \in Gear
  BY <1>3 DEF ProgressInv, WornLoads
<1>6. FinalHp(level, w) \in Nat /\ FinalHp(level, w) >= 2
  BY <1>1, <1>2, <1>5, FinalHpFacts
<1>7. maxHp' = FinalHp(level, w) /\ hp' = Lesser(hp, FinalHp(level, w))
  BY DEF RefreshFinalStat
<1>8. hp' \in Nat /\ hp' <= maxHp' /\ (hp' = 0 <=> hp = 0)
  <2> DEFINE m == FinalHp(level, w)
  <2> HIDE DEF m
  <2>1. m \in Nat /\ m >= 2 /\ maxHp' = m /\ hp' = Lesser(hp, m)
    BY <1>6, <1>7 DEF m
  <2> QED BY <1>1, <2>1 DEF Lesser
<1>9. Measured'
  <2>1. level = LevelOf(exp)
    BY DEF ProgressInv, Measured
  <2>2. LevelOf(exp)' = LevelOf(exp') /\ FinalHp(level, worn)' = FinalHp(level', worn')
    BY DEF LevelOf, FinalHp, Greatest, BonusOf, Levels
  <2> QED BY <1>7, <1>8, <2>1, <2>2 DEF Measured
<1>10. Vital'
  BY <1>8 DEF ProgressInv, Vital
<1> QED BY <1>2, <1>4, <1>6, <1>7, <1>8, <1>9, <1>10

(***************************************************************************)
(* One lemma per action                                                    *)
(***************************************************************************)

\* Measured reads the primed level table operators through the variables only.
LEMMA MeasuredPrime ==
  Measured' <=> /\ level' = LevelOf(exp')
                /\ maxHp' = FinalHp(level', worn')
                /\ hp' <= maxHp'
BY DEF Measured

LEMMA SameStats ==
  ASSUME ProgressInv, UNCHANGED <<worn, exp, level, maxHp, hp, dead, online>>
  PROVE  WornLoads' /\ Single' /\ Measured' /\ Vital'
<1>1. WornLoads' /\ Single'
  BY DEF ProgressInv, WornLoads, Single
<1>2. Measured'
  <2>1. Measured
    BY DEF ProgressInv
  <2> QED BY <2>1, MeasuredPrime DEF Measured
<1>3. Vital'
  BY DEF ProgressInv, Vital
<1> QED BY <1>1, <1>2, <1>3

LEMMA SameBag ==
  ASSUME ProgressInv, UNCHANGED bag PROVE BagLoads'
BY DEF ProgressInv, BagLoads

LEMMA SameQuick ==
  ASSUME ProgressInv, UNCHANGED quick PROVE Distinct'
BY DEF ProgressInv, Distinct

LEMMA LedgerEntry ==
  ASSUME ProgressTypeOK, NEW x \in Templates, NEW d \in {-1, 1},
         ledger' = [ledger EXCEPT ![x] = @ + d]
  PROVE  ledger' \in [Templates -> Int]
BY DEF ProgressTypeOK

LEMMA BuyKeeps ==
  ASSUME ProgressInv, NEW x \in Templates, BuyItem(x)
  PROVE  ProgressInv'
<1>1. ProgressTypeOK /\ BagLoads
  BY DEF ProgressInv
<1>2. bag' \in [Sections -> [Slots -> Slot]] /\ BagLoads' /\ made' \in Nat
  BY <1>1, AddedFits DEF BuyItem
<1>3. gold' \in Nat
  BY <1>1, ProgressAssumption DEF BuyItem, ProgressTypeOK
<1>4. ledger' \in [Templates -> Int]
  BY <1>1 DEF BuyItem, ProgressTypeOK
<1>5. UNCHANGED <<worn, exp, level, maxHp, hp, dead, online, quick>>
  BY DEF BuyItem, stats
<1>6. ProgressTypeOK'
  BY <1>1, <1>2, <1>3, <1>4, <1>5 DEF ProgressTypeOK
<1>7. WornLoads' /\ Single' /\ Measured' /\ Vital' /\ Distinct'
  BY <1>5, SameStats, SameQuick
<1> QED BY <1>2, <1>6, <1>7 DEF ProgressInv

LEMMA SellKeeps ==
  ASSUME ProgressInv, NEW c \in Sections, NEW i \in Slots, SellItem(c, i)
  PROVE  ProgressInv'
<1>1. ProgressTypeOK /\ BagLoads
  BY DEF ProgressInv
<1>2. bag' \in [Sections -> [Slots -> Slot]] /\ BagLoads'
  BY <1>1, WithoutFits DEF SellItem
<1>3. gold' \in Nat
  BY <1>1, ProgressAssumption DEF SellItem, ProgressTypeOK
<1>4. ledger' \in [Templates -> Int]
  <2>1. bag[c][i] \in Item
    BY <1>1 DEF SellItem, ProgressTypeOK, Slot
  <2>2. bag[c][i].template \in Templates
    BY <2>1 DEF Item
  <2> QED BY <1>1, <2>2 DEF SellItem, ProgressTypeOK
<1>5. UNCHANGED <<worn, exp, level, maxHp, hp, dead, online, quick, made>>
  BY DEF SellItem, stats
<1>6. ProgressTypeOK'
  BY <1>1, <1>2, <1>3, <1>4, <1>5 DEF ProgressTypeOK
<1>7. WornLoads' /\ Single' /\ Measured' /\ Vital' /\ Distinct'
  BY <1>5, SameStats, SameQuick
<1> QED BY <1>2, <1>6, <1>7 DEF ProgressInv

LEMMA UseKeeps ==
  ASSUME ProgressInv, NEW i \in Slots, NEW amount \in Nat, UseItem(i, amount)
  PROVE  ProgressInv'
<1>1. ProgressTypeOK /\ BagLoads /\ "consumable" \in Sections
  BY DEF ProgressInv, Sections
<1>2. bag' \in [Sections -> [Slots -> Slot]] /\ BagLoads'
  BY <1>1, WithoutFits DEF UseItem
<1>3. hp' \in Nat /\ hp' <= maxHp /\ hp' # 0
  <2>1. hp \in Nat /\ maxHp \in Nat /\ hp # 0 /\ hp <= maxHp
    BY <1>1 DEF ProgressInv, ProgressTypeOK, Vital, Measured, UseItem
  <2>2. hp' = Lesser(hp + amount, maxHp)
    BY DEF UseItem
  <2> QED BY <2>1, <2>2 DEF Lesser
<1>4. ledger' \in [Templates -> Int]
  <2>1. bag["consumable"][i] \in Item
    BY <1>1 DEF UseItem, ProgressTypeOK, Slot
  <2>2. bag["consumable"][i].template \in Templates
    BY <2>1 DEF Item
  <2> QED BY <1>1, <2>2 DEF UseItem, ProgressTypeOK
<1>5. UNCHANGED <<worn, exp, level, maxHp, dead, online, quick, made, gold>> /\ ~ dead
  BY DEF UseItem
<1>6. ProgressTypeOK'
  BY <1>1, <1>2, <1>3, <1>4, <1>5 DEF ProgressTypeOK
<1>7. Measured'
  <2>1. Measured
    BY DEF ProgressInv
  <2> QED BY <1>3, <1>5, <2>1, MeasuredPrime DEF Measured
<1>8. Vital' /\ WornLoads' /\ Single' /\ Distinct'
  BY <1>3, <1>5, SameQuick DEF ProgressInv, Vital, WornLoads, Single
<1> QED BY <1>2, <1>6, <1>7, <1>8 DEF ProgressInv

LEMMA UseQuickKeeps ==
  ASSUME ProgressInv, NEW q \in QuickSlots, NEW amount \in Nat, UseQuickSlot(q, amount)
  PROVE  ProgressInv'
<1>1. SlotsOf(quick[q]) \in SUBSET Nat /\ SlotsOf(quick[q]) # {}
  BY ProgressAssumption DEF UseQuickSlot, SlotsOf, Slots
<1>2. Least(SlotsOf(quick[q])) \in Slots
  BY <1>1, LeastOf DEF SlotsOf
<1> QED BY <1>2, UseKeeps DEF UseQuickSlot

LEMMA EquipKeeps ==
  ASSUME ProgressInv, NEW i \in Slots, EquipGear(i)
  PROVE  ProgressInv'
<1> DEFINE item == bag["gear"][i]
           p == PartOf[item.template]
           w == [worn EXCEPT ![p] = item]
<1>1. ProgressTypeOK /\ BagLoads /\ "gear" \in Sections
  BY DEF ProgressInv, Sections
<1>2. item \in Item /\ item # NoItem
  BY <1>1 DEF EquipGear, ProgressTypeOK, Slot
<1>3. item.template \in Gear /\ item.count = 1 /\ item \in Slot
  <2>1. item.template \in Templates /\ item.count \in Nat \ {0}
    BY <1>2 DEF Item
  <2>2. /\ SectionOf(item.template) = "gear"
        /\ item.count \in 1 .. StackOf(item.template)
    BY <1>1, <1>2 DEF BagLoads
  <2>3. item.template \in Gear
    BY <2>1, <2>2 DEF SectionOf
  <2> QED BY <1>2, <2>2, <2>3 DEF StackOf, Slot
<1>4. p \in Parts
  BY <1>3, ProgressAssumption
<1>5. bag' \in [Sections -> [Slots -> Slot]] /\ BagLoads'
  BY <1>1, <1>2, WithoutFits DEF EquipGear
<1>6. /\ worn' = w /\ RefreshFinalStat(w)
      /\ UNCHANGED <<online, quick, gold, exp, level, dead, made, ledger>>
  BY DEF EquipGear
<1>7. /\ worn' \in [Parts -> Slot] /\ WornLoads' /\ Single'
      /\ maxHp' \in Nat /\ hp' \in Nat
      /\ Measured' /\ Vital'
  <2> HIDE DEF item, p
  <2>1. p = PartOf[item.template] /\ w = [worn EXCEPT ![p] = item]
    BY DEF p
  <2> HIDE DEF w
  <2> QED BY <1>3, <1>4, <1>6, <2>1, WornChange
<1>8. ProgressTypeOK'
  BY <1>1, <1>5, <1>6, <1>7 DEF ProgressTypeOK
<1>9. Distinct'
  BY <1>6, SameQuick
<1> QED BY <1>5, <1>7, <1>8, <1>9 DEF ProgressInv

LEMMA UnequipKeeps ==
  ASSUME ProgressInv, NEW p \in Parts, UnequipGear(p)
  PROVE  ProgressInv'
<1> DEFINE w == [worn EXCEPT ![p] = NoItem]
<1>1. ProgressTypeOK /\ BagLoads /\ "gear" \in Sections
  BY DEF ProgressInv, Sections
<1>2. worn[p] \in Item /\ worn[p] \in Slot /\ worn[p] # NoItem
  BY <1>1 DEF UnequipGear, ProgressTypeOK, Slot
<1>3. Fits("gear", worn[p])
  <2>1. worn[p].template \in Gear
    BY <1>2 DEF ProgressInv, WornLoads
  <2>2. worn[p].count = 1
    BY <1>2 DEF ProgressInv, Single
  <2> QED BY <2>1, <2>2 DEF Fits, SectionOf, StackOf
<1>4. PICK i \in EmptySlots("gear") : i = Least(EmptySlots("gear"))
  <2>1. EmptySlots("gear") \in SUBSET Nat /\ EmptySlots("gear") # {}
    BY ProgressAssumption DEF UnequipGear, EmptySlots, Slots
  <2> QED BY <2>1, LeastOf
<1>5. bag' = [bag EXCEPT !["gear"][i] = worn[p]] /\ i \in Slots
  BY <1>4 DEF UnequipGear, EmptySlots
<1>6. bag' \in [Sections -> [Slots -> Slot]] /\ BagLoads'
  BY <1>1, <1>2, <1>3, <1>5, SlotChange
<1>7. /\ worn' = w /\ RefreshFinalStat(w)
      /\ UNCHANGED <<online, quick, gold, exp, level, dead, made, ledger>>
  BY DEF UnequipGear
<1>8. /\ worn' \in [Parts -> Slot] /\ WornLoads' /\ Single'
      /\ maxHp' \in Nat /\ hp' \in Nat
      /\ Measured' /\ Vital'
  <2>1. NoItem \in Slot
    BY DEF Slot
  <2>2. w = [worn EXCEPT ![p] = NoItem]
    OBVIOUS
  <2> HIDE DEF w
  <2> QED BY <1>7, <2>1, <2>2, WornChange
<1>9. ProgressTypeOK'
  BY <1>1, <1>6, <1>7, <1>8 DEF ProgressTypeOK
<1>10. Distinct'
  BY <1>7, SameQuick
<1> QED BY <1>6, <1>8, <1>9, <1>10 DEF ProgressInv

LEMMA SetQuickKeeps ==
  ASSUME ProgressInv, NEW q \in QuickSlots, NEW ref \in Potions \cup {NoRef},
         SetQuickSlot(q, ref)
  PROVE  ProgressInv'
<1>1. ProgressTypeOK
  BY DEF ProgressInv
<1>2. /\ UNCHANGED <<bag, worn, gold, made, ledger, exp, level, maxHp, hp, dead, online>>
      /\ quick[q] # ref
      /\ quick' = [k \in QuickSlots |->
                     IF k = q THEN ref
                     ELSE IF ref # NoRef /\ quick[k] = ref THEN quick[q] ELSE quick[k]]
  BY DEF SetQuickSlot, goods, stats
<1>3. quick' \in [QuickSlots -> Potions \cup {NoRef}]
  BY <1>1, <1>2 DEF ProgressTypeOK
<1>4. ProgressTypeOK'
  BY <1>1, <1>2, <1>3 DEF ProgressTypeOK
<1>5. Distinct'
  <2>1. SUFFICES ASSUME NEW j \in QuickSlots, NEW k \in QuickSlots, j # k,
                        quick'[j] # NoRef, quick'[j] = quick'[k]
                 PROVE  FALSE
    BY DEF Distinct
  <2>2. \A m, n \in QuickSlots : m # n /\ quick[m] # NoRef => quick[m] # quick[n]
    BY DEF ProgressInv, Distinct
  <2>3. \A m \in QuickSlots :
          quick'[m] = IF m = q THEN ref
                      ELSE IF ref # NoRef /\ quick[m] = ref THEN quick[q] ELSE quick[m]
    BY <1>2
  <2> QED BY <1>2, <2>1, <2>2, <2>3
<1>6. WornLoads' /\ Single' /\ Measured' /\ Vital' /\ BagLoads'
  BY <1>2, SameStats, SameBag
<1> QED BY <1>4, <1>5, <1>6 DEF ProgressInv

LEMMA HitKeeps ==
  ASSUME ProgressInv, NEW damage \in Nat, OnHit(damage)
  PROVE  ProgressInv'
<1>1. ProgressTypeOK
  BY DEF ProgressInv
<1>2. /\ UNCHANGED <<bag, worn, gold, made, ledger, exp, level, maxHp, online, quick>>
      /\ online /\ ~ dead
      /\ hp' = IF damage < hp THEN hp - damage ELSE 0
      /\ dead' = (damage >= hp)
  BY DEF OnHit, goods
<1>3. hp \in Nat /\ maxHp \in Nat /\ hp <= maxHp
  BY <1>1 DEF ProgressTypeOK, ProgressInv, Measured
<1>4. hp' \in Nat /\ hp' <= maxHp /\ (hp' = 0 <=> damage >= hp)
  BY <1>2, <1>3
<1>5. ProgressTypeOK'
  <2>1. dead' \in BOOLEAN
    BY <1>2
  <2> QED BY <1>1, <1>2, <1>4, <2>1 DEF ProgressTypeOK
<1>6. Measured'
  <2>1. Measured
    BY DEF ProgressInv
  <2> QED BY <1>2, <1>4, <2>1, MeasuredPrime DEF Measured
<1>7. Vital'
  <2>1. dead' <=> damage >= hp
    BY <1>2
  <2>2. online'
    BY <1>2
  <2> QED BY <1>4, <2>1, <2>2 DEF Vital
<1>8. WornLoads' /\ Single' /\ Distinct' /\ BagLoads'
  BY <1>2, SameQuick, SameBag DEF ProgressInv, WornLoads, Single
<1> QED BY <1>5, <1>6, <1>7, <1>8 DEF ProgressInv

LEMMA RewardKeeps ==
  ASSUME ProgressInv, NEW gained \in Nat, NEW bounty \in Nat,
         OnGetReward(gained, bounty)
  PROVE  ProgressInv'
<1> DEFINE e == AddExp(exp, gained)
           l == LevelOf(e)
<1>1. ProgressTypeOK /\ Measured
  BY DEF ProgressInv
<1>2. /\ UNCHANGED <<bag, worn, hp, dead, made, ledger, online, quick>>
      /\ gold' = gold + bounty
      /\ exp' = e
      /\ level' = IF level < l THEN l ELSE level
      /\ maxHp' = IF level < l THEN maxHp + ClassHp[l] - ClassHp[level] ELSE maxHp
  BY DEF OnGetReward
<1>3. e \in 0 .. LevelStart[MaxLevel] /\ l \in Levels /\ LevelOf(exp) <= l
  BY <1>1, RewardRaisesLevel DEF ProgressTypeOK
<1>4. level = LevelOf(exp) /\ level \in Levels /\ level <= l
  BY <1>1, <1>3 DEF Measured, ProgressTypeOK
<1>5. level' = l
  <2> HIDE DEF l
  <2>1. level \in Int /\ l \in Int
    BY <1>3, <1>4, ProgressAssumption DEF Levels
  <2> QED BY <1>2, <1>4, <2>1
<1>6. /\ FinalHp(level, worn) \in Nat
      /\ FinalHp(l, worn) \in Nat
      /\ FinalHp(level, worn) <= FinalHp(l, worn)
      /\ FinalHp(l, worn) = FinalHp(level, worn) + ClassHp[l] - ClassHp[level]
  <2>1. \A p \in Parts : worn[p] # NoItem => worn[p].template \in Gear
    BY DEF ProgressInv, WornLoads
  <2>2. worn \in [Parts -> Slot]
    BY <1>1 DEF ProgressTypeOK
  <2> HIDE DEF l
  <2> QED BY <1>3, <1>4, <2>1, <2>2, FinalHpFacts
<1>7. maxHp' = FinalHp(l, worn)
  <2>1. maxHp = FinalHp(level, worn)
    BY <1>1 DEF Measured
  <2> HIDE DEF l
  <2>2. CASE level < l
    BY <1>2, <1>6, <2>1, <2>2
  <2>3. CASE ~ (level < l)
    <3>1. l = level
      BY <1>2, <1>5, <2>3
    <3> QED BY <1>2, <2>1, <2>3, <3>1
  <2> QED BY <2>2, <2>3
<1>8. hp \in Nat /\ hp' <= maxHp'
  <2>1. hp \in Nat /\ hp <= FinalHp(level, worn) /\ hp' = hp
    BY <1>1, <1>2 DEF Measured, ProgressTypeOK
  <2> HIDE DEF l
  <2> QED BY <1>6, <1>7, <2>1
<1>9. Measured'
  BY <1>2, <1>5, <1>7, <1>8, MeasuredPrime
<1>10. ProgressTypeOK'
  <2>1. gold' \in Nat
    BY <1>1, <1>2 DEF ProgressTypeOK
  <2>2. maxHp' \in Nat /\ level' \in Levels /\ exp' \in 0 .. LevelStart[MaxLevel]
    BY <1>2, <1>3, <1>5, <1>6, <1>7
  <2> QED BY <1>1, <1>2, <2>1, <2>2 DEF ProgressTypeOK
<1>11. Vital' /\ WornLoads' /\ Single' /\ Distinct' /\ BagLoads'
  BY <1>2, SameQuick, SameBag DEF ProgressInv, Vital, WornLoads, Single
<1> QED BY <1>9, <1>10, <1>11 DEF ProgressInv

LEMMA Halved == ASSUME NEW m \in Nat, m >= 2
                PROVE  m \div 2 \in Nat /\ m \div 2 >= 1 /\ m \div 2 <= m
OBVIOUS

\* Death's price, at the respawn or at the save.
LEMMA TownRespawnKeeps ==
  ASSUME ProgressInv, TownRespawn, UNCHANGED <<quick, level, maxHp, goods>>,
         online' \in BOOLEAN
  PROVE  ProgressInv'
<1>1. ProgressTypeOK /\ Measured
  BY DEF ProgressInv
<1>2. /\ UNCHANGED <<quick, level, maxHp, bag, worn, gold, made, ledger>>
      /\ exp' = ApplyDeathPenalty(exp) /\ hp' = maxHp \div 2 /\ dead' = FALSE
  BY DEF TownRespawn, goods
<1>3. exp' \in 0 .. LevelStart[MaxLevel] /\ LevelOf(exp') = LevelOf(exp)
  BY <1>1, <1>2, PenaltyKeepsLevel DEF ProgressTypeOK
<1>4. maxHp \in Nat /\ maxHp >= 2
  <2>1. \A p \in Parts : worn[p] # NoItem => worn[p].template \in Gear
    BY DEF ProgressInv, WornLoads
  <2>2. worn \in [Parts -> Slot] /\ level \in Levels
    BY <1>1 DEF ProgressTypeOK
  <2>3. maxHp = FinalHp(level, worn)
    BY <1>1 DEF Measured
  <2> QED BY <2>1, <2>2, <2>3, FinalHpFacts
<1>5. hp' \in Nat /\ hp' >= 1 /\ hp' <= maxHp
  BY <1>2, <1>4, Halved
<1>6. Measured'
  BY <1>1, <1>2, <1>3, <1>5, MeasuredPrime DEF Measured
<1>7. Vital'
  BY <1>2, <1>5 DEF Vital
<1>8. ProgressTypeOK'
  BY <1>1, <1>2, <1>3, <1>5 DEF ProgressTypeOK
<1>9. WornLoads' /\ Single' /\ Distinct' /\ BagLoads'
  BY <1>2, SameQuick, SameBag DEF ProgressInv, WornLoads, Single
<1> QED BY <1>6, <1>7, <1>8, <1>9 DEF ProgressInv

LEMMA SaveKeeps ==
  ASSUME ProgressInv, SaveAndLeave
  PROVE  ProgressInv'
<1>1. CASE dead
  <2>1. TownRespawn /\ UNCHANGED <<quick, level, maxHp, goods>> /\ online' \in BOOLEAN
    BY <1>1 DEF SaveAndLeave
  <2> QED BY <2>1, TownRespawnKeeps
<1>2. CASE ~ dead
  <2>1. /\ UNCHANGED <<exp, hp, dead, quick, level, maxHp, bag, worn, gold, made, ledger>>
        /\ online' = FALSE
    BY <1>2 DEF SaveAndLeave, goods
  <2>2. ProgressTypeOK'
    BY <2>1 DEF ProgressInv, ProgressTypeOK
  <2>3. Measured'
    BY <2>1, MeasuredPrime DEF ProgressInv, Measured
  <2>4. Vital'
    BY <1>2, <2>1 DEF ProgressInv, Vital
  <2>5. WornLoads' /\ Single' /\ Distinct' /\ BagLoads'
    BY <2>1, SameQuick, SameBag DEF ProgressInv, WornLoads, Single
  <2> QED BY <2>2, <2>3, <2>4, <2>5 DEF ProgressInv
<1> QED BY <1>1, <1>2

\* No quick slot is dropped at a load.
LEMMA AllQuickLoads ==
  ASSUME ProgressInv
  PROVE  \A q \in QuickSlots : quick[q] # NoRef => QuickLoads(q)
<1>1. SUFFICES ASSUME NEW q \in QuickSlots, quick[q] # NoRef,
                      NEW k \in QuickSlots, k < q
               PROVE  quick[k] # quick[q]
  BY DEF QuickLoads
<1>2. k # q
  BY <1>1, ProgressAssumption
<1> QED BY <1>1, <1>2 DEF ProgressInv, Distinct

LEMMA LoadKeeps ==
  ASSUME ProgressInv, Load
  PROVE  ProgressInv'
<1>1. ProgressTypeOK /\ Measured
  BY DEF ProgressInv
<1>2. /\ UNCHANGED <<exp, hp, dead, bag, worn, gold, made, ledger>>
      /\ online' = TRUE
      /\ level' = LevelOf(exp)
      /\ maxHp' = FinalHp(LevelOf(exp), worn)
      /\ quick' = [q \in QuickSlots |-> IF QuickLoads(q) THEN quick[q] ELSE NoRef]
  BY DEF Load, goods
<1>3. quick' = quick
  BY <1>1, <1>2, AllQuickLoads DEF ProgressTypeOK
<1>4. level' = level /\ maxHp' = maxHp
  BY <1>1, <1>2 DEF Measured
<1>5. ProgressTypeOK'
  BY <1>1, <1>2, <1>3, <1>4 DEF ProgressTypeOK
<1>6. Measured'
  BY <1>1, <1>2, <1>4, MeasuredPrime DEF Measured
<1>7. Vital'
  BY <1>2 DEF ProgressInv, Vital
<1>8. WornLoads' /\ Single' /\ Distinct' /\ BagLoads'
  BY <1>2, <1>3, SameQuick, SameBag DEF ProgressInv, WornLoads, Single
<1> QED BY <1>5, <1>6, <1>7, <1>8 DEF ProgressInv

LEMMA NextProgressInv == ProgressInv /\ [ProgressNext]_progressVars => ProgressInv'
<1> SUFFICES ASSUME ProgressInv, [ProgressNext]_progressVars
             PROVE  ProgressInv'
  OBVIOUS
<1>1. Hits \subseteq Nat /\ Rewards \subseteq Nat /\ Bounties \subseteq Nat
  BY ProgressAssumption
<1>2. CASE ItemRequest
  BY <1>1, <1>2, BuyKeeps, SellKeeps, EquipKeeps, UnequipKeeps, UseKeeps, UseQuickKeeps,
     SetQuickKeeps DEF ItemRequest
<1>3. CASE \E damage \in Hits : OnHit(damage)
  BY <1>1, <1>3, HitKeeps
<1>4. CASE \E gained \in Rewards, bounty \in Bounties : OnGetReward(gained, bounty)
  BY <1>1, <1>4, RewardKeeps
<1>5. CASE Respawn
  <2>1. TownRespawn /\ UNCHANGED <<quick, level, maxHp, goods>> /\ online' \in BOOLEAN
    BY <1>5 DEF Respawn, ProgressInv, ProgressTypeOK
  <2> QED BY <2>1, TownRespawnKeeps
<1>6. CASE SaveAndLeave
  BY <1>6, SaveKeeps
<1>7. CASE Load
  BY <1>7, LoadKeeps
<1>8. CASE UNCHANGED progressVars
  <2>1. UNCHANGED <<exp, hp, dead, quick, level, maxHp, bag, worn, gold, made, ledger, online>>
    BY <1>8 DEF progressVars
  <2>2. ProgressTypeOK'
    BY <2>1 DEF ProgressInv, ProgressTypeOK
  <2>3. WornLoads' /\ Single' /\ Measured' /\ Vital' /\ Distinct' /\ BagLoads'
    BY <2>1, SameStats, SameQuick, SameBag
  <2> QED BY <2>2, <2>3 DEF ProgressInv
<1> QED BY <1>2, <1>3, <1>4, <1>5, <1>6, <1>7, <1>8 DEF ProgressNext

LEMMA ProgressInvariant == ProgressSpec => []ProgressInv
BY InitProgressInv, NextProgressInv, PTL DEF ProgressSpec

(***************************************************************************)
(* Counting pieces.  The places of a character are a function from places  *)
(* to slots; what a request does to it is a change of one place or two.    *)
(***************************************************************************)

PiecesIn(f, x) ==
  {u \in Places \X (1 .. MaxStack) :
     f[u[1]] # NoItem /\ f[u[1]].template = x /\ u[2] <= f[u[1]].count}

LEMMA PlacesFinite == IsFiniteSet(Places \X (1 .. MaxStack))
<1>0. 1 \in Int /\ SlotCount \in Int /\ MaxStack \in Int
  BY ProgressAssumption
<1>1. IsFiniteSet(1 .. SlotCount) /\ IsFiniteSet(1 .. MaxStack)
  BY <1>0, FS_Interval
<1>2. IsFiniteSet(Sections) /\ IsFiniteSet(Parts) /\ IsFiniteSet({"worn"})
  <2>1. \A a, b : IsFiniteSet({a, b})
    <3>1. SUFFICES ASSUME NEW a, NEW b PROVE IsFiniteSet({a, b})
      OBVIOUS
    <3>2. IsFiniteSet({a})
      BY FS_Singleton
    <3>3. IsFiniteSet({a} \cup {b})
      BY <3>2, FS_AddElement
    <3>4. {a} \cup {b} = {a, b}
      OBVIOUS
    <3> QED BY <3>3, <3>4
  <2> QED BY <2>1, FS_Singleton DEF Sections, Parts
<1>3. IsFiniteSet(Sections \X Slots) /\ IsFiniteSet({"worn"} \X Parts)
  BY <1>1, <1>2, FS_Product DEF Slots
<1>4. IsFiniteSet(Places)
  BY <1>3, FS_Union DEF Places
<1> QED BY <1>1, <1>4, FS_Product

LEMMA PiecesFinite ==
  ASSUME NEW f, NEW x
  PROVE  IsFiniteSet(PiecesIn(f, x)) /\ Cardinality(PiecesIn(f, x)) \in Nat
<1>1. PiecesIn(f, x) \in SUBSET (Places \X (1 .. MaxStack))
  BY DEF PiecesIn
<1>2. IsFiniteSet(PiecesIn(f, x))
  BY <1>1, PlacesFinite, FS_Subset
<1> QED BY <1>2, FS_CardinalityType

\* The item at `pl' is x, and one more than was there.
OneMore(f, g, pl, x) ==
  /\ g[pl] \in Item /\ g[pl].template = x /\ g[pl].count <= MaxStack
  /\ \/ f[pl] = NoItem /\ g[pl].count = 1
     \/ f[pl] \in Item /\ f[pl].template = x /\ g[pl].count = f[pl].count + 1

LEMMA OneMoreCounts ==
  ASSUME NEW f, NEW g, NEW pl \in Places, NEW x \in Templates,
         OneMore(f, g, pl, x),
         \A q \in Places : q # pl => g[q] = f[q]
  PROVE  \A y \in Templates :
           Cardinality(PiecesIn(g, y)) =
             IF y = x THEN Cardinality(PiecesIn(f, y)) + 1 ELSE Cardinality(PiecesIn(f, y))
<1>0. SUFFICES ASSUME NEW y \in Templates
      PROVE Cardinality(PiecesIn(g, y)) =
              IF y = x THEN Cardinality(PiecesIn(f, y)) + 1 ELSE Cardinality(PiecesIn(f, y))
  OBVIOUS
<1>1. PICK n \in 1 .. MaxStack : n = g[pl].count
  BY ProgressAssumption DEF OneMore, Item
<1>2. g[pl] # NoItem /\ g[pl].template = x
  BY ItemIsSomething DEF OneMore
<1>3. \A k \in 1 .. MaxStack :
        (f[pl] # NoItem /\ f[pl].template = x /\ k <= f[pl].count) <=> k < n
  <2>1. CASE f[pl] = NoItem /\ n = 1
    BY <2>1, ProgressAssumption
  <2>2. CASE f[pl] \in Item /\ f[pl].template = x /\ n = f[pl].count + 1
    <3>1. PICK m \in Nat : m = f[pl].count
      BY <2>2 DEF Item
    <3>2. f[pl] # NoItem /\ n = m + 1
      BY <2>2, <3>1, ItemIsSomething
    <3> QED BY <2>2, <3>1, <3>2, ProgressAssumption
  <2> QED BY <1>1, <2>1, <2>2 DEF OneMore
<1>4. \A u \in Places \X (1 .. MaxStack) : u[1] # pl =>
        (u \in PiecesIn(g, y) <=> u \in PiecesIn(f, y))
  BY DEF PiecesIn
<1>5. CASE y = x
  <2>1. <<pl, n>> \notin PiecesIn(f, x)
    BY <1>1, <1>3, ProgressAssumption DEF PiecesIn
  <2>2. ASSUME NEW u \in Places \X (1 .. MaxStack)
        PROVE  u \in PiecesIn(g, x) <=> u \in PiecesIn(f, x) \cup {<<pl, n>>}
    <3>1. CASE u[1] # pl
      BY <1>4, <1>5, <3>1
    <3>2. CASE u[1] = pl
      <4>1. PICK k \in 1 .. MaxStack : u = <<pl, k>>
        BY <3>2
      <4>2. u \in PiecesIn(g, x) <=> k <= n
        BY <1>1, <1>2, <4>1 DEF PiecesIn
      <4>3. u \in PiecesIn(f, x) <=> k < n
        BY <1>3, <4>1 DEF PiecesIn
      <4>4. k <= n <=> k < n \/ k = n
        BY <1>1, <4>1, ProgressAssumption
      <4> QED BY <4>1, <4>2, <4>3, <4>4
    <3> QED BY <3>1, <3>2
  <2>3. PiecesIn(g, x) = PiecesIn(f, x) \cup {<<pl, n>>}
    <3>1. PiecesIn(g, x) \subseteq Places \X (1 .. MaxStack)
      BY DEF PiecesIn
    <3>2. PiecesIn(f, x) \cup {<<pl, n>>} \subseteq Places \X (1 .. MaxStack)
      BY <1>1 DEF PiecesIn
    <3> QED BY <2>2, <3>1, <3>2
  <2>4. IsFiniteSet(PiecesIn(f, x))
    BY PiecesFinite
  <2> QED BY <1>5, <2>1, <2>3, <2>4, FS_AddElement
<1>6. CASE y # x
  <2>1. ASSUME NEW u \in Places \X (1 .. MaxStack), u[1] = pl
        PROVE  u \notin PiecesIn(g, y) /\ u \notin PiecesIn(f, y)
    <3>1. f[pl] # NoItem => f[pl].template = x
      BY DEF OneMore
    <3> QED BY <1>2, <1>6, <2>1, <3>1 DEF PiecesIn
  <2>2. PiecesIn(g, y) = PiecesIn(f, y)
    <3>1. \A u \in Places \X (1 .. MaxStack) : u \in PiecesIn(g, y) <=> u \in PiecesIn(f, y)
      BY <1>4, <2>1
    <3>2. PiecesIn(g, y) \subseteq Places \X (1 .. MaxStack)
      BY DEF PiecesIn
    <3>3. PiecesIn(f, y) \subseteq Places \X (1 .. MaxStack)
      BY DEF PiecesIn
    <3> QED BY <3>1, <3>2, <3>3
  <2> QED BY <1>6, <2>2
<1> QED BY <1>5, <1>6

\* No two places hold the same item, and every uid was drawn.
OwnUids(f, n) ==
  /\ \A s, t \in Places : s # t /\ f[s] # NoItem /\ f[t] # NoItem => f[s].uid # f[t].uid
  /\ \A s \in Places : f[s] # NoItem => f[s].uid \in 1 .. n

\* A place gets an item with a new uid.
LEMMA UidsDrawn ==
  ASSUME NEW f, NEW g, NEW pl \in Places, NEW n \in Nat, OwnUids(f, n),
         \A q \in Places : q # pl => g[q] = f[q],
         g[pl].uid = n + 1
  PROVE  OwnUids(g, n + 1)
<1>1. \A s \in Places : f[s] # NoItem => f[s].uid \in 1 .. n
  BY DEF OwnUids
<1>2. ASSUME NEW s \in Places, s # pl, g[s] # NoItem PROVE g[s].uid \in 1 .. n
  BY <1>1, <1>2
<1>3. \A s \in Places : g[s] # NoItem => g[s].uid \in 1 .. n + 1
  BY <1>2
<1>4. ASSUME NEW s \in Places, NEW t \in Places, s # t, g[s] # NoItem, g[t] # NoItem
      PROVE  g[s].uid # g[t].uid
  <2>1. CASE s = pl
    BY <1>2, <1>4, <2>1
  <2>2. CASE t = pl
    BY <1>2, <1>4, <2>2
  <2>3. CASE s # pl /\ t # pl
    BY <1>4, <2>3 DEF OwnUids
  <2> QED BY <2>1, <2>2, <2>3
<1> QED BY <1>3, <1>4 DEF OwnUids

\* An item goes from one place to an empty one.
LEMMA UidsMoved ==
  ASSUME NEW f, NEW g, NEW a \in Places, NEW b \in Places, a # b, NEW n \in Nat,
         OwnUids(f, n), f[a] # NoItem,
         \A q \in Places : q \notin {a, b} => g[q] = f[q],
         g[a] = NoItem, g[b] = f[a]
  PROVE  OwnUids(g, n)
BY DEF OwnUids

(***************************************************************************)
(* Pieces and their ledger, one step at a time                             *)
(***************************************************************************)

Counted(f, book) == \A x \in Templates : Cardinality(PiecesIn(f, x)) = book[x]

LEMMA OneAdded ==
  ASSUME NEW f, NEW g, NEW pl \in Places, NEW x \in Templates, OneMore(f, g, pl, x),
         \A q \in Places : q # pl => g[q] = f[q],
         NEW book \in [Templates -> Int], Counted(f, book)
  PROVE  Counted(g, [book EXCEPT ![x] = @ + 1])
<1>1. \A y \in Templates :
        Cardinality(PiecesIn(g, y)) =
          IF y = x THEN Cardinality(PiecesIn(f, y)) + 1 ELSE Cardinality(PiecesIn(f, y))
  BY OneMoreCounts
<1> QED BY <1>1 DEF Counted

LEMMA OneTaken ==
  ASSUME NEW f, NEW g, NEW pl \in Places, NEW x \in Templates, OneMore(g, f, pl, x),
         \A q \in Places : q # pl => g[q] = f[q],
         NEW book \in [Templates -> Int], Counted(f, book)
  PROVE  Counted(g, [book EXCEPT ![x] = @ - 1])
<1>1. \A y \in Templates :
        Cardinality(PiecesIn(f, y)) =
          IF y = x THEN Cardinality(PiecesIn(g, y)) + 1 ELSE Cardinality(PiecesIn(g, y))
  BY OneMoreCounts
<1>2. ASSUME NEW y \in Templates
      PROVE  Cardinality(PiecesIn(g, y)) = [book EXCEPT ![x] = @ - 1][y]
  <2>1. Cardinality(PiecesIn(g, y)) \in Nat
    BY PiecesFinite
  <2> QED BY <1>1, <2>1 DEF Counted
<1> QED BY <1>2 DEF Counted

\* Gear that changes its place.
LEMMA OneMoved ==
  ASSUME NEW f, NEW g, NEW a \in Places, NEW b \in Places, a # b,
         f[a] \in Item, f[a].count = 1, f[b] = NoItem, g[a] = NoItem, g[b] = f[a],
         \A q \in Places : q \notin {a, b} => g[q] = f[q],
         NEW book, Counted(f, book)
  PROVE  Counted(g, book)
<1> DEFINE h == [q \in Places |-> IF q = a THEN NoItem ELSE f[q]]
<1>0. PICK x \in Templates : f[a].template = x
  BY DEF Item
<1>1. h[a] = NoItem /\ h[b] = NoItem /\ \A q \in Places : q # a => f[q] = h[q]
  OBVIOUS
<1>2. \A q \in Places : q # b => g[q] = h[q]
  OBVIOUS
<1> HIDE DEF h
<1>3. 1 <= MaxStack
  BY ProgressAssumption
<1>4. OneMore(h, f, a, x)
  BY <1>0, <1>1, <1>3 DEF OneMore
<1>5. OneMore(h, g, b, x)
  BY <1>0, <1>1, <1>3 DEF OneMore
<1>6. \A y \in Templates :
        Cardinality(PiecesIn(f, y)) =
          IF y = x THEN Cardinality(PiecesIn(h, y)) + 1 ELSE Cardinality(PiecesIn(h, y))
  BY <1>1, <1>4, OneMoreCounts
<1>7. \A y \in Templates :
        Cardinality(PiecesIn(g, y)) =
          IF y = x THEN Cardinality(PiecesIn(h, y)) + 1 ELSE Cardinality(PiecesIn(h, y))
  BY <1>2, <1>5, OneMoreCounts
<1> QED BY <1>6, <1>7 DEF Counted

\* The places of the character.
Held == [q \in Places |-> At(q)]

LEMMA PiecesHeld == \A x : Pieces(x) = PiecesIn(Held, x)
<1>1. ASSUME NEW x, NEW s \in Places
      PROVE  s \in PlacesOf(x) <=> Held[s] # NoItem /\ Held[s].template = x
  BY DEF PlacesOf, Held
<1>2. ASSUME NEW x, NEW u \in Places \X (1 .. MaxStack)
      PROVE  u \in Pieces(x) <=> u \in PiecesIn(Held, x)
  <2>1. u[1] \in Places /\ Held[u[1]] = At(u[1])
    BY DEF Held
  <2>2. u \in PlacesOf(x) \X (1 .. MaxStack) <=> u[1] \in PlacesOf(x)
    BY <1>2
  <2> QED BY <1>1, <2>1, <2>2 DEF Pieces, PiecesIn
<1>3. \A x : Pieces(x) \subseteq Places \X (1 .. MaxStack)
  BY DEF Pieces, PlacesOf
<1>4. \A x : PiecesIn(Held, x) \subseteq Places \X (1 .. MaxStack)
  BY DEF PiecesIn
<1> QED BY <1>2, <1>3, <1>4

SetSlot(c, i, item) == bag' = [bag EXCEPT ![c][i] = item]
SetPart(p, gear) == worn' = [worn EXCEPT ![p] = gear]

\* What requests write: one slot, one part or both.
LEMMA HeldChange ==
  ASSUME ProgressTypeOK,
         NEW c \in Sections, NEW i \in Slots, NEW p \in Parts, NEW item, NEW gear,
         SetSlot(c, i, item), SetPart(p, gear)
  PROVE  /\ <<c, i>> \in Places /\ <<"worn", p>> \in Places /\ <<c, i>> # <<"worn", p>>
         /\ Held[<<c, i>>] = bag[c][i] /\ Held[<<"worn", p>>] = worn[p]
         /\ Held'[<<c, i>>] = item /\ Held'[<<"worn", p>>] = gear
         /\ \A q \in Places : q \notin {<<c, i>>, <<"worn", p>>} => Held'[q] = Held[q]
<1>1. bag \in [Sections -> [Slots -> Slot]] /\ worn \in [Parts -> Slot]
  BY DEF ProgressTypeOK
<1>2. "worn" \notin Sections
  BY DEF Sections
<1>3. <<c, i>> \in Places /\ <<"worn", p>> \in Places /\ <<c, i>> # <<"worn", p>>
  BY <1>2 DEF Places
<1>4. \A d \in Sections, j \in Slots :
        Held[<<d, j>>] = bag[d][j] /\ Held'[<<d, j>>] = bag'[d][j]
  BY <1>2 DEF Held, At, Places
<1>5. \A r \in Parts : Held[<<"worn", r>>] = worn[r] /\ Held'[<<"worn", r>>] = worn'[r]
  BY DEF Held, At, Places
<1>6. \A d \in Sections, j \in Slots : bag'[d][j] = IF d = c /\ j = i THEN item ELSE bag[d][j]
  BY <1>1 DEF SetSlot
<1>7. \A r \in Parts : worn'[r] = IF r = p THEN gear ELSE worn[r]
  BY <1>1 DEF SetPart
<1>8. ASSUME NEW q \in Places, q \notin {<<c, i>>, <<"worn", p>>}
      PROVE  Held'[q] = Held[q]
  <2>1. CASE q \in Sections \X Slots
    <3>1. PICK d \in Sections, j \in Slots : q = <<d, j>>
      BY <2>1
    <3> QED BY <1>4, <1>6, <1>8, <3>1
  <2>2. CASE q \in {"worn"} \X Parts
    <3>1. PICK r \in Parts : q = <<"worn", r>>
      BY <2>2
    <3> QED BY <1>5, <1>7, <1>8, <3>1
  <2> QED BY <2>1, <2>2 DEF Places
<1> QED BY <1>3, <1>4, <1>5, <1>6, <1>7, <1>8

LEMMA BagHeld ==
  ASSUME ProgressTypeOK, NEW c \in Sections, NEW i \in Slots, NEW item,
         SetSlot(c, i, item), UNCHANGED worn
  PROVE  /\ <<c, i>> \in Places
         /\ Held[<<c, i>>] = bag[c][i] /\ Held'[<<c, i>>] = item
         /\ \A q \in Places : q # <<c, i>> => Held'[q] = Held[q]
<1>1. worn \in [Parts -> Slot] /\ "weapon" \in Parts
  BY DEF ProgressTypeOK, Parts
<1>2. PICK p, gear : p \in Parts /\ gear = worn[p] /\ SetPart(p, gear)
  BY <1>1 DEF SetPart
<1>3. /\ <<c, i>> \in Places
      /\ Held[<<c, i>>] = bag[c][i] /\ Held'[<<c, i>>] = item
      /\ Held[<<"worn", p>>] = worn[p] /\ Held'[<<"worn", p>>] = gear
      /\ \A q \in Places : q \notin {<<c, i>>, <<"worn", p>>} => Held'[q] = Held[q]
  BY <1>2, HeldChange
<1> QED BY <1>2, <1>3

LEMMA SameHeld == ASSUME UNCHANGED <<bag, worn>> PROVE Held' = Held
BY DEF Held, At

(***************************************************************************)
(* Items are conserved                                                     *)
(***************************************************************************)

ItemsInv == Counted(Held, ledger) /\ OwnUids(Held, made)

LEMMA InitItemsInv == ProgressInit => ItemsInv
<1>1. SUFFICES ASSUME ProgressInit PROVE ItemsInv
  OBVIOUS
<1>2. ASSUME NEW q \in Places PROVE Held[q] = NoItem
  <2>1. Held[q] = At(q)
    BY DEF Held
  <2>2. CASE q \in Sections \X Slots
    <3>1. q[1] \in Sections /\ q[2] \in Slots /\ q[1] # "worn"
      BY <2>2 DEF Sections
    <3> QED BY <1>1, <2>1, <3>1 DEF ProgressInit, At
  <2>3. CASE q \in {"worn"} \X Parts
    <3>1. q[1] = "worn" /\ q[2] \in Parts
      BY <2>3
    <3> QED BY <1>1, <2>1, <3>1 DEF ProgressInit, At
  <2> QED BY <2>2, <2>3 DEF Places
<1>3. \A x \in Templates : PiecesIn(Held, x) = {}
  BY <1>2 DEF PiecesIn
<1>4. Cardinality({}) = 0
  BY FS_EmptySet
<1>5. Counted(Held, ledger)
  BY <1>1, <1>3, <1>4 DEF Counted, ProgressInit
<1>6. OwnUids(Held, made)
  BY <1>2 DEF OwnUids
<1> QED BY <1>5, <1>6 DEF ItemsInv

LEMMA ItemsPrime ==
  ASSUME NEW g, g = Held', Counted(g, ledger'), OwnUids(g, made') PROVE ItemsInv'
BY DEF ItemsInv, Counted, OwnUids, PiecesIn

LEMMA BuyConserves ==
  ASSUME ProgressInv, ItemsInv, NEW x \in Templates, BuyItem(x)
  PROVE  ItemsInv'
<1>1. ProgressTypeOK /\ made \in Nat /\ ledger \in [Templates -> Int]
  BY DEF ProgressInv, ProgressTypeOK
<1>2. /\ AddNewItem(x) /\ UNCHANGED worn
      /\ ledger' = [ledger EXCEPT ![x] = @ + 1]
  BY DEF BuyItem
<1> DEFINE c == SectionOf(x)
<1>3. c \in Sections /\ StackOf(x) <= MaxStack
  BY <1>1, <1>2, AddedOne, ProgressAssumption DEF StackOf
<1>4. PICK i \in Slots, item \in Item :
        /\ bag' = [bag EXCEPT ![c][i] = item]
        /\ item.template = x /\ item.count <= StackOf(x)
        /\ \/ /\ bag[c][i] \in Item
              /\ bag[c][i].uid = item.uid
              /\ bag[c][i].template = x
              /\ item.count = bag[c][i].count + 1
              /\ made' = made
           \/ /\ bag[c][i] = NoItem
              /\ item.uid = made + 1 /\ item.count = 1
              /\ made' = made + 1
  BY <1>1, <1>2, AddedOne
<1> HIDE DEF c
<1>5. PICK pl, f, g :
        /\ pl \in Places /\ f = Held /\ g = Held'
        /\ f[pl] = bag[c][i] /\ g[pl] = item
        /\ \A q \in Places : q # pl => g[q] = f[q]
  <2>1. SetSlot(c, i, item)
    BY <1>4 DEF SetSlot
  <2>2. /\ <<c, i>> \in Places /\ Held[<<c, i>>] = bag[c][i] /\ Held'[<<c, i>>] = item
        /\ \A q \in Places : q # <<c, i>> => Held'[q] = Held[q]
    BY <1>1, <1>2, <1>3, <2>1, BagHeld
  <2> QED BY <2>2
<1>6. item.count \in Nat /\ StackOf(x) \in Nat /\ MaxStack \in Nat
  BY StackFacts, ProgressAssumption DEF Item
<1>7. OneMore(f, g, pl, x)
  BY <1>3, <1>4, <1>5, <1>6 DEF OneMore
<1>8. Counted(g, ledger')
  BY <1>1, <1>2, <1>5, <1>7, OneAdded DEF ItemsInv
<1>9. OwnUids(g, made')
  <2>1. OwnUids(f, made)
    BY <1>5 DEF ItemsInv
  <2>2. CASE bag[c][i] \in Item /\ bag[c][i].uid = item.uid /\ made' = made
    <3>1. f[pl] # NoItem /\ g[pl].uid = f[pl].uid
      BY <1>5, <2>2, ItemIsSomething
    <3>2. g[pl] # NoItem => f[pl] # NoItem /\ g[pl].uid = f[pl].uid
      BY <3>1
    <3> QED BY <1>5, <2>1, <2>2, <3>2 DEF OwnUids
  <2>3. CASE item.uid = made + 1 /\ made' = made + 1
    BY <1>1, <1>5, <2>1, <2>3, UidsDrawn
  <2> QED BY <1>4, <2>2, <2>3
<1> QED BY <1>5, <1>8, <1>9, ItemsPrime

\* One of a slot's stack is gone from the bag and from the ledger.
LEMMA TakenConserves ==
  ASSUME ProgressInv, ItemsInv, NEW c \in Sections, NEW i \in Slots, bag[c][i] # NoItem,
         bag' = Without(bag, c, i), UNCHANGED <<worn, made>>,
         ledger' = [ledger EXCEPT ![bag[c][i].template] = @ - 1]
  PROVE  ItemsInv'
<1>1. ProgressTypeOK /\ made \in Nat /\ ledger \in [Templates -> Int] /\ BagLoads
  BY DEF ProgressInv, ProgressTypeOK
<1>2. bag[c][i] \in Item
  BY <1>1, WithoutOne
<1>3. PICK item \in Slot :
        /\ bag' = [bag EXCEPT ![c][i] = item]
        /\ \/ bag[c][i].count = 1 /\ item = NoItem
           \/ /\ item \in Item
              /\ item.uid = bag[c][i].uid
              /\ item.template = bag[c][i].template
              /\ bag[c][i].count = item.count + 1
  BY <1>1, WithoutOne
<1>4. PICK x \in Templates : x = bag[c][i].template
  BY <1>2 DEF Item
<1>5. bag[c][i].count <= MaxStack
  <2>1. bag[c][i].count \in 1 .. StackOf(x) /\ StackOf(x) <= MaxStack
    BY <1>1, <1>4, ProgressAssumption DEF BagLoads, StackOf
  <2> QED BY <2>1, StackFacts, ProgressAssumption
<1>6. PICK pl, f, g :
        /\ pl \in Places /\ f = Held /\ g = Held'
        /\ f[pl] = bag[c][i] /\ g[pl] = item
        /\ \A q \in Places : q # pl => g[q] = f[q]
  <2>1. SetSlot(c, i, item)
    BY <1>3 DEF SetSlot
  <2>2. /\ <<c, i>> \in Places /\ Held[<<c, i>>] = bag[c][i] /\ Held'[<<c, i>>] = item
        /\ \A q \in Places : q # <<c, i>> => Held'[q] = Held[q]
    BY <1>1, <2>1, BagHeld
  <2> QED BY <2>2
<1>7. OneMore(g, f, pl, x)
  BY <1>2, <1>3, <1>4, <1>5, <1>6 DEF OneMore
<1>8. Counted(g, ledger')
  BY <1>1, <1>4, <1>6, <1>7, OneTaken DEF ItemsInv
<1>9. OwnUids(g, made')
  <2>1. OwnUids(f, made) /\ made' = made
    BY <1>6 DEF ItemsInv
  <2>2. g[pl] # NoItem => f[pl] # NoItem /\ g[pl].uid = f[pl].uid
    BY <1>3, <1>6
  <2> QED BY <1>6, <2>1, <2>2 DEF OwnUids
<1> QED BY <1>6, <1>8, <1>9, ItemsPrime

LEMMA EquipConserves ==
  ASSUME ProgressInv, ItemsInv, NEW i \in Slots, EquipGear(i)
  PROVE  ItemsInv'
<1>1. /\ ProgressTypeOK /\ made \in Nat /\ BagLoads /\ "gear" \in Sections
      /\ UNCHANGED <<made, ledger>>
  BY DEF ProgressInv, ProgressTypeOK, Sections, EquipGear
<1>2. PICK item \in Item : item = bag["gear"][i] /\ item # NoItem
  BY <1>1 DEF EquipGear, ProgressTypeOK, Slot
<1>3. item.template \in Gear /\ item.count = 1
  <2>1. item.template \in Templates /\ item.count \in Nat \ {0}
    BY DEF Item
  <2>2. SectionOf(item.template) = "gear" /\ item.count \in 1 .. StackOf(item.template)
    BY <1>1, <1>2 DEF BagLoads
  <2>3. item.template \in Gear
    BY <2>1, <2>2 DEF SectionOf
  <2> QED BY <2>1, <2>2, <2>3 DEF StackOf
<1>4. PICK p \in Parts : p = PartOf[item.template]
  BY <1>3, ProgressAssumption
<1>5. /\ worn' = [worn EXCEPT ![p] = item] /\ worn[p] = NoItem
      /\ bag' = [bag EXCEPT !["gear"][i] = NoItem]
  BY <1>2, <1>3, <1>4 DEF EquipGear, Without
<1>6. PICK a, b, f, g :
        /\ a \in Places /\ b \in Places /\ f = Held /\ g = Held' /\ a # b
        /\ f[a] = item /\ f[b] = NoItem /\ g[a] = NoItem /\ g[b] = item
        /\ \A q \in Places : q \notin {a, b} => g[q] = f[q]
  <2>1. SetSlot("gear", i, NoItem) /\ SetPart(p, item)
    BY <1>5 DEF SetSlot, SetPart
  <2>2. /\ <<"gear", i>> \in Places /\ <<"worn", p>> \in Places
        /\ <<"gear", i>> # <<"worn", p>>
        /\ Held[<<"gear", i>>] = bag["gear"][i] /\ Held[<<"worn", p>>] = worn[p]
        /\ Held'[<<"gear", i>>] = NoItem /\ Held'[<<"worn", p>>] = item
        /\ \A q \in Places : q \notin {<<"gear", i>>, <<"worn", p>>} => Held'[q] = Held[q]
    BY <1>1, <2>1, HeldChange
  <2> QED BY <1>2, <1>5, <2>2
<1>7. Counted(g, ledger')
  BY <1>1, <1>3, <1>6, OneMoved DEF ItemsInv
<1>8. OwnUids(g, made')
  BY <1>1, <1>2, <1>6, UidsMoved DEF ItemsInv
<1> QED BY <1>6, <1>7, <1>8, ItemsPrime

LEMMA UnequipConserves ==
  ASSUME ProgressInv, ItemsInv, NEW p \in Parts, UnequipGear(p)
  PROVE  ItemsInv'
<1>1. /\ ProgressTypeOK /\ made \in Nat /\ "gear" \in Sections /\ UNCHANGED <<made, ledger>>
  BY DEF ProgressInv, ProgressTypeOK, Sections, UnequipGear
<1>2. PICK item \in Item : item = worn[p] /\ item # NoItem
  BY <1>1 DEF UnequipGear, ProgressTypeOK, Slot
<1>3. item.count = 1
  BY <1>2 DEF ProgressInv, Single
<1>4. PICK i \in EmptySlots("gear") : i = Least(EmptySlots("gear"))
  <2>1. EmptySlots("gear") \in SUBSET Nat /\ EmptySlots("gear") # {}
    BY ProgressAssumption DEF UnequipGear, EmptySlots, Slots
  <2> QED BY <2>1, LeastOf
<1>5. /\ i \in Slots /\ bag["gear"][i] = NoItem
      /\ worn' = [worn EXCEPT ![p] = NoItem]
      /\ bag' = [bag EXCEPT !["gear"][i] = item]
  BY <1>2, <1>4 DEF UnequipGear, EmptySlots
<1>6. PICK a, b, f, g :
        /\ a \in Places /\ b \in Places /\ f = Held /\ g = Held' /\ a # b
        /\ f[a] = item /\ f[b] = NoItem /\ g[a] = NoItem /\ g[b] = item
        /\ \A q \in Places : q \notin {a, b} => g[q] = f[q]
  <2>1. SetSlot("gear", i, item) /\ SetPart(p, NoItem)
    BY <1>5 DEF SetSlot, SetPart
  <2>2. /\ <<"gear", i>> \in Places /\ <<"worn", p>> \in Places
        /\ <<"gear", i>> # <<"worn", p>>
        /\ Held[<<"gear", i>>] = bag["gear"][i] /\ Held[<<"worn", p>>] = worn[p]
        /\ Held'[<<"gear", i>>] = item /\ Held'[<<"worn", p>>] = NoItem
        /\ \A q \in Places : q \notin {<<"gear", i>>, <<"worn", p>>} => Held'[q] = Held[q]
    BY <1>1, <1>5, <2>1, HeldChange
  <2> QED BY <1>2, <1>5, <2>2
<1>7. Counted(g, ledger')
  BY <1>1, <1>3, <1>6, OneMoved DEF ItemsInv
<1>8. OwnUids(g, made')
  BY <1>1, <1>2, <1>6, UidsMoved DEF ItemsInv
<1> QED BY <1>6, <1>7, <1>8, ItemsPrime

LEMMA UnmovedConserves ==
  ASSUME ItemsInv, UNCHANGED <<bag, worn, made, ledger>> PROVE ItemsInv'
<1>1. Held' = Held
  BY SameHeld
<1>2. Counted(Held, ledger') /\ OwnUids(Held, made')
  BY DEF ItemsInv
<1> QED BY <1>1, <1>2, ItemsPrime

LEMMA NextItemsInv == ProgressInv /\ ItemsInv /\ [ProgressNext]_progressVars => ItemsInv'
<1> SUFFICES ASSUME ProgressInv, ItemsInv, [ProgressNext]_progressVars
             PROVE  ItemsInv'
  OBVIOUS
<1>1. ASSUME NEW c \in Sections, NEW i \in Slots, SellItem(c, i) PROVE ItemsInv'
  <2>1. /\ bag[c][i] # NoItem /\ bag' = Without(bag, c, i) /\ UNCHANGED <<worn, made>>
        /\ ledger' = [ledger EXCEPT ![bag[c][i].template] = @ - 1]
    BY <1>1 DEF SellItem
  <2> QED BY <2>1, TakenConserves
<1>2. ASSUME NEW i \in Slots, NEW amount \in Hits, UseItem(i, amount) PROVE ItemsInv'
  <2>1. PICK c \in Sections : c = "consumable"
    BY DEF Sections
  <2>2. /\ bag[c][i] # NoItem /\ bag' = Without(bag, c, i) /\ UNCHANGED <<worn, made>>
        /\ ledger' = [ledger EXCEPT ![bag[c][i].template] = @ - 1]
    BY <1>2, <2>1 DEF UseItem
  <2> QED BY <2>2, TakenConserves
<1>3. ASSUME NEW q \in QuickSlots, NEW amount \in Hits, UseQuickSlot(q, amount)
      PROVE  ItemsInv'
  <2>1. SlotsOf(quick[q]) \in SUBSET Nat /\ SlotsOf(quick[q]) # {}
    BY <1>3, ProgressAssumption DEF UseQuickSlot, SlotsOf, Slots
  <2>2. Least(SlotsOf(quick[q])) \in Slots
    BY <2>1, LeastOf DEF SlotsOf
  <2> QED BY <1>2, <1>3, <2>2 DEF UseQuickSlot
<1>4. CASE ItemRequest
  <2>1. ASSUME NEW q \in QuickSlots, NEW ref \in Potions \cup {NoRef}, SetQuickSlot(q, ref)
        PROVE  ItemsInv'
    BY <2>1, UnmovedConserves DEF SetQuickSlot, goods
  <2> QED BY <1>1, <1>2, <1>3, <1>4, <2>1, BuyConserves, EquipConserves, UnequipConserves
          DEF ItemRequest
<1>5. CASE ~ ItemRequest
  <2>1. UNCHANGED <<bag, worn, made, ledger>>
    BY <1>5 DEF ProgressNext, OnHit, OnGetReward, Respawn, SaveAndLeave, Load, goods,
       progressVars
  <2> QED BY <2>1, UnmovedConserves
<1> QED BY <1>4, <1>5

LEMMA ItemsInvariant == ProgressSpec => []ItemsInv
BY ProgressInvariant, InitItemsInv, NextItemsInv, PTL DEF ProgressSpec

(***************************************************************************)
(* The character's sheet.  What it has is what the ledger says, so a step  *)
(* of the character is the step of the sheet that moves the ledger alike.  *)
(***************************************************************************)

OnSheet == [x \in Templates |-> Cardinality(Pieces(x))]

LEMMA SheetIsLedger ==
  ASSUME ProgressTypeOK, ItemsInv
  PROVE  OnSheet = ledger /\ ledger \in [Templates -> Nat]
<1>1. \A x \in Templates : Cardinality(Pieces(x)) = ledger[x] /\ ledger[x] \in Nat
  BY PiecesHeld, PiecesFinite DEF ItemsInv, Counted
<1>2. ledger \in [Templates -> Int]
  BY DEF ProgressTypeOK
<1> QED BY <1>1, <1>2 DEF OnSheet

\* A request that takes one of a slot's stack takes one that the sheet has.
LEMMA TakenOffSheet ==
  ASSUME ledger \in [Templates -> Nat], ledger' \in [Templates -> Nat],
         NEW x \in Templates, ledger' = [ledger EXCEPT ![x] = @ - 1]
  PROVE  ledger[x] > 0
<1>1. ledger'[x] = ledger[x] - 1 /\ ledger'[x] \in Nat /\ ledger[x] \in Nat
  OBVIOUS
<1> QED BY <1>1

LEMMA SheetStep ==
  ASSUME ProgressInv, ProgressInv', ItemsInv, ItemsInv', [ProgressNext]_progressVars
  PROVE  \/ Sheet!Next
         \/ UNCHANGED <<OnSheet, gold, level>>
<1>1. /\ OnSheet = ledger /\ OnSheet' = ledger'
      /\ ledger \in [Templates -> Nat] /\ ledger' \in [Templates -> Nat]
  <2>1. ProgressTypeOK /\ ProgressTypeOK'
    BY DEF ProgressInv
  <2>2. OnSheet = ledger /\ ledger \in [Templates -> Nat]
    BY <2>1, SheetIsLedger
  <2>3. (OnSheet = ledger /\ ledger \in [Templates -> Nat])'
    BY <2>1, SheetIsLedger, PTL
  <2> QED BY <2>2, <2>3
<1>2. bag \in [Sections -> [Slots -> Slot]] /\ BagLoads
  BY DEF ProgressInv, ProgressTypeOK
<1>3. ASSUME NEW x \in Templates, BuyItem(x) PROVE Sheet!Next
  <2>1. Sheet!Buy(x)
    BY <1>1, <1>3 DEF Sheet!Buy, BuyItem, OnSheet, stats
  <2> QED BY <2>1 DEF Sheet!Next
<1>4. ASSUME NEW c \in Sections, NEW i \in Slots, bag[c][i] # NoItem,
             ledger' = [ledger EXCEPT ![bag[c][i].template] = @ - 1]
      PROVE  \E x \in Templates :
               /\ x = bag[c][i].template /\ SectionOf(x) = c
               /\ ledger[x] > 0 /\ OnSheet' = [OnSheet EXCEPT ![x] = @ - 1]
  <2>1. PICK x \in Templates : x = bag[c][i].template
    BY <1>2, <1>4 DEF Slot, Item
  <2>2. SectionOf(x) = c
    BY <1>2, <1>4, <2>1 DEF BagLoads
  <2>3. ledger[x] > 0
    BY <1>1, <1>4, <2>1, TakenOffSheet
  <2> QED BY <1>1, <1>4, <2>1, <2>2, <2>3
<1>5. ASSUME NEW c \in Sections, NEW i \in Slots, SellItem(c, i) PROVE Sheet!Next
  <2>1. PICK x \in Templates : ledger[x] > 0 /\ OnSheet' = [OnSheet EXCEPT ![x] = @ - 1]
    BY <1>4, <1>5 DEF SellItem
  <2>2. Sheet!Sell(x)
    BY <1>1, <1>5, <2>1 DEF Sheet!Sell, SellItem, OnSheet, stats
  <2> QED BY <2>2 DEF Sheet!Next
<1>6. ASSUME NEW i \in Slots, NEW amount \in Hits, UseItem(i, amount) PROVE Sheet!Next
  <2>1. PICK c \in Sections : c = "consumable"
    BY DEF Sections
  <2>2. PICK x \in Templates :
          /\ SectionOf(x) = c /\ ledger[x] > 0
          /\ OnSheet' = [OnSheet EXCEPT ![x] = @ - 1]
    BY <1>4, <1>6, <2>1 DEF UseItem
  <2>3. x \in Potions
    BY <2>1, <2>2 DEF SectionOf, Templates
  <2>4. Sheet!Use(x)
    BY <1>1, <1>6, <2>2 DEF Sheet!Use, UseItem, OnSheet
  <2> QED BY <2>3, <2>4 DEF Sheet!Next
<1>7. ASSUME NEW q \in QuickSlots, NEW amount \in Hits, UseQuickSlot(q, amount)
      PROVE  Sheet!Next
  <2>1. SlotsOf(quick[q]) \in SUBSET Nat /\ SlotsOf(quick[q]) # {}
    BY <1>7, ProgressAssumption DEF UseQuickSlot, SlotsOf, Slots
  <2>2. Least(SlotsOf(quick[q])) \in Slots
    BY <2>1, LeastOf DEF SlotsOf
  <2> QED BY <1>6, <1>7, <2>2 DEF UseQuickSlot
<1>8. ASSUME NEW gained \in Rewards, NEW bounty \in Bounties, OnGetReward(gained, bounty)
      PROVE  Sheet!Next
  <2>1. PICK l \in Levels : level' = l /\ level <= l
    <3>1. level \in Levels /\ level' \in Levels
      BY DEF ProgressInv, ProgressTypeOK
    <3>2. level' = IF level < LevelOf(AddExp(exp, gained))
                   THEN LevelOf(AddExp(exp, gained)) ELSE level
      BY <1>8 DEF OnGetReward
    <3> QED BY <3>1, <3>2, ProgressAssumption DEF Levels
  <2>2. gold' = gold + bounty /\ ledger' = ledger
    BY <1>8 DEF OnGetReward
  <2>3. Sheet!Reward(bounty)
    BY <1>1, <2>1, <2>2, ProgressAssumption DEF Sheet!Reward, OnSheet, Levels
  <2> QED BY <2>3 DEF Sheet!Next
<1>9. level = LevelOf(exp)
  BY DEF ProgressInv, Measured
<1>10. CASE UNCHANGED <<ledger, gold, level>>
  BY <1>1, <1>10
<1>11. ASSUME NEW i \in Slots, EquipGear(i) PROVE UNCHANGED <<ledger, gold, level>>
  BY <1>11 DEF EquipGear
<1>12. ASSUME NEW p \in Parts, UnequipGear(p) PROVE UNCHANGED <<ledger, gold, level>>
  BY <1>12 DEF UnequipGear
<1>13. ASSUME NEW q \in QuickSlots, NEW ref \in Potions \cup {NoRef}, SetQuickSlot(q, ref)
       PROVE  UNCHANGED <<ledger, gold, level>>
  BY <1>13 DEF SetQuickSlot, goods, stats
<1>14. CASE ItemRequest
  BY <1>3, <1>5, <1>7, <1>6, <1>10, <1>11, <1>12, <1>13, <1>14 DEF ItemRequest
<1>15. CASE \/ \E damage \in Hits : OnHit(damage)
            \/ Respawn \/ SaveAndLeave \/ UNCHANGED progressVars
  BY <1>10, <1>15 DEF OnHit, Respawn, SaveAndLeave, goods, progressVars
<1>16. CASE Load
  BY <1>9, <1>10, <1>16 DEF Load, goods
<1> QED BY <1>8, <1>14, <1>15, <1>16 DEF ProgressNext

(***************************************************************************)
(* The theorems                                                            *)
(***************************************************************************)

\* Bags, worn gear, quick slots, experience, level and HP stay in their types, for
\* every set of items and every level table that meets ProgressAssumption.
THEOREM ProgressTypes == ProgressSpec => []ProgressTypeOK
<1>1. ProgressInv => ProgressTypeOK
  BY DEF ProgressInv
<1> QED BY <1>1, ProgressInvariant, PTL

\* What any session saves is let in again by ApplyProgress and OnLoaded, with every
\* quick slot, at the level of its experience and alive.
THEOREM SavedLoads == ProgressSpec => []SavedProgressLoads
<1>1. ASSUME ProgressInv PROVE SavedProgressLoads
  <2>1. SUFFICES ASSUME ~ online
                 PROVE  /\ BagLoads /\ WornLoads /\ StatLoads
                        /\ \A q \in QuickSlots : quick[q] # NoRef => QuickLoads(q)
                        /\ level = LevelOf(exp) /\ hp > 0
    BY DEF SavedProgressLoads
  <2>2. StatLoads /\ level = LevelOf(exp)
    BY <1>1 DEF ProgressInv, Measured, StatLoads
  <2>3. hp > 0
    BY <1>1, <2>1 DEF ProgressInv, Vital, ProgressTypeOK
  <2> QED BY <1>1, <2>2, <2>3, AllQuickLoads DEF ProgressInv
<1> QED BY <1>1, ProgressInvariant, PTL

\* No request loses an item or makes one, whatever the slots, parts and stacks: the
\* pieces a character has of a template are those it bought and did not sell or use,
\* and no two places have one uid.
THEOREM ItemsKept == ProgressSpec => []ItemsConserved
<1>1. ItemsInv => ItemsConserved
  <2>1. SUFFICES ASSUME ItemsInv PROVE ItemsConserved
    OBVIOUS
  <2>2. \A x \in Templates : Cardinality(Pieces(x)) = ledger[x]
    BY <2>1, PiecesHeld DEF ItemsInv, Counted
  <2>3. \A s \in Places : Held[s] = At(s)
    BY DEF Held
  <2> QED BY <2>1, <2>2, <2>3 DEF ItemsInv, OwnUids, ItemsConserved
<1> QED BY <1>1, ItemsInvariant, PTL

\* A character keeps to its sheet: what it has comes and goes by purchase, sale and use
\* only, and no death, save or load changes it or takes a level.
THEOREM CharacterKeepsItsSheet == ProgressSpec => ImplementsSheet
<1>1. ProgressInit => Sheet!Init
  <2>1. SUFFICES ASSUME ProgressInit PROVE Sheet!Init
    OBVIOUS
  <2>2. ProgressInv /\ ItemsInv
    BY <2>1, InitProgressInv, InitItemsInv
  <2>3. OnSheet = ledger
    BY <2>2, SheetIsLedger DEF ProgressInv
  <2> QED BY <2>1, <2>3 DEF Sheet!Init, ProgressInit, OnSheet
<1>2. /\ ProgressInv /\ ProgressInv' /\ ItemsInv /\ ItemsInv' /\ [ProgressNext]_progressVars
      => [Sheet!Next]_<<OnSheet, gold, level>>
  BY SheetStep
<1> QED BY <1>1, <1>2, ProgressInvariant, ItemsInvariant, PTL
        DEF ProgressSpec, ImplementsSheet, Sheet!Spec, OnSheet
=============================================================================
