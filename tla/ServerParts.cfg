CONSTANTS
  s1 = s1  s2 = s2  t1 = t1  t2 = t2
  c1 = c1  c2 = c2  r1 = r1  r2 = r2  q1 = q1  q2 = q2
  a1 = a1  a2 = a2  w1 = w1  w2 = w2  k1 = k1  k2 = k2  d1 = d1  d2 = d2
  coat = coat  hat = hat  elixir = elixir
  Sessions = {s1, s2}
  Workers = {t1, t2}
  MaxSessionCount = 2
  MaxSends = 3
  NoWorker = NoWorker
  NoSession = NoSession
  Clients = {c1, c2}
  Rooms = {r1, r2}
  Stores = {q1, q2}
  StoreOf <- StoreOfClient
  Rounds = 2
  MaxHops = 1
  NoClient = NoClient
  Accounts = {a1}
  Worlds = {w1, w2}
  Tickets = {k1}
  DBThreads = {d1, d2}
  NoAccount = NoAccount
  NoTicket = NoTicket
  NoWorld = NoWorld
  Gear = {coat, hat}
  Potions = {elixir}
  PartOf <- BothForTheBody
  HpBonus <- CoatGivesMore
  Needs <- CoatNeedsLevelTwo
  MaxStack = 2
  SlotCount = 2
  QuickSlots = {1, 2}
  BuyPrice = 2
  SellPrice = 1
  MaxLevel = 3
  LevelStart <- ThreeLevels
  ClassHp <- HpOfLevels
  Hits = {1, 3}
  Rewards = {11, 25}
  Bounties = {2}
  MaxGold = 2
  MaxUid = 3
  NoItem = NoItem
  NoRef = NoRef
SPECIFICATION Spec
INVARIANTS
  OneFarewell
  NoStuckSend
  KickSendsFirst
  NoLockCycle
  SavedAtExit
  TicketPassesOnce
  ItemsConserved
  SavedProgressLoads
PROPERTIES
  KickedConnectionEnds
  ImplementsSheet
CHECK_DEADLOCK FALSE
