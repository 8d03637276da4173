CONSTANTS
  p1 = p1  p2 = p2  m1 = m1  m2 = m2  camp = camp
  NoPoint = NoPoint
  NoCell = NoCell
  NoTarget = NoTarget
  Players = {p1, p2}
  Monsters = {m1}
  Points = {camp}
  MaxCount <- CampHoldsOne
  Home <- CampInFirstCell
  Width = 3
  Height = 1
  ChaseCells = 1
  Windows = {}
SPECIFICATION FairSpec
INVARIANTS
  ClientsKnowNeighbours
  PopulationKept
  NoStaleAttack
PROPERTIES
  OnlyPresentTargets
  StrayRecovers
