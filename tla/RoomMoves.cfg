CONSTANTS
  s1 = s1  s2 = s2  u1 = u1
  r1 = r1  r2 = r2  r3 = r3
  town = town  field = field
  NoSession = NoSession
  NoRoom = NoRoom
  Sessions = {s1}
  Users = {u1}
  UserOf <- OneAccount
  Rooms = {r1, r2, r3}
  Maps = {town, field}
  MapOf <- MapsOfRooms
  MaxPlayers = 2
  MaxPackets = 4
  Packets = {"mapLoaded", "channel", "portal", "return"}
  Windows = {"overlap"}
SPECIFICATION FairSpec
INVARIANTS
  SavedOnceAfterLeaving
  OneCustodian
  NothingAfterSave
  DeparturesUnderway
PROPERTIES
  LeaverIsSaved
  ReturnAnswered
CHECK_DEADLOCK FALSE
