CONSTANTS
  s1 = s1  s2 = s2  u1 = u1
  r1 = r1  r2 = r2  r3 = r3
  town = town  field = field
  NoSession = NoSession
  NoRoom = NoRoom
  Sessions = {s1, s2}
  Users = {u1}
  UserOf <- OneAccount
  Rooms = {r1}
  Maps = {town, field}
  MapOf <- MapsOfRooms
  MaxPlayers = 2
  MaxPackets = 2
  Packets = {"mapLoaded", "return"}
  Windows = {}
SPECIFICATION Spec
INVARIANTS
  TypeOK
  OneSessionPerAccount
  RegistrationEnds
  HoldCoversSave
  LoadsAfterSave
  NoPlayerLeftBehind
  HoldsHaveReleasers
  EntriesUnderway
PROPERTY ImplementsLease
SYMMETRY Symmetry
CHECK_DEADLOCK FALSE
