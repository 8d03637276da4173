\* Two workers and a DB thread, any mix of pushes and timers.
SPECIFICATION FairSpec
CONSTANTS
  Threads = {w1, w2, db}
  Workers = {w1, w2}
  room = room
  other = other
  Queues = {room, other}
  NoQueue = NoQueue
  j1 = j1
  j2 = j2
  j3 = j3
  j4 = j4
  Jobs = {j1, j2, j3, j4}
  OwnerOf <- MCOwnerOf
INVARIANTS
  OneExecutor
  WorkIsOwned
PROPERTIES
  ImplementsSerialQueue
  EveryJobRuns
\* All jobs may have run and no client sends another packet.
CHECK_DEADLOCK FALSE
