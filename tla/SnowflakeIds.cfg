\* Concurrent issue, clock steps, sequence overflow, crash and restart.
SPECIFICATION Spec
CONSTANTS
  worker = worker
  db = db
  other = other
  character = character
  item = item
  Nodes = {0, 1}
  Threads = {worker, db, other}
  NodeOf <- MCNodeOf
  Tables = {character, item}
  Times <- MCTimes
  Earlier <- MCEarlier
  MaxCalls = 3
INVARIANTS
  OwnNode
  AheadOfKeys
PROPERTIES
  IssuedIsNew
  IssuedInOrder
CHECK_DEADLOCK FALSE
