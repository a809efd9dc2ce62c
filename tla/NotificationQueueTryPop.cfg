SPECIFICATION Spec
CONSTANTS
  owner = owner
  p1 = p1
  p2 = p2
  NoThread = NoThread
  Threads <- MCThreads
  Owner = owner
  MaxPush = 2
PROPERTY TryPopReadsIfAny
CHECK_DEADLOCK FALSE
