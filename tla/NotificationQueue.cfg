SPECIFICATION FairSpec
CONSTANTS
  owner = owner
  p1 = p1
  p2 = p2
  NoThread = NoThread
  Threads <- MCThreads
  Owner = owner
  MaxPush = 2
INVARIANT TypeOK
INVARIANT CreditAccounting
INVARIANT PopFindsItem
PROPERTY EmptyAnswerExcused
PROPERTY ImplementsChannel
PROPERTY EveryItemReceived
CHECK_DEADLOCK FALSE
