SPECIFICATION Spec
CONSTANTS
  t1 = t1
  t2 = t2
  t3 = t3
  NoThread = NoThread
  Threads <- MCThreads
  MaxPush = 4
INVARIANT TypeOK
INVARIANT NoSharing
INVARIANT NoLeak
INVARIANT AnnouncedIsIntact
INVARIANT NeverAnotherMessage
INVARIANT NoNeedlessGrowth
SYMMETRY MCSymmetry
CHECK_DEADLOCK FALSE
