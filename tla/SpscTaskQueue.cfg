CONSTANTS
  Task = {t1, t2}
  kRingSize = 2
SPECIFICATION FairSpec
INVARIANTS
  TypeOK
  PendingAccounting
  PopNeverEmpty
  NoSlotRace
  NoLostWakeup
  IndInv
PROPERTIES
  ImplementsFairFifo
  PushReturns
