CONSTANTS
  num_workers_ = 3
  big_count_ = 4
  little_count_ = 0
  Configs <- ShrinkAndGrow
  MayFail = {0}
  EarlyReturn = FALSE
  MaxBarriers = 2
  MaxLaunches = 2
SPECIFICATION FairSpec
INVARIANTS
  TypeOK
  PendingIsOutstanding
  NoTaskOutlivesLaunch
  EachTaskOnce
  BarrierSeparates
PROPERTIES
  LaunchReturns
  ResetReturns
