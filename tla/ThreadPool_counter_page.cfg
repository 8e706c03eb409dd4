CONSTANTS
  num_workers_ = 3
  big_count_ = 3
  little_count_ = 0
  Configs <- NoConfig
  MayFail = {}
  EarlyReturn = FALSE
  MaxBarriers = 1
  MaxLaunches = 2
SPECIFICATION Spec
INVARIANT CounterPagePerTask
