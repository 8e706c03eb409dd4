CONSTANTS
  num_workers_ = 2
  big_count_ = 2
  little_count_ = 0
  Configs <- NoConfig
  MayFail = {1}
  EarlyReturn = FALSE
  MaxBarriers = 0
  MaxLaunches = 1
SPECIFICATION Spec
INVARIANT ResultTellsFailure
