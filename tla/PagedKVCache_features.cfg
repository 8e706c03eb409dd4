CONSTANTS
  SeqId = {s1, s2}
  Setups <- EveryFeature
  page_size_ = 2
  MaxAppend = 3
  Windows <- SmallWindows
  kTreeAttnMaxTreeSize = 3
  Uses = {}
  None = None
SYMMETRY SameIds
VIEW UpToRenaming
SPECIFICATION Spec
INVARIANTS
  TypeOK
  PagesPartitioned
  RefCountsExact
  LengthIsSumOfBlocks
  BlocksWellFormed
  
PROPERTIES
  ImplementsKVStore
