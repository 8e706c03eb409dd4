CONSTANTS
  SeqId = {s1, s2, s3, s4}
  Setups <- OnlySharing
  page_size_ = 2
  MaxAppend = 2
  Windows <- NoWindows
  kTreeAttnMaxTreeSize = 3
  Uses = {}
  None = None
SYMMETRY SameIds
VIEW UpToRenaming
SPECIFICATION Spec
INVARIANTS
  RefCountsExact
  BlocksWellFormed
PROPERTIES
  ImplementsKVStore
