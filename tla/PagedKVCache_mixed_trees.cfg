CONSTANTS
  SeqId = {s1, s2}
  Setups <- OnlyTrees
  page_size_ = 2
  MaxAppend = 3
  Windows <- NoWindows
  kTreeAttnMaxTreeSize = 3
  Uses = {"mixed_trees"}
  None = None
SYMMETRY SameIds
SPECIFICATION Spec
PROPERTIES
  ImplementsKVStore
