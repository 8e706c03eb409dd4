CONSTANTS
  SeqId = {s1, s2}
  Setups <- OnlyWindows
  page_size_ = 2
  MaxAppend = 3
  Windows <- SmallWindows
  kTreeAttnMaxTreeSize = 3
  Uses = {"pop_slid"}
  None = None
SYMMETRY SameIds
SPECIFICATION Spec
PROPERTIES
  ImplementsKVStore
