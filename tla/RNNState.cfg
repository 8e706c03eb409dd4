CONSTANTS
  SeqId = {s1, s2}
  reserved_num_seqs_ = 2
  max_history_ = 3
  Value = {v0, v1}
  init_layer_value_ = v0
  MaxBatch = 2
  MaxAppend = 2
  MaxLength = 3
  Restarts = FALSE
SYMMETRY Interchangeable
SPECIFICATION Spec
INVARIANTS
  TypeOK
  SlotsDisjoint
  BatchOnDevice
  IndInv
  GetReturnsState
PROPERTIES
  ImplementsStateHistory
