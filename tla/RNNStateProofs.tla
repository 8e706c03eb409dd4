--------------------------- MODULE RNNStateProofs ---------------------------
(* Proofs about the recurrent state store, for any number of slots and any ring. *)
EXTENDS RNNState, TLAPS

-----------------------------------------------------------------------------
\* A step forward and a step of k backward in the ring.
LEMMA RingStep ==
  ASSUME NEW h \in History, NEW k \in History
  PROVE  /\ (h + 1) % max_history_ = IF h + 1 < max_history_ THEN h + 1 ELSE 0
         /\ (h - k + max_history_) % max_history_ = IF h >= k THEN h - k ELSE h - k + max_history_
         /\ (h + 1) % max_history_ \in History
         /\ (h - k + max_history_) % max_history_ \in History
  BY ConfigAssumption DEF History

\* A pass and a rollback lead from sequences to sequences.
LEMMA SequenceSteps ==
  ASSUME NEW seq \in Sequence
  PROVE  /\ \A n \in 1 .. MaxAppend : Advanced(seq, n) \in Sequence
         /\ \A n \in 0 .. seq.available_history_num : RolledBack(seq, n) \in Sequence
         /\ \A slot \in Slot : Fork(seq, slot) \in Sequence
<1>1. /\ seq.seq_length \in Int /\ seq.available_history_num \in History
      /\ seq.history_slot_id \in History /\ seq.seq_slot_id \in Slot
  BY DEF Sequence
<1>2. ASSUME NEW n \in 1 .. MaxAppend
      PROVE  Advanced(seq, n) \in Sequence
  <2>1. (seq.history_slot_id + 1) % max_history_ \in History
    BY <1>1, RingStep, Zenon
  <2> QED
    BY <1>1, <2>1, ConfigAssumption DEF Advanced, Sequence, History
<1>3. ASSUME NEW n \in 0 .. seq.available_history_num
      PROVE  RolledBack(seq, n) \in Sequence
  <2>1. n \in History /\ seq.available_history_num - n \in History
    BY <1>1, ConfigAssumption DEF History
  <2>2. (seq.history_slot_id - n + max_history_) % max_history_ \in History
    BY <1>1, <2>1, RingStep, Zenon
  <2> QED
    BY <1>1, <2>1, <2>2 DEF RolledBack, Sequence
<1>4. ASSUME NEW slot \in Slot
      PROVE  Fork(seq, slot) \in Sequence
  BY <1>1 DEF Fork, Sequence
<1> QED
  BY <1>2, <1>3, <1>4

\* All slots are on the initial free list, each of them once.
LEMMA AllSlotsFree ==
  /\ AllSlots \in Seq(Slot)
  /\ \A i, j \in DOMAIN AllSlots : AllSlots[i] = AllSlots[j] => i = j
  BY ConfigAssumption DEF AllSlots, Slot

-----------------------------------------------------------------------------
(* The invariant *)

\* What a store without sequences starts from.
LEMMA InitIndInv == Init => IndInv
<1> SUFFICES ASSUME Init PROVE IndInv
  OBVIOUS
<1>1. DOMAIN seq_map_ = {}
  BY DEF Init
<1>2. TypeOK
  <2>1. seq_map_ \in [DOMAIN seq_map_ -> Sequence]
    BY <1>1 DEF Init
  <2>2. dirty_aux_data_device_ \in BOOLEAN
    BY Zenon DEF Init
  <2> QED
    BY <1>1, <2>1, <2>2, AllSlotsFree DEF Init, TypeOK
<1>3. SlotsDisjoint
  BY <1>1, AllSlotsFree DEF Init, SlotsDisjoint
<1>4. pass = "none"
  BY DEF Init
<1> QED
  BY <1>1, <1>2, <1>3, <1>4 DEF IndInv

\* The last free slot is a slot of no sequence, and the others stay free once.
LEMMA TakeFreeSlot ==
  ASSUME TypeOK, SlotsDisjoint, free_slot_ids_ # << >>
  PROVE  /\ FreeSlot \in Slot
         /\ OtherFreeSlots \in Seq(Slot)
         /\ \A i, j \in DOMAIN OtherFreeSlots : OtherFreeSlots[i] = OtherFreeSlots[j] => i = j
         /\ \A i \in DOMAIN OtherFreeSlots : /\ i \in DOMAIN free_slot_ids_
                                             /\ OtherFreeSlots[i] = free_slot_ids_[i]
                                             /\ OtherFreeSlots[i] # FreeSlot
         /\ \A s \in DOMAIN seq_map_ : seq_map_[s].seq_slot_id # FreeSlot
<1> DEFINE n == Len(free_slot_ids_)
<1>1. n \in Nat \ {0} /\ DOMAIN free_slot_ids_ = 1 .. n
  BY DEF TypeOK
<1>2. /\ DOMAIN OtherFreeSlots = 1 .. n - 1
      /\ \A i \in 1 .. n - 1 : OtherFreeSlots[i] = free_slot_ids_[i]
      /\ OtherFreeSlots \in Seq(Slot)
  BY <1>1 DEF TypeOK, OtherFreeSlots
<1>3. FreeSlot = free_slot_ids_[n] /\ n \in DOMAIN free_slot_ids_
  BY <1>1 DEF FreeSlot
<1>4. FreeSlot \in Slot
  BY <1>1, <1>3 DEF TypeOK
<1> HIDE DEF n
<1>5. \A i \in 1 .. n - 1 : i \in DOMAIN free_slot_ids_ /\ i # n
  BY <1>1
<1> QED
  BY <1>1, <1>2, <1>3, <1>4, <1>5 DEF SlotsDisjoint

\* A sequence on the last free slot keeps types and slots apart, whatever states
\* the slot is given.
LEMMA NewOnFreeSlot ==
  ASSUME IndInv, pass = "none", free_slot_ids_ # << >>,
         NEW s \in SeqId, s \notin DOMAIN seq_map_,
         NEW seq \in Sequence, seq.seq_slot_id = FreeSlot,
         NEW ring \in [History -> Value],
         free_slot_ids_' = OtherFreeSlots,
         seq_map_' = With(seq_map_, s, seq),
         storages_' = [storages_ EXCEPT ![FreeSlot] = ring],
         dirty_aux_data_device_' = TRUE,
         UNCHANGED aux
  PROVE  IndInv'
<1> USE DEF IndInv
<1>1. TypeOK /\ SlotsDisjoint
  OBVIOUS
<1>2. /\ DOMAIN seq_map_' = DOMAIN seq_map_ \cup {s}
      /\ seq_map_'[s] = seq
      /\ \A x \in DOMAIN seq_map_ : x # s /\ seq_map_'[x] = seq_map_[x]
  BY DEF With
<1>3. pass' = "none"
  BY DEF aux
<1>4. TypeOK'
  <2>1. seq_map_' \in [DOMAIN seq_map_' -> Sequence]
    BY <1>1, <1>2 DEF TypeOK, With
  <2>2. storages_' \in [Slot -> [History -> Value]]
    BY <1>1, Zenon DEF TypeOK
  <2>3. dirty_aux_data_device_' \in BOOLEAN
    BY Zenon
  <2> QED
    BY <1>1, <1>2, <1>3, <2>1, <2>2, <2>3, TakeFreeSlot DEF TypeOK
<1>5. SlotsDisjoint'
  <2>1. \A i, j \in DOMAIN free_slot_ids_' : free_slot_ids_'[i] = free_slot_ids_'[j] => i = j
    BY <1>1, TakeFreeSlot
  <2>2. \A x \in DOMAIN seq_map_', i \in DOMAIN free_slot_ids_' :
          seq_map_'[x].seq_slot_id # free_slot_ids_'[i]
    BY <1>1, <1>2, TakeFreeSlot DEF SlotsDisjoint
  <2>3. \A x, y \in DOMAIN seq_map_' :
          seq_map_'[x].seq_slot_id = seq_map_'[y].seq_slot_id => x = y
    BY <1>1, <1>2, TakeFreeSlot DEF SlotsDisjoint
  <2> QED
    BY <2>1, <2>2, <2>3 DEF SlotsDisjoint
<1> QED
  BY <1>3, <1>4, <1>5

\* Giving sequences other lengths and history slots, but not other slots of the
\* storage, keeps types and slots apart.
LEMMA SameSlots ==
  ASSUME TypeOK, SlotsDisjoint,
         seq_map_' \in [DOMAIN seq_map_ -> Sequence],
         \A s \in DOMAIN seq_map_ : seq_map_'[s].seq_slot_id = seq_map_[s].seq_slot_id,
         free_slot_ids_' = free_slot_ids_,
         storages_' = storages_,
         dirty_aux_data_device_' = TRUE,
         pass' = "none"
  PROVE  IndInv'
<1>1. DOMAIN seq_map_' = DOMAIN seq_map_
  OBVIOUS
<1>2. dirty_aux_data_device_' \in BOOLEAN
  BY Zenon
<1>3. TypeOK'
  BY <1>1, <1>2 DEF TypeOK
<1>4. SlotsDisjoint'
  BY <1>1 DEF SlotsDisjoint
<1> QED
  BY <1>3, <1>4 DEF IndInv

\* Every step preserves the invariant, when every pass ends with EndForward.
LEMMA NextIndInv ==
  ASSUME ~Restarts
  PROVE  IndInv /\ [Next]_vars => IndInv'
<1> SUFFICES ASSUME IndInv, [Next]_vars PROVE IndInv'
  OBVIOUS
<1>0. TypeOK /\ SlotsDisjoint
  BY DEF IndInv
<1>t. /\ seq_map_ \in [DOMAIN seq_map_ -> Sequence] /\ DOMAIN seq_map_ \subseteq SeqId
      /\ free_slot_ids_ \in Seq(Slot)
      /\ storages_ \in [Slot -> [History -> Value]]
  BY <1>0 DEF TypeOK
<1>1. CASE Clear
  <2>1. DOMAIN seq_map_' = {} /\ pass' = "none"
    BY <1>1 DEF Clear, aux
  <2>2. TypeOK'
    <3>1. dirty_aux_data_device_' \in BOOLEAN
      BY <1>1, Zenon DEF Clear
    <3>2. seq_map_' \in [DOMAIN seq_map_' -> Sequence]
      BY <1>1, <2>1 DEF Clear
    <3> QED
      BY <1>1, <1>t, <2>1, <3>1, <3>2, AllSlotsFree DEF Clear, TypeOK
  <2>3. SlotsDisjoint'
    BY <1>1, <2>1, AllSlotsFree DEF Clear, SlotsDisjoint
  <2> QED
    BY <2>1, <2>2, <2>3 DEF IndInv
<1>2. ASSUME NEW s \in SeqId, AddSequence(s)
      PROVE  IndInv'
  <2>1. FreeSlot \in Slot
    BY <1>0, <1>2, TakeFreeSlot DEF AddSequence
  <2>2. NewSequence(FreeSlot) \in Sequence /\ NewSequence(FreeSlot).seq_slot_id = FreeSlot
    BY <2>1, ConfigAssumption DEF NewSequence, Sequence, History
  <2>3. [storages_[FreeSlot] EXCEPT ![0] = init_layer_value_] \in [History -> Value]
    BY <1>t, <2>1, ConfigAssumption, Zenon
  <2> QED
    BY <1>2, <2>1, <2>2, <2>3, NewOnFreeSlot, Zenon DEF AddSequence
<1>3. ASSUME NEW s \in SeqId, RemoveSequence(s)
      PROVE  IndInv'
  <2> DEFINE slot == seq_map_[s].seq_slot_id
             n == Len(free_slot_ids_)
  <2>1. /\ DOMAIN seq_map_' = DOMAIN seq_map_ \ {s}
        /\ \A x \in DOMAIN seq_map_' : seq_map_'[x] = seq_map_[x]
        /\ pass' = "none"
    BY <1>3 DEF RemoveSequence, Without, aux
  <2>2. slot \in Slot
    BY <1>3, <1>t DEF RemoveSequence, Sequence
  <2>3. /\ free_slot_ids_' \in Seq(Slot) /\ n \in Nat
        /\ DOMAIN free_slot_ids_ = 1 .. n /\ DOMAIN free_slot_ids_' = 1 .. n + 1
        /\ free_slot_ids_'[n + 1] = slot
        /\ \A i \in 1 .. n : free_slot_ids_'[i] = free_slot_ids_[i]
    BY <1>3, <1>t, <2>2 DEF RemoveSequence
  <2>4. TypeOK'
    <3>1. dirty_aux_data_device_' \in BOOLEAN
      BY <1>3, Zenon DEF RemoveSequence
    <3>2. seq_map_' \in [DOMAIN seq_map_' -> Sequence]
      BY <1>3, <1>t, <2>1 DEF RemoveSequence, Without
    <3> QED
      BY <1>3, <1>t, <2>1, <2>3, <3>1, <3>2 DEF RemoveSequence, TypeOK
  <2> HIDE DEF slot, n
  <2>5. \A i \in 1 .. n + 1 : i \in 1 .. n \/ i = n + 1
    BY <2>3
  <2>6. s \in DOMAIN seq_map_ /\ slot = seq_map_[s].seq_slot_id
    BY <1>3 DEF RemoveSequence, slot
  <2>7. SlotsDisjoint'
    BY <1>0, <2>1, <2>3, <2>5, <2>6 DEF SlotsDisjoint
  <2> QED
    BY <1>3, <2>1, <2>4, <2>7 DEF IndInv, RemoveSequence
<1>4. ASSUME NEW p \in SeqId, NEW s \in SeqId, ForkSequence(p, s)
      PROVE  IndInv'
  <2>1. FreeSlot \in Slot
    BY <1>0, <1>4, TakeFreeSlot DEF ForkSequence
  <2>2. Fork(seq_map_[p], FreeSlot) \in Sequence
    BY <1>4, <1>t, <2>1, SequenceSteps DEF ForkSequence
  <2>3. Fork(seq_map_[p], FreeSlot).seq_slot_id = FreeSlot
    BY <1>4, <1>t DEF ForkSequence, Fork, Sequence
  <2>4. storages_[seq_map_[p].seq_slot_id] \in [History -> Value]
    BY <1>4, <1>t DEF ForkSequence, Sequence
  <2> QED
    BY <1>4, <2>1, <2>2, <2>3, <2>4, NewOnFreeSlot, Zenon DEF ForkSequence
<1>5. ASSUME NEW s \in SeqId, NEW n \in History, PopN(s, n)
      PROVE  IndInv'
  <2>1. seq_map_[s] \in Sequence /\ n \in 0 .. seq_map_[s].available_history_num
    BY <1>5, <1>t DEF PopN, Sequence, History
  <2>2. RolledBack(seq_map_[s], n) \in Sequence
    BY <2>1, SequenceSteps
  <2>3. RolledBack(seq_map_[s], n).seq_slot_id = seq_map_[s].seq_slot_id
    BY DEF RolledBack
  <2>4. /\ seq_map_' \in [DOMAIN seq_map_ -> Sequence]
        /\ \A x \in DOMAIN seq_map_ : seq_map_'[x].seq_slot_id = seq_map_[x].seq_slot_id
    BY <1>5, <1>t, <2>2, <2>3 DEF PopN
  <2> QED
    BY <1>0, <1>5, <2>4, SameSlots DEF PopN, aux
<1>6. ASSUME NEW size \in 1 .. MaxBatch, NEW ids \in [1 .. size -> SeqId], IsBatch(ids),
             NEW lengths \in [1 .. size -> 1 .. MaxAppend], BeginForward(ids, lengths)
      PROVE  IndInv'
  <2>1. pass = "none" /\ size >= 1
    BY <1>6, ConfigAssumption DEF BeginForward
  <2>2. DOMAIN seq_map_ # {}
    BY <1>6, <2>1 DEF IsBatch
  <2>3. dirty_aux_data_device_
    BY <2>1, <2>2 DEF IndInv
  <2>4. /\ seq_map_' = seq_map_ /\ free_slot_ids_' = free_slot_ids_ /\ storages_' = storages_
        /\ cur_seq_ids_' = ids /\ cur_append_lengths_' = lengths
        /\ seq_slot_ids_view_' = [i \in DOMAIN ids |-> seq_map_[ids[i]].seq_slot_id]
        /\ history_slot_ids_view_' = [i \in DOMAIN ids |-> seq_map_[ids[i]].history_slot_id]
        /\ pass' = "begun"
    BY <1>6, <2>3 DEF BeginForward, SyncAuxArrayToDevice
  <2>5. dirty_aux_data_device_' = FALSE
    BY <1>6, <2>3, Zenon DEF BeginForward, SyncAuxArrayToDevice
  <2>6. TypeOK' /\ SlotsDisjoint' /\ IsBatch(cur_seq_ids_)'
    <3>1. dirty_aux_data_device_' \in BOOLEAN
      BY <2>5, Zenon
    <3> QED
      BY <1>0, <1>6, <2>4, <3>1 DEF TypeOK, SlotsDisjoint, IsBatch
  <2>7. ~dirty_aux_data_device_'
    BY <2>5, Zenon
  <2> QED
    BY <2>4, <2>6, <2>7 DEF IndInv
<1>7. ASSUME NEW data \in [DOMAIN cur_seq_ids_ -> Value], Set(data)
      PROVE  IndInv'
  <2>1. storages_' \in [Slot -> [History -> Value]]
    BY <1>7, <1>t DEF Set
  <2>2. TypeOK' /\ SlotsDisjoint'
    BY <1>0, <1>7, <2>1 DEF Set, TypeOK, SlotsDisjoint
  <2> QED
    BY <1>7, <2>2 DEF Set, IndInv, IsBatch
<1>8. CASE EndForward
  <2>1. ASSUME NEW s \in DOMAIN seq_map_, Contains(cur_seq_ids_, s)
        PROVE  cur_append_lengths_[IndexOf(cur_seq_ids_, s)] \in 1 .. MaxAppend
    <3>1. IndexOf(cur_seq_ids_, s) \in DOMAIN cur_seq_ids_
      BY <2>1 DEF Contains, IndexOf
    <3> QED
      BY <1>8, <3>1 DEF EndForward, IndInv
  <2>2. ASSUME NEW s \in DOMAIN seq_map_
        PROVE  /\ AdvancedBatch[s] \in Sequence
               /\ AdvancedBatch[s].seq_slot_id = seq_map_[s].seq_slot_id
    <3>1. seq_map_[s] \in Sequence
      BY <1>t
    <3>2. CASE Contains(cur_seq_ids_, s)
      <4>1. AdvancedBatch[s] = Advanced(seq_map_[s], cur_append_lengths_[IndexOf(cur_seq_ids_, s)])
        BY <3>2 DEF AdvancedBatch
      <4>2. AdvancedBatch[s] \in Sequence
        BY <2>1, <3>1, <3>2, <4>1, SequenceSteps
      <4>3. AdvancedBatch[s].seq_slot_id = seq_map_[s].seq_slot_id
        BY <4>1 DEF Advanced
      <4> QED
        BY <4>2, <4>3
    <3>3. CASE ~Contains(cur_seq_ids_, s)
      BY <3>1, <3>3 DEF AdvancedBatch
    <3> QED
      BY <3>2, <3>3
  <2>3. AdvancedBatch \in [DOMAIN seq_map_ -> Sequence]
    <3>1. AdvancedBatch = [s \in DOMAIN seq_map_ |-> AdvancedBatch[s]]
      BY DEF AdvancedBatch
    <3> QED
      BY <2>2, <3>1
  <2> QED
    BY <1>0, <1>8, <2>2, <2>3, SameSlots DEF EndForward
<1>9. ASSUME NEW ids, NEW lengths, BeginForwardRefused(ids, lengths)
      PROVE  IndInv'
  BY <1>9 DEF BeginForwardRefused, IndInv, TypeOK, SlotsDisjoint
<1>10. CASE UNCHANGED vars
  BY <1>10 DEF vars, aux, IndInv, TypeOK, SlotsDisjoint, IsBatch
<1> QED
  BY <1>1, <1>2, <1>3, <1>4, <1>5, <1>6, <1>7, <1>8, <1>9, <1>10 DEF Next

-----------------------------------------------------------------------------
(* Theorems *)

\* When every pass ends with EndForward, the invariant holds in every state.
THEOREM StoreInvariant ==
  ASSUME ~Restarts
  PROVE  Spec => []IndInv
  BY InitIndInv, NextIndInv, PTL DEF Spec

\* Any sequence of calls keeps the store well typed; in particular the history
\* PopN may roll back over never exceeds the ring, whatever its size.
THEOREM StoreTypes ==
  ASSUME ~Restarts
  PROVE  Spec => []TypeOK
<1>1. IndInv => TypeOK
  BY DEF IndInv
<1> QED
  BY <1>1, StoreInvariant, PTL

\* AddSequence, ForkSequence and RemoveSequence never give two sequences one slot,
\* nor leave the slot of a sequence on the free list, for any number of slots.
THEOREM StoreSlotsDisjoint ==
  ASSUME ~Restarts
  PROVE  Spec => []SlotsDisjoint
<1>1. IndInv => SlotsDisjoint
  BY DEF IndInv
<1> QED
  BY <1>1, StoreInvariant, PTL

\* When every pass ends with EndForward, the slots that Get and Set use are those of
\* the batch given to BeginForward, although the copy is skipped if nothing is dirty.
THEOREM StoreBatchOnDevice ==
  ASSUME ~Restarts
  PROVE  Spec => []BatchOnDevice
<1>1. IndInv => BatchOnDevice
  BY DEF IndInv, BatchOnDevice
<1> QED
  BY <1>1, StoreInvariant, PTL

\* What Get reads through the arrays on the device is the newest state of each
\* sequence of the batch, for any size of the ring and number of slots.
THEOREM StoreGetReturnsState ==
  ASSUME ~Restarts
  PROVE  Spec => []GetReturnsState
<1>1. ASSUME IndInv PROVE GetReturnsState
  <2> SUFFICES ASSUME pass = "begun", NEW i \in DOMAIN cur_seq_ids_
               PROVE  GetResult(i) = Back[cur_seq_ids_[i]][0]
    BY DEF GetReturnsState
  <2> DEFINE seq == seq_map_[cur_seq_ids_[i]]
  <2>1. /\ cur_seq_ids_[i] \in DOMAIN seq_map_ /\ seq \in Sequence
        /\ seq_slot_ids_view_[i] = seq.seq_slot_id
        /\ history_slot_ids_view_[i] = seq.history_slot_id
    BY <1>1 DEF IndInv, TypeOK, IsBatch
  <2>2. seq.history_slot_id \in History /\ seq.available_history_num \in History
    BY <2>1 DEF Sequence
  <2>3. 0 \in History /\ 0 \in 0 .. seq.available_history_num
    BY <2>2, ConfigAssumption DEF History
  <2>4. (seq.history_slot_id - 0 + max_history_) % max_history_ = seq.history_slot_id
    BY <2>2, <2>3, RingStep DEF History
  <2>5. Back[cur_seq_ids_[i]][0] = StateBefore(seq, 0)
    BY <2>1, <2>3 DEF Back, Effective
  <2> QED
    BY <2>1, <2>4, <2>5 DEF GetResult, StateBefore
<1> QED
  BY <1>1, StoreInvariant, PTL

-----------------------------------------------------------------------------
(* The rings implement the histories they stand for *)

\* Two rollbacks are one.
LEMMA RollbackTwice ==
  ASSUME NEW h \in History, NEW n \in History, NEW k \in History, k + n \in History
  PROVE  (((h - n + max_history_) % max_history_) - k + max_history_) % max_history_
            = (h - (k + n) + max_history_) % max_history_
<1> DEFINE once == (h - n + max_history_) % max_history_
           twice == (once - k + max_history_) % max_history_
           both == (h - (k + n) + max_history_) % max_history_
<1>0. /\ max_history_ \in Nat \ {0} /\ h \in 0 .. max_history_ - 1 /\ k \in 0 .. max_history_ - 1
      /\ n \in 0 .. max_history_ - 1 /\ k + n <= max_history_ - 1
  BY ConfigAssumption DEF History
<1>1. once \in History /\ once = IF h >= n THEN h - n ELSE h - n + max_history_
  BY RingStep
<1>2. both = IF h >= k + n THEN h - (k + n) ELSE h - (k + n) + max_history_
  BY RingStep, Zenon
<1> HIDE DEF once, both
<1>3. twice = IF once >= k THEN once - k ELSE once - k + max_history_
  BY <1>1, RingStep
<1> HIDE DEF twice
<1>4. once \in Int
  BY <1>1 DEF History
<1>5. twice = both
  BY <1>0, <1>1, <1>2, <1>3, <1>4
<1> QED
  BY <1>5 DEF once, twice, both

\* A step forward is undone by the first step backward.
LEMMA RingLaws ==
  ASSUME NEW h \in History, NEW k \in History
  PROVE  /\ k = 0 => (((h + 1) % max_history_) - k + max_history_) % max_history_
                        = (h + 1) % max_history_
         /\ k # 0 => (((h + 1) % max_history_) - k + max_history_) % max_history_
                        = (h - (k - 1) + max_history_) % max_history_
         /\ k # 0 => (h - (k - 1) + max_history_) % max_history_ # (h + 1) % max_history_
<1>0. max_history_ \in Nat \ {0} /\ h \in 0 .. max_history_ - 1 /\ k \in 0 .. max_history_ - 1
  BY ConfigAssumption DEF History
<1> DEFINE up == (h + 1) % max_history_
           back == (up - k + max_history_) % max_history_
           older == (h - (k - 1) + max_history_) % max_history_
<1>2. up \in History /\ up = IF h + 1 < max_history_ THEN h + 1 ELSE 0
  BY RingStep, Zenon
<1>3. k # 0 => older = IF h >= k - 1 THEN h - (k - 1) ELSE h - (k - 1) + max_history_
  <2>1. k # 0 => k - 1 \in History
    BY <1>0 DEF History
  <2> QED
    BY <2>1, RingStep, Zenon
<1> HIDE DEF up, older
<1>4. back = IF up >= k THEN up - k ELSE up - k + max_history_
  BY <1>2, RingStep, Zenon
<1> HIDE DEF back
<1>5. up \in 0 .. max_history_ - 1
  BY <1>2 DEF History
<1>6. /\ k = 0 => back = up
      /\ k # 0 => back = older
      /\ k # 0 => older # up
  BY <1>0, <1>2, <1>3, <1>4, <1>5
<1> QED
  BY <1>6 DEF up, back, older

\* Outside a pass that has written its states, the histories are those of seq_map_.
LEMMA HistoriesOfMap ==
  pass # "written" =>
    /\ Back = [s \in DOMAIN seq_map_ |->
                 [k \in 0 .. seq_map_[s].available_history_num |-> StateBefore(seq_map_[s], k)]]
    /\ Length = [s \in DOMAIN seq_map_ |-> seq_map_[s].seq_length]
  BY DEF Back, Length, Effective

\* How far a sequence can be rolled back is the history it has.
LEMMA AvailableHistory ==
  ASSUME IndInv, pass # "written", NEW s \in DOMAIN seq_map_
  PROVE  SH!Available(s) = seq_map_[s].available_history_num
<1>1. seq_map_[s].available_history_num \in 0 .. max_history_ - 1
  BY DEF IndInv, TypeOK, Sequence, History
<1>2. DOMAIN Back[s] = 0 .. seq_map_[s].available_history_num
  BY HistoriesOfMap
<1>3. \A n \in 0 .. max_history_ - 1 :
        0 .. seq_map_[s].available_history_num = 0 .. n => n = seq_map_[s].available_history_num
  BY <1>1, ConfigAssumption
<1> QED
  BY <1>1, <1>2, <1>3 DEF SH!Available

\* A sequence put on the last free slot leaves the histories of all others alone.
LEMMA NewHistory ==
  ASSUME IndInv, pass = "none", free_slot_ids_ # << >>,
         NEW s \in SeqId, s \notin DOMAIN seq_map_,
         NEW seq \in Sequence, seq.seq_slot_id = FreeSlot,
         NEW ring \in [History -> Value],
         seq_map_' = With(seq_map_, s, seq),
         storages_' = [storages_ EXCEPT ![FreeSlot] = ring],
         UNCHANGED aux
  PROVE  /\ Back' = SH!With(Back, s,
                      [k \in 0 .. seq.available_history_num |->
                         ring[(seq.history_slot_id - k + max_history_) % max_history_]])
         /\ Length' = SH!With(Length, s, seq.seq_length)
<1>0. TypeOK /\ SlotsDisjoint
  BY DEF IndInv
<1>1. /\ DOMAIN seq_map_' = DOMAIN seq_map_ \cup {s}
      /\ seq_map_'[s] = seq
      /\ \A x \in DOMAIN seq_map_ : x # s /\ seq_map_'[x] = seq_map_[x]
  BY DEF With
<1>2. pass' # "written" /\ pass # "written"
  BY DEF aux
<1>3. /\ FreeSlot \in Slot
      /\ \A x \in DOMAIN seq_map_ : seq_map_[x].seq_slot_id # FreeSlot
  BY <1>0, TakeFreeSlot
<1>4. /\ storages_'[FreeSlot] = ring
      /\ \A x \in DOMAIN seq_map_ : storages_'[seq_map_[x].seq_slot_id] = storages_[seq_map_[x].seq_slot_id]
  BY <1>0, <1>3 DEF TypeOK, Sequence
<1>5. /\ Back' = [x \in DOMAIN seq_map_' |->
                    [k \in 0 .. seq_map_'[x].available_history_num |->
                       storages_'[seq_map_'[x].seq_slot_id]
                         [(seq_map_'[x].history_slot_id - k + max_history_) % max_history_]]]
      /\ Length' = [x \in DOMAIN seq_map_' |-> seq_map_'[x].seq_length]
  BY <1>2 DEF Back, Length, Effective, StateBefore
<1>6. /\ Back = [x \in DOMAIN seq_map_ |->
                    [k \in 0 .. seq_map_[x].available_history_num |->
                       storages_[seq_map_[x].seq_slot_id]
                         [(seq_map_[x].history_slot_id - k + max_history_) % max_history_]]]
      /\ Length = [x \in DOMAIN seq_map_ |-> seq_map_[x].seq_length]
  BY <1>2 DEF Back, Length, Effective, StateBefore
<1> DEFINE new == [k \in 0 .. seq.available_history_num |->
                     ring[(seq.history_slot_id - k + max_history_) % max_history_]]
<1>7. /\ DOMAIN Back' = DOMAIN Back \cup {s} /\ DOMAIN Length' = DOMAIN Length \cup {s}
      /\ DOMAIN Back = DOMAIN seq_map_ /\ DOMAIN Length = DOMAIN seq_map_
  BY <1>1, <1>5, <1>6
<1>8. Back'[s] = new /\ Length'[s] = seq.seq_length
  BY <1>1, <1>4, <1>5
<1>9. ASSUME NEW x \in DOMAIN seq_map_
      PROVE  Back'[x] = Back[x] /\ Length'[x] = Length[x]
  BY <1>1, <1>4, <1>5, <1>6
<1>10. Back' = [x \in DOMAIN Back' |-> Back'[x]] /\ Length' = [x \in DOMAIN Length' |-> Length'[x]]
  BY <1>5
<1> HIDE DEF new
<1>11. Back' = SH!With(Back, s, new) /\ Length' = SH!With(Length, s, seq.seq_length)
  BY <1>1, <1>7, <1>8, <1>9, <1>10 DEF SH!With
<1> QED
  BY <1>11 DEF new

\* The calls on one sequence between passes have their promised effect.
LEMMA CallsImplement ==
  ASSUME IndInv, NEW s \in SeqId
  PROVE  /\ AddSequence(s) => SH!Next
         /\ RemoveSequence(s) => SH!Next
         /\ \A p \in SeqId : ForkSequence(p, s) => SH!Next
         /\ \A n \in History : PopN(s, n) => SH!Next
<1>0. TypeOK /\ SlotsDisjoint /\ SH!Active = DOMAIN seq_map_
  BY DEF IndInv, SH!Active, Back
<1>t. /\ seq_map_ \in [DOMAIN seq_map_ -> Sequence] /\ DOMAIN seq_map_ \subseteq SeqId
      /\ storages_ \in [Slot -> [History -> Value]]
  BY <1>0 DEF TypeOK
<1>2. ASSUME AddSequence(s)
      PROVE  SH!Next
  <2>1. FreeSlot \in Slot
    BY <1>0, <1>2, TakeFreeSlot DEF AddSequence
  <2> DEFINE seq == NewSequence(FreeSlot)
             ring == [storages_[FreeSlot] EXCEPT ![0] = init_layer_value_]
             new == [k \in 0 .. seq.available_history_num |->
                       ring[(seq.history_slot_id - k + max_history_) % max_history_]]
  <2>2. seq \in Sequence /\ seq.seq_slot_id = FreeSlot
    BY <2>1, ConfigAssumption DEF NewSequence, Sequence, History
  <2>3. ring \in [History -> Value]
    BY <1>t, <2>1, ConfigAssumption, Zenon
  <2>4. Back' = SH!With(Back, s, new) /\ Length' = SH!With(Length, s, seq.seq_length)
    BY <1>2, <2>2, <2>3, NewHistory, Zenon DEF AddSequence
  <2>5. new = [k \in 0 .. 0 |-> init_layer_value_] /\ seq.seq_length = 0
    <3>1. 0 \in History /\ ring[0] = init_layer_value_
      BY <1>t, <2>1, ConfigAssumption DEF History
    <3>2. (0 - 0 + max_history_) % max_history_ = 0
      BY <3>1, RingStep, ConfigAssumption DEF History
    <3> QED
      BY <3>1, <3>2 DEF NewSequence
  <2>6. SH!AddSequence(s)
    BY <2>4, <2>5, Zenon DEF SH!AddSequence
  <2> QED
    BY <1>0, <1>2, <2>6 DEF SH!Next, AddSequence
<1>3. ASSUME RemoveSequence(s)
      PROVE  SH!Next
  <2>1. pass # "written" /\ pass' # "written"
    BY <1>3 DEF RemoveSequence, aux
  <2>2. Back' = SH!Without(Back, s) /\ Length' = SH!Without(Length, s)
    BY <1>3, <2>1 DEF RemoveSequence, Without, SH!Without, Back, Length, Effective, StateBefore
  <2> QED
    BY <1>0, <1>3, <2>2 DEF SH!Next, SH!RemoveSequence, RemoveSequence
<1>4. ASSUME NEW p \in SeqId, ForkSequence(p, s)
      PROVE  SH!Next
  <2>1. FreeSlot \in Slot /\ p \in DOMAIN seq_map_ /\ pass # "written"
    BY <1>0, <1>4, TakeFreeSlot DEF ForkSequence
  <2> DEFINE seq == Fork(seq_map_[p], FreeSlot)
             ring == storages_[seq_map_[p].seq_slot_id]
             new == [k \in 0 .. seq.available_history_num |->
                       ring[(seq.history_slot_id - k + max_history_) % max_history_]]
  <2>2. seq \in Sequence
    BY <1>t, <2>1, SequenceSteps
  <2>3. /\ seq.seq_slot_id = FreeSlot
        /\ seq.seq_length = seq_map_[p].seq_length
        /\ seq.available_history_num = seq_map_[p].available_history_num
        /\ seq.history_slot_id = seq_map_[p].history_slot_id
    BY <1>t, <2>1 DEF Fork, Sequence
  <2>4. ring \in [History -> Value]
    BY <1>t, <2>1 DEF Sequence
  <2>5. Back' = SH!With(Back, s, new) /\ Length' = SH!With(Length, s, seq.seq_length)
    BY <1>4, <2>2, <2>3, <2>4, NewHistory, Zenon DEF ForkSequence
  <2>6. Back[p] = new /\ Length[p] = seq.seq_length
    BY <2>1, <2>3, HistoriesOfMap DEF StateBefore
  <2>7. SH!ForkSequence(p, s)
    BY <2>5, <2>6 DEF SH!ForkSequence
  <2> QED
    BY <1>0, <1>4, <2>1, <2>7 DEF SH!Next, ForkSequence
<1>5. ASSUME NEW n \in History, PopN(s, n)
      PROVE  SH!Next
  <2> DEFINE seq == seq_map_[s]
             shorter == RolledBack(seq, n)
  <2>1. s \in DOMAIN seq_map_ /\ pass # "written" /\ pass' # "written" /\ seq \in Sequence
    BY <1>5, <1>t DEF PopN, aux
  <2>2. /\ seq.available_history_num \in History /\ seq.history_slot_id \in History
        /\ n <= seq.available_history_num
    BY <1>5, <2>1 DEF PopN, Sequence
  <2>3. SH!Available(s) = seq.available_history_num
    BY <2>1, AvailableHistory
  <2>4. ASSUME NEW k \in 0 .. seq.available_history_num - n
        PROVE  StateBefore(shorter, k) = Back[s][k + n]
    <3>1. k \in History /\ k + n \in History /\ k + n \in 0 .. seq.available_history_num
      BY <2>2, ConfigAssumption DEF History
    <3>2. \A j \in 0 .. seq.available_history_num :
            Back[s][j] = storages_[seq.seq_slot_id]
                           [(seq.history_slot_id - j + max_history_) % max_history_]
      <4>1. Back[s] = [j \in 0 .. seq.available_history_num |->
                         storages_[seq.seq_slot_id]
                           [(seq.history_slot_id - j + max_history_) % max_history_]]
        BY <2>1, HistoriesOfMap DEF StateBefore
      <4> QED
        BY <4>1, Zenon
    <3>3. ((shorter.history_slot_id - k + max_history_) % max_history_)
            = (seq.history_slot_id - (k + n) + max_history_) % max_history_
      <4>1. shorter.history_slot_id = (seq.history_slot_id - n + max_history_) % max_history_
        BY DEF RolledBack
      <4> DEFINE h == seq.history_slot_id
      <4>h. h \in History
        BY <2>2
      <4> HIDE DEF h, seq, shorter
      <4>2. (((h - n + max_history_) % max_history_) - k + max_history_) % max_history_
              = (h - (k + n) + max_history_) % max_history_
        BY <3>1, <4>h, RollbackTwice
      <4> USE DEF h
      <4> QED
        BY <4>1, <4>2
    <3>4. shorter.seq_slot_id = seq.seq_slot_id
      BY DEF RolledBack
    <3> QED
      BY <3>1, <3>2, <3>3, <3>4 DEF StateBefore
  <2>5. /\ seq_map_' = [seq_map_ EXCEPT ![s] = shorter] /\ storages_' = storages_
        /\ DOMAIN seq_map_' = DOMAIN seq_map_
        /\ seq_map_'[s] = shorter
        /\ \A x \in DOMAIN seq_map_ : x # s => seq_map_'[x] = seq_map_[x]
    BY <1>5, <2>1 DEF PopN
  <2>6. shorter.available_history_num = seq.available_history_num - n
        /\ shorter.seq_length = seq.seq_length - n
    BY DEF RolledBack
  <2> HIDE DEF shorter
  <2>7. /\ Back' = [x \in DOMAIN seq_map_ |->
                     [k \in 0 .. seq_map_'[x].available_history_num |-> StateBefore(seq_map_'[x], k)]]
        /\ Length' = [x \in DOMAIN seq_map_ |-> seq_map_'[x].seq_length]
    BY <2>1, <2>5 DEF Back, Length, Effective, StateBefore
  <2>8. Back' = [Back EXCEPT ![s] = [k \in 0 .. seq.available_history_num - n |-> Back[s][k + n]]]
    <3>1. DOMAIN Back = DOMAIN seq_map_
      BY <2>1, HistoriesOfMap
    <3>2. Back'[s] = [k \in 0 .. seq.available_history_num - n |-> Back[s][k + n]]
      BY <2>1, <2>4, <2>5, <2>6, <2>7
    <3>3. ASSUME NEW x \in DOMAIN seq_map_, x # s
          PROVE  Back'[x] = Back[x]
      BY <2>1, <2>5, <2>7, <3>3, HistoriesOfMap
    <3> QED
      BY <2>1, <2>7, <3>1, <3>2, <3>3, HistoriesOfMap, Zenon
  <2>9. Length' = [Length EXCEPT ![s] = @ - n]
    BY <2>1, <2>5, <2>6, <2>7, HistoriesOfMap, Zenon
  <2>10. SH!PopN(s, n)
    BY <2>2, <2>3, <2>8, <2>9 DEF SH!PopN
  <2> QED
    BY <1>0, <2>1, <2>10 DEF SH!Next, History
<1> QED
  BY <1>2, <1>3, <1>4, <1>5

\* Set changes, in the rings of the sequences, the next state of each sequence of
\* the batch and nothing else.
LEMMA SetWrites ==
  ASSUME IndInv, NEW data \in [DOMAIN cur_seq_ids_ -> Value], Set(data),
         NEW s \in DOMAIN seq_map_, NEW h \in History
  PROVE  storages_'[seq_map_[s].seq_slot_id][h] =
           IF Contains(cur_seq_ids_, s) /\ h = (seq_map_[s].history_slot_id + 1) % max_history_
             THEN data[IndexOf(cur_seq_ids_, s)]
             ELSE storages_[seq_map_[s].seq_slot_id][h]
<1> DEFINE slot == seq_map_[s].seq_slot_id
           writer == CHOOSE i \in DOMAIN data : WritesTo(i, slot, h)
<1>1. slot \in Slot
  BY DEF IndInv, TypeOK, Sequence
<1>2. storages_'[slot][h] = IF \E i \in DOMAIN data : WritesTo(i, slot, h)
                              THEN data[writer] ELSE storages_[slot][h]
  BY <1>1 DEF Set
<1>3. ASSUME NEW i \in DOMAIN data
      PROVE  /\ cur_seq_ids_[i] \in DOMAIN seq_map_
             /\ WritesTo(i, slot, h) <=>
                  /\ seq_map_[cur_seq_ids_[i]].seq_slot_id = slot
                  /\ h = (seq_map_[cur_seq_ids_[i]].history_slot_id + 1) % max_history_
  BY DEF IndInv, Set, IsBatch, WritesTo
<1> HIDE DEF slot, writer
<1>4. ASSUME NEW i \in DOMAIN data
      PROVE  WritesTo(i, slot, h) <=>
               cur_seq_ids_[i] = s /\ h = (seq_map_[s].history_slot_id + 1) % max_history_
  BY <1>3 DEF IndInv, SlotsDisjoint, slot
<1>5. Contains(cur_seq_ids_, s) =>
        /\ IndexOf(cur_seq_ids_, s) \in DOMAIN data
        /\ cur_seq_ids_[IndexOf(cur_seq_ids_, s)] = s
        /\ \A i \in DOMAIN data : cur_seq_ids_[i] = s => i = IndexOf(cur_seq_ids_, s)
  BY DEF Contains, IndexOf, IndInv, IsBatch, Set
<1>6. CASE \E i \in DOMAIN data : WritesTo(i, slot, h)
  <2>1. writer \in DOMAIN data /\ WritesTo(writer, slot, h)
    BY <1>6 DEF writer
  <2>2. Contains(cur_seq_ids_, s) /\ h = (seq_map_[s].history_slot_id + 1) % max_history_
    BY <1>4, <2>1 DEF Contains
  <2>3. writer = IndexOf(cur_seq_ids_, s)
    BY <1>4, <1>5, <2>1, <2>2
  <2> QED
    BY <1>2, <1>6, <2>2, <2>3 DEF slot
<1>7. CASE ~\E i \in DOMAIN data : WritesTo(i, slot, h)
  <2>1. ~(Contains(cur_seq_ids_, s) /\ h = (seq_map_[s].history_slot_id + 1) % max_history_)
    BY <1>4, <1>5, <1>7
  <2> QED
    BY <1>2, <1>7, <2>1 DEF slot
<1> QED
  BY <1>6, <1>7

\* A sequence of the batch has the state written for it and, before that, the
\* states it had.
LEMMA SetAppends ==
  ASSUME IndInv, NEW data \in [DOMAIN cur_seq_ids_ -> Value], Set(data),
         NEW s \in DOMAIN seq_map_, Contains(cur_seq_ids_, s)
  PROVE  /\ Back'[s] = SH!Appended(s, cur_append_lengths_[IndexOf(cur_seq_ids_, s)],
                                   data[IndexOf(cur_seq_ids_, s)])
         /\ Length'[s] = Length[s] + cur_append_lengths_[IndexOf(cur_seq_ids_, s)]
<1> DEFINE i == IndexOf(cur_seq_ids_, s)
           n == cur_append_lengths_[i]
           seq == seq_map_[s]
           longer == Advanced(seq, n)
           avail == seq.available_history_num
           h == seq.history_slot_id
           slot == seq.seq_slot_id
<1>1. /\ pass = "begun" /\ pass' = "written" /\ seq_map_' = seq_map_
      /\ AdvancedBatch' = AdvancedBatch
  BY DEF Set, AdvancedBatch
<1>2. i \in DOMAIN cur_seq_ids_
  BY DEF Contains, IndexOf
<1>3. n \in 1 .. MaxAppend
  BY <1>1, <1>2 DEF IndInv
<1>4. seq \in Sequence /\ avail \in History /\ h \in History /\ slot \in Slot
  BY DEF IndInv, TypeOK, Sequence
<1>5. AdvancedBatch[s] = longer
  BY DEF AdvancedBatch
<1>6. /\ longer.seq_length = seq.seq_length + n
      /\ longer.available_history_num =
           IF n > 1 THEN 0 ELSE IF avail + 1 < max_history_ - 1 THEN avail + 1 ELSE max_history_ - 1
      /\ longer.history_slot_id = (h + 1) % max_history_
      /\ longer.seq_slot_id = slot
  BY DEF Advanced
<1> HIDE DEF longer
<1>7. /\ Back'[s] = [k \in 0 .. longer.available_history_num |->
                       storages_'[slot][(((h + 1) % max_history_) - k + max_history_) % max_history_]]
      /\ Length'[s] = seq.seq_length + n
  BY <1>1, <1>5, <1>6 DEF Back, Length, Effective, StateBefore
<1>8. /\ Back[s] = [k \in 0 .. avail |-> storages_[slot][(h - k + max_history_) % max_history_]]
      /\ Length[s] = seq.seq_length
      /\ SH!Available(s) = avail
  BY <1>1, HistoriesOfMap, AvailableHistory DEF StateBefore
<1>9. /\ longer.available_history_num =
           IF n > 1 THEN 0 ELSE IF avail < max_history_ - 1 THEN avail + 1 ELSE max_history_ - 1
      /\ longer.available_history_num \in History
      /\ longer.available_history_num - 1 <= avail
  BY <1>3, <1>4, <1>6, ConfigAssumption DEF History
<1>10. ASSUME NEW k \in 0 .. longer.available_history_num
       PROVE  storages_'[slot][(((h + 1) % max_history_) - k + max_history_) % max_history_]
                = IF k = 0 THEN data[i] ELSE Back[s][k - 1]
  <2>1. k \in History
    BY <1>9, ConfigAssumption DEF History
  <2>2. \A g \in History : storages_'[slot][g] =
          IF g = (h + 1) % max_history_ THEN data[i] ELSE storages_[slot][g]
    BY SetWrites
  <2>3. (h + 1) % max_history_ \in History
    BY <1>4, RingStep, Zenon
  <2>4. CASE k = 0
    BY <1>4, <2>1, <2>2, <2>3, <2>4, RingLaws, Zenon
  <2>5. CASE k # 0
    <3>1. k - 1 \in 0 .. avail /\ k - 1 \in History
      BY <1>4, <1>9, <2>5, ConfigAssumption DEF History
    <3>2. Back[s][k - 1] = storages_[slot][(h - (k - 1) + max_history_) % max_history_]
      <4>1. \A j \in 0 .. avail : Back[s][j] = storages_[slot][(h - j + max_history_) % max_history_]
        BY <1>8, Zenon
      <4> QED
        BY <3>1, <4>1
    <3>3. (h - (k - 1) + max_history_) % max_history_ \in History
      BY <1>4, <3>1, RingStep, Zenon
    <3>4. /\ (((h + 1) % max_history_) - k + max_history_) % max_history_
               = (h - (k - 1) + max_history_) % max_history_
          /\ (h - (k - 1) + max_history_) % max_history_ # (h + 1) % max_history_
      BY <1>4, <2>1, <2>5, RingLaws, Zenon
    <3> QED
      BY <2>2, <2>5, <3>2, <3>3, <3>4
  <2> QED
    BY <2>4, <2>5
<1>11. Back'[s] = [k \in 0 .. longer.available_history_num |->
                     IF k = 0 THEN data[i] ELSE Back[s][k - 1]]
  BY <1>7, <1>10
<1> QED
  BY <1>7, <1>8, <1>9, <1>11, Zenon DEF SH!Appended

\* Set is the pass: every sequence of the batch moves on, and no other changes.
LEMMA SetImplements ==
  ASSUME IndInv, NEW data \in [DOMAIN cur_seq_ids_ -> Value], Set(data)
  PROVE  SH!Next
<1> DEFINE batch == {s \in DOMAIN seq_map_ : Contains(cur_seq_ids_, s)}
           appended == [s \in batch |-> cur_append_lengths_[IndexOf(cur_seq_ids_, s)]]
           states == [s \in batch |-> data[IndexOf(cur_seq_ids_, s)]]
<1>1. /\ pass = "begun" /\ pass' = "written" /\ seq_map_' = seq_map_
      /\ AdvancedBatch' = AdvancedBatch
  BY DEF Set, AdvancedBatch
<1>2. \A s \in batch : IndexOf(cur_seq_ids_, s) \in DOMAIN cur_seq_ids_
  BY DEF Contains, IndexOf
<1>3. appended \in [batch -> 1 .. MaxAppend] /\ states \in [batch -> Value]
  <2>1. \A s \in batch : cur_append_lengths_[IndexOf(cur_seq_ids_, s)] \in 1 .. MaxAppend
    BY <1>1, <1>2 DEF IndInv
  <2>2. \A s \in batch : data[IndexOf(cur_seq_ids_, s)] \in Value
    BY <1>2
  <2> QED
    BY <2>1, <2>2
<1>4. DOMAIN Back = DOMAIN seq_map_ /\ DOMAIN Back' = DOMAIN seq_map_
      /\ DOMAIN Length = DOMAIN seq_map_ /\ DOMAIN Length' = DOMAIN seq_map_
  BY <1>1 DEF Back, Length
<1>5. ASSUME NEW s \in batch
      PROVE  /\ Back'[s] = SH!Appended(s, appended[s], states[s])
             /\ Length'[s] = Length[s] + appended[s]
  BY SetAppends
<1>6. ASSUME NEW s \in DOMAIN seq_map_, s \notin batch
      PROVE  Back'[s] = Back[s] /\ Length'[s] = Length[s]
  <2> DEFINE seq == seq_map_[s]
             m == seq.available_history_num
             slot == seq.seq_slot_id
  <2>1. AdvancedBatch'[s] = seq
    BY <1>1, <1>6 DEF AdvancedBatch
  <2>2. /\ Back'[s] = [k \in 0 .. m |->
                         storages_'[slot][(seq.history_slot_id - k + max_history_) % max_history_]]
        /\ Length'[s] = seq.seq_length
    BY <1>1, <2>1 DEF Back, Length, Effective, StateBefore
  <2>3. /\ Back[s] = [k \in 0 .. m |->
                        storages_[slot][(seq.history_slot_id - k + max_history_) % max_history_]]
        /\ Length[s] = seq.seq_length
    BY <1>1, HistoriesOfMap DEF StateBefore
  <2>4. m \in History /\ seq.history_slot_id \in History
    BY DEF IndInv, TypeOK, Sequence
  <2>5. ASSUME NEW k \in 0 .. m
        PROVE  storages_'[slot][(seq.history_slot_id - k + max_history_) % max_history_]
                 = storages_[slot][(seq.history_slot_id - k + max_history_) % max_history_]
    <3>1. k \in History
      BY <2>4, ConfigAssumption DEF History
    <3>2. (seq.history_slot_id - k + max_history_) % max_history_ \in History
      BY <2>4, <3>1, RingStep, Zenon
    <3> QED
      BY <1>6, <3>2, SetWrites
  <2> QED
    BY <2>2, <2>3, <2>5
<1>7. /\ Back' = [s \in DOMAIN Back' |-> Back'[s]]
      /\ Length' = [s \in DOMAIN Length' |-> Length'[s]]
  BY DEF Back, Length
<1>8. SH!Active = DOMAIN seq_map_ /\ DOMAIN appended = batch
  BY <1>4 DEF SH!Active
<1>9. batch \in SUBSET SH!Active
  BY <1>8
<1> HIDE DEF batch, appended, states
<1>10. SH!Advance(appended, states)
  <2>1. Back' = [s \in SH!Active |-> IF s \in DOMAIN appended
                                      THEN SH!Appended(s, appended[s], states[s]) ELSE Back[s]]
    BY <1>4, <1>5, <1>6, <1>7, <1>8
  <2>2. Length' = [s \in SH!Active |-> IF s \in DOMAIN appended
                                        THEN Length[s] + appended[s] ELSE Length[s]]
    BY <1>4, <1>5, <1>6, <1>7, <1>8
  <2> QED
    BY <2>1, <2>2 DEF SH!Advance
<1> QED
  BY <1>3, <1>9, <1>10 DEF SH!Next

\* Every step of the store is a step of the histories or changes none of them.
LEMMA StepsImplement ==
  ASSUME ~Restarts
  PROVE  IndInv /\ [Next]_vars => [SH!Next]_(SH!vars)
<1> SUFFICES ASSUME IndInv, [Next]_vars
             PROVE  SH!Next \/ UNCHANGED <<Back, Length>>
  BY DEF SH!vars
<1>1. CASE Clear \/ \E s \in SeqId : \/ AddSequence(s) \/ RemoveSequence(s)
                                     \/ \E p \in SeqId : ForkSequence(p, s)
                                     \/ \E n \in History : PopN(s, n)
  <2>1. CASE Clear
    <3>1. Back' = << >> /\ Length' = << >>
      BY <2>1 DEF Clear, Back, Length
    <3> QED
      BY <3>1 DEF SH!Next, SH!Clear
  <2> QED
    BY <1>1, <2>1, CallsImplement
<1>2. ASSUME NEW size \in 1 .. MaxBatch, NEW ids \in [1 .. size -> SeqId],
             NEW lengths \in [1 .. size -> 1 .. MaxAppend], BeginForward(ids, lengths)
      PROVE  UNCHANGED <<Back, Length>>
  BY <1>2 DEF BeginForward, Back, Length, Effective, StateBefore
<1>3. CASE \E data \in [DOMAIN cur_seq_ids_ -> Value] : Set(data)
  BY <1>3, SetImplements
<1>4. CASE EndForward
  <2>1. Effective = AdvancedBatch /\ Effective' = AdvancedBatch /\ storages_' = storages_
    BY <1>4 DEF EndForward, Effective
  <2>2. DOMAIN seq_map_' = DOMAIN seq_map_
    BY <1>4 DEF EndForward, AdvancedBatch
  <2> QED
    BY <2>1, <2>2 DEF Back, Length, StateBefore
<1>5. ASSUME NEW ids, NEW lengths, BeginForwardRefused(ids, lengths)
      PROVE  UNCHANGED <<Back, Length>>
  BY <1>5 DEF BeginForwardRefused, Back, Length, Effective, StateBefore
<1>6. CASE UNCHANGED vars
  BY <1>6 DEF vars, aux, Back, Length, Effective, StateBefore, AdvancedBatch
<1> QED
  BY <1>1, <1>2, <1>3, <1>4, <1>5, <1>6 DEF Next

\* When every pass ends with EndForward, the rings of the store implement the
\* histories its callers reason with: a pass, a rollback of any length that PopN
\* accepts, a fork and the reuse of a slot give every sequence the states it
\* should have, for any size of the ring, number of slots and size of the batch.
THEOREM StoreImplementsHistories ==
  ASSUME ~Restarts
  PROVE  Spec => ImplementsStateHistory
<1>1. Init => SH!Init
  BY DEF Init, SH!Init, Back, Length
<1> QED
  BY <1>1, StoreInvariant, StepsImplement, PTL DEF Spec, ImplementsStateHistory, SH!Spec

=============================================================================
