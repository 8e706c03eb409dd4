------------------------------ MODULE RNNState ------------------------------
(***************************************************************************)
(* The recurrent state store of the virtual machine, RNNStateImpObj in     *)
(* src/runtime/vm/rnn_state.cc.  Each sequence owns a slot of the storage, *)
(* a ring of max_history_ states, so that its last tokens can be rolled    *)
(* back.  A forward pass reads and writes the storage through two arrays   *)
(* on the device, the slots of its batch, which are copied there by        *)
(* BeginForward when a flag says that they changed.                        *)
(*                                                                         *)
(* The layers and states of a layer are independent copies of one ring;    *)
(* the model has one.  A pass reads its state, if at all, before it writes *)
(* the next one, writes it once and then ends; sequences are added, forked *)
(* popped and removed between passes.  A batch names a sequence once.      *)
(***************************************************************************)
EXTENDS Integers, Sequences

CONSTANTS
    SeqId,               \* the sequence ids a caller may use
    reserved_num_seqs_,  \* the number of slots
    max_history_,        \* the states in the ring of a slot
    Value,               \* states
    init_layer_value_,   \* the state of a new sequence
    MaxBatch,            \* the most sequences in one pass
    MaxAppend,           \* the most tokens one pass appends to a sequence
    MaxLength,           \* a bound on the length of sequences
    Restarts             \* whether a pass that failed before EndForward may be followed by another

ASSUME ConfigAssumption ==
    /\ reserved_num_seqs_ \in Nat \ {0}
    /\ max_history_ \in Nat \ {0}
    /\ init_layer_value_ \in Value
    /\ MaxBatch \in Nat
    /\ MaxAppend \in Nat
    /\ Restarts \in BOOLEAN

VARIABLES
    seq_map_,                \* the sequences in the store
    free_slot_ids_,          \* the vector of free slots
    storages_,               \* storages_[slot][history slot]
    cur_seq_ids_,            \* the batch of the pass
    cur_append_lengths_,     \* the number of tokens it appends to each
    dirty_aux_data_device_,  \* whether the arrays on the device are out of date
    seq_slot_ids_view_,      \* the slots of the batch, on the device
    history_slot_ids_view_,  \* their current history slots, on the device
    pass                     \* how far the caller is: "none", "begun", "written"

aux == <<cur_seq_ids_, cur_append_lengths_, seq_slot_ids_view_, history_slot_ids_view_, pass>>
vars == <<seq_map_, free_slot_ids_, storages_, dirty_aux_data_device_, aux>>

Slot == 0 .. reserved_num_seqs_ - 1
History == 0 .. max_history_ - 1

Sequence == [seq_length : Int, available_history_num : History,
             history_slot_id : History, seq_slot_id : Slot]

With(f, s, v) == [x \in DOMAIN f \cup {s} |-> IF x = s THEN v ELSE f[x]]
Without(f, s) == [x \in DOMAIN f \ {s} |-> f[x]]
Contains(ids, s) == \E i \in DOMAIN ids : ids[i] = s
IndexOf(ids, s) == CHOOSE i \in DOMAIN ids : ids[i] = s

-----------------------------------------------------------------------------
(* Sequences *)

NewSequence(slot) == [seq_length |-> 0, available_history_num |-> 0,
                      history_slot_id |-> 0, seq_slot_id |-> slot]

Fork(parent, slot) == [parent EXCEPT !.seq_slot_id = slot]

\* Mutant: every state in the ring counts as history.
AdvancedOneMore(seq, n) ==
    [seq_length |-> seq.seq_length + n,
     available_history_num |->
       IF n > 1 THEN 0
       ELSE IF seq.available_history_num + 1 < max_history_ THEN seq.available_history_num + 1
       ELSE max_history_,
     history_slot_id |-> (seq.history_slot_id + 1) % max_history_,
     seq_slot_id |-> seq.seq_slot_id]

\* A sequence after a pass of n tokens.
Advanced(seq, n) ==
    [seq_length |-> seq.seq_length + n,
     available_history_num |->
       IF n > 1 THEN 0
       ELSE IF seq.available_history_num + 1 < max_history_ - 1 THEN seq.available_history_num + 1
       ELSE max_history_ - 1,
     history_slot_id |-> (seq.history_slot_id + 1) % max_history_,
     seq_slot_id |-> seq.seq_slot_id]

\* A sequence after a rollback over n tokens.
RolledBack(seq, n) ==
    [seq_length |-> seq.seq_length - n,
     available_history_num |-> seq.available_history_num - n,
     history_slot_id |-> (seq.history_slot_id - n + max_history_) % max_history_,
     seq_slot_id |-> seq.seq_slot_id]

\* GetFreeSlot takes the last free slot.
FreeSlot == free_slot_ids_[Len(free_slot_ids_)]
OtherFreeSlots == SubSeq(free_slot_ids_, 1, Len(free_slot_ids_) - 1)

-----------------------------------------------------------------------------
(* Calls *)

AllSlots == [i \in 1 .. reserved_num_seqs_ |-> reserved_num_seqs_ - i]

\* The storage is not initialised.
Init ==
    /\ seq_map_ = << >>
    /\ free_slot_ids_ = AllSlots
    /\ storages_ \in [Slot -> [History -> Value]]
    /\ dirty_aux_data_device_ = FALSE
    /\ cur_seq_ids_ = << >> /\ cur_append_lengths_ = << >>
    /\ seq_slot_ids_view_ = << >> /\ history_slot_ids_view_ = << >>
    /\ pass = "none"

Clear ==
    /\ pass = "none"
    /\ seq_map_' = << >>
    /\ free_slot_ids_' = AllSlots
    /\ dirty_aux_data_device_' = FALSE
    /\ UNCHANGED <<storages_, aux>>

\* Mutant: the arrays on the device are not marked out of date.
AddSequenceClean(s) ==
    /\ pass = "none"
    /\ s \notin DOMAIN seq_map_
    /\ free_slot_ids_ # << >>
    /\ free_slot_ids_' = OtherFreeSlots
    /\ seq_map_' = With(seq_map_, s, NewSequence(FreeSlot))
    /\ storages_' = [storages_ EXCEPT ![FreeSlot] = [@ EXCEPT ![0] = init_layer_value_]]
    /\ UNCHANGED <<dirty_aux_data_device_, aux>>

\* Only the first state of the ring is initialised.
AddSequence(s) ==
    /\ pass = "none"
    /\ s \notin DOMAIN seq_map_
    /\ free_slot_ids_ # << >>
    /\ free_slot_ids_' = OtherFreeSlots
    /\ seq_map_' = With(seq_map_, s, NewSequence(FreeSlot))
    /\ storages_' = [storages_ EXCEPT ![FreeSlot] = [@ EXCEPT ![0] = init_layer_value_]]
    /\ dirty_aux_data_device_' = TRUE
    /\ UNCHANGED aux

\* Mutant: the slot is put on the free list twice.
RemoveSequenceTwice(s) ==
    /\ pass = "none"
    /\ s \in DOMAIN seq_map_
    /\ free_slot_ids_' = free_slot_ids_ \o <<seq_map_[s].seq_slot_id, seq_map_[s].seq_slot_id>>
    /\ seq_map_' = Without(seq_map_, s)
    /\ dirty_aux_data_device_' = TRUE
    /\ UNCHANGED <<storages_, aux>>

RemoveSequence(s) ==
    /\ pass = "none"
    /\ s \in DOMAIN seq_map_
    /\ free_slot_ids_' = Append(free_slot_ids_, seq_map_[s].seq_slot_id)
    /\ seq_map_' = Without(seq_map_, s)
    /\ dirty_aux_data_device_' = TRUE
    /\ UNCHANGED <<storages_, aux>>

\* The whole ring is copied; the position to fork at is ignored, and is the default here.
ForkSequence(p, s) ==
    /\ pass = "none"
    /\ p \in DOMAIN seq_map_ /\ s \notin DOMAIN seq_map_
    /\ free_slot_ids_ # << >>
    /\ free_slot_ids_' = OtherFreeSlots
    /\ seq_map_' = With(seq_map_, s, Fork(seq_map_[p], FreeSlot))
    /\ storages_' = [storages_ EXCEPT ![FreeSlot] = storages_[seq_map_[p].seq_slot_id]]
    /\ dirty_aux_data_device_' = TRUE
    /\ UNCHANGED aux

PopN(s, n) ==
    /\ pass = "none"
    /\ s \in DOMAIN seq_map_
    /\ n <= seq_map_[s].available_history_num
    /\ seq_map_' = [seq_map_ EXCEPT ![s] = RolledBack(@, n)]
    /\ dirty_aux_data_device_' = TRUE
    /\ UNCHANGED <<free_slot_ids_, storages_, aux>>

\* Mutant: the history slots of the next round are copied.
SyncNextRound(ids) ==
    /\ seq_slot_ids_view_' = [i \in DOMAIN ids |-> seq_map_[ids[i]].seq_slot_id]
    /\ history_slot_ids_view_' =
         [i \in DOMAIN ids |-> (seq_map_[ids[i]].history_slot_id + 1) % max_history_]
    /\ dirty_aux_data_device_' = FALSE

\* Copies the slots of the batch to the device.
SyncAuxArrayToDevice(ids) ==
    /\ seq_slot_ids_view_' = [i \in DOMAIN ids |-> seq_map_[ids[i]].seq_slot_id]
    /\ history_slot_ids_view_' = [i \in DOMAIN ids |-> seq_map_[ids[i]].history_slot_id]
    /\ dirty_aux_data_device_' = FALSE

BeginForward(ids, lengths) ==
    /\ pass = "none" \/ Restarts
    /\ cur_seq_ids_' = ids /\ cur_append_lengths_' = lengths
    /\ IF dirty_aux_data_device_
         THEN SyncAuxArrayToDevice(ids)
         ELSE UNCHANGED <<seq_slot_ids_view_, history_slot_ids_view_, dirty_aux_data_device_>>
    /\ pass' = "begun"
    /\ UNCHANGED <<seq_map_, free_slot_ids_, storages_>>

\* A batch with an unknown sequence is refused by the copy to the device, after
\* it has become the current one.
BeginForwardRefused(ids, lengths) ==
    /\ pass = "none"
    /\ dirty_aux_data_device_
    /\ \E i \in DOMAIN ids : ids[i] \notin DOMAIN seq_map_
    /\ cur_seq_ids_' = ids /\ cur_append_lengths_' = lengths
    /\ UNCHANGED <<seq_map_, free_slot_ids_, storages_, dirty_aux_data_device_,
                   seq_slot_ids_view_, history_slot_ids_view_, pass>>

\* What Get returns for the i-th sequence of the batch.
GetResult(i) == storages_[seq_slot_ids_view_[i]][history_slot_ids_view_[i]]

\* Mutant: the kernel writes to the slot that it reads.
WritesToThis(i, slot, h) ==
    seq_slot_ids_view_[i] = slot /\ history_slot_ids_view_[i] = h

\* The kernel of Set writes to the slot of the next round.
WritesTo(i, slot, h) ==
    seq_slot_ids_view_[i] = slot /\ (history_slot_ids_view_[i] + 1) % max_history_ = h

Set(data) ==
    /\ pass = "begun"
    /\ ~dirty_aux_data_device_
    /\ storages_' = [slot \in Slot |-> [h \in History |->
                       IF \E i \in DOMAIN data : WritesTo(i, slot, h)
                         THEN data[CHOOSE i \in DOMAIN data : WritesTo(i, slot, h)]
                         ELSE storages_[slot][h]]]
    /\ pass' = "written"
    /\ UNCHANGED <<seq_map_, free_slot_ids_, dirty_aux_data_device_, cur_seq_ids_,
                   cur_append_lengths_, seq_slot_ids_view_, history_slot_ids_view_>>

\* The sequences once the pass has ended.
AdvancedBatch ==
    [s \in DOMAIN seq_map_ |->
       IF Contains(cur_seq_ids_, s)
         THEN Advanced(seq_map_[s], cur_append_lengths_[IndexOf(cur_seq_ids_, s)])
         ELSE seq_map_[s]]

\* Mutant: the arrays on the device are taken to be up to date.
EndForwardClean ==
    /\ pass = "written"
    /\ seq_map_' = AdvancedBatch
    /\ pass' = "none"
    /\ UNCHANGED <<free_slot_ids_, storages_, cur_seq_ids_, cur_append_lengths_,
                   seq_slot_ids_view_, history_slot_ids_view_, dirty_aux_data_device_>>

EndForward ==
    /\ pass = "written"
    /\ seq_map_' = AdvancedBatch
    /\ dirty_aux_data_device_' = TRUE
    /\ pass' = "none"
    /\ UNCHANGED <<free_slot_ids_, storages_, cur_seq_ids_, cur_append_lengths_,
                   seq_slot_ids_view_, history_slot_ids_view_>>

IsBatch(ids) == /\ \A i \in DOMAIN ids : ids[i] \in DOMAIN seq_map_
                /\ \A i, j \in DOMAIN ids : ids[i] = ids[j] => i = j

Next ==
    \/ Clear
    \/ \E s \in SeqId : AddSequence(s) \/ RemoveSequence(s)
    \/ \E p, s \in SeqId : ForkSequence(p, s)
    \/ \E s \in SeqId, n \in History : PopN(s, n)
    \/ \E size \in 1 .. MaxBatch : \E ids \in [1 .. size -> SeqId] :
         /\ IsBatch(ids)
         /\ \E lengths \in [1 .. size -> 1 .. MaxAppend] :
              /\ \A i \in 1 .. size : seq_map_[ids[i]].seq_length + lengths[i] <= MaxLength
              /\ BeginForward(ids, lengths)
    \/ \E data \in [DOMAIN cur_seq_ids_ -> Value] : Set(data)
    \/ EndForward
    \/ \E size \in 1 .. MaxBatch : \E ids \in [1 .. size -> SeqId] :
         \E lengths \in [1 .. size -> 1 .. MaxAppend] : BeginForwardRefused(ids, lengths)

Spec == Init /\ [][Next]_vars

-----------------------------------------------------------------------------
(* Properties *)

\* Every variable has its type; no history count exceeds the ring.
TypeOK ==
    /\ seq_map_ \in [DOMAIN seq_map_ -> Sequence] /\ DOMAIN seq_map_ \subseteq SeqId
    /\ free_slot_ids_ \in Seq(Slot)
    /\ storages_ \in [Slot -> [History -> Value]]
    /\ dirty_aux_data_device_ \in BOOLEAN
    /\ pass \in {"none", "begun", "written"}

\* A slot is free or belongs to one sequence, and is on the free list once: what
\* AddSequence, ForkSequence and RemoveSequence do to the free list, in any order,
\* never lets two sequences write to one ring.
SlotsDisjoint ==
    /\ \A i, j \in DOMAIN free_slot_ids_ : free_slot_ids_[i] = free_slot_ids_[j] => i = j
    /\ \A s \in DOMAIN seq_map_, i \in DOMAIN free_slot_ids_ :
         seq_map_[s].seq_slot_id # free_slot_ids_[i]
    /\ \A s, t \in DOMAIN seq_map_ : seq_map_[s].seq_slot_id = seq_map_[t].seq_slot_id => s = t

\* While Get and Set are allowed, the arrays on the device are those of the
\* batch: "The auxiliary data structure on device must have been synchronized."
BatchOnDevice ==
    pass = "begun" /\ ~dirty_aux_data_device_ =>
      /\ DOMAIN seq_slot_ids_view_ = DOMAIN cur_seq_ids_
      /\ DOMAIN history_slot_ids_view_ = DOMAIN cur_seq_ids_
      /\ \A i \in DOMAIN cur_seq_ids_ :
           /\ seq_slot_ids_view_[i] = seq_map_[cur_seq_ids_[i]].seq_slot_id
           /\ history_slot_ids_view_[i] = seq_map_[cur_seq_ids_[i]].history_slot_id

\* What makes the three inductive: outside a pass the arrays on the device are due
\* for a copy whenever there is a sequence, so that the BeginForward of a pass
\* copies the slots of its own batch, and inside a pass they stay what it copied.
\* It needs that every pass ends with EndForward.
IndInv ==
    /\ TypeOK
    /\ SlotsDisjoint
    /\ pass = "none" => dirty_aux_data_device_ \/ DOMAIN seq_map_ = {}
    /\ pass # "none" =>
         /\ ~dirty_aux_data_device_
         /\ IsBatch(cur_seq_ids_)
         /\ DOMAIN cur_append_lengths_ = DOMAIN cur_seq_ids_
         /\ DOMAIN seq_slot_ids_view_ = DOMAIN cur_seq_ids_
         /\ DOMAIN history_slot_ids_view_ = DOMAIN cur_seq_ids_
         /\ \A i \in DOMAIN cur_seq_ids_ :
              /\ cur_append_lengths_[i] \in 1 .. MaxAppend
              /\ seq_slot_ids_view_[i] = seq_map_[cur_seq_ids_[i]].seq_slot_id
              /\ history_slot_ids_view_[i] = seq_map_[cur_seq_ids_[i]].history_slot_id

\* The sequences with the pass in progress counted in once its states are written.
Effective == IF pass = "written" THEN AdvancedBatch ELSE seq_map_

StateBefore(seq, k) ==
    storages_[seq.seq_slot_id][(seq.history_slot_id - k + max_history_) % max_history_]

\* The states a caller can roll back to, and the lengths.
Back == [s \in DOMAIN seq_map_ |->
           [k \in 0 .. Effective[s].available_history_num |-> StateBefore(Effective[s], k)]]
Length == [s \in DOMAIN seq_map_ |-> Effective[s].seq_length]

\* Get returns, for each sequence of the batch, the state its last pass left or the
\* one PopN went back to: what it reads through the device is the newest entry of
\* the history the caller reasons with.
GetReturnsState ==
    pass = "begun" /\ ~dirty_aux_data_device_ =>
      \A i \in DOMAIN cur_seq_ids_ : GetResult(i) = Back[cur_seq_ids_[i]][0]

SH == INSTANCE StateHistory WITH
        InitValue <- init_layer_value_, Depth <- max_history_ - 1,
        back <- Back, length <- Length

\* Through the rings, every call has its promised effect: a pass gives each
\* sequence of its batch the state written for it, PopN brings back the state
\* of n tokens ago, a fork has the history of its parent, and no call changes the
\* current or any earlier state of another sequence.
ImplementsStateHistory == SH!Spec

=============================================================================
