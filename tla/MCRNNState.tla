----------------------------- MODULE MCRNNState -----------------------------
(* Small instances of the recurrent state store for TLC. *)
EXTENDS RNNState, TLC

\* Ids are interchangeable, and so are the states that passes write.
Interchangeable == Permutations(SeqId) \cup Permutations(Value \ {init_layer_value_})

=============================================================================
