--------------------------- MODULE MCPagedKVCache ---------------------------
(* Small instances of the paged key/value cache for TLC. *)
EXTENDS PagedKVCache

Plain(pages) == [pages |-> pages, window |-> FALSE, batch |-> 2, trees |-> FALSE]
WithTrees(pages) == [Plain(pages) EXCEPT !.trees = TRUE]
WithWindows(pages) == [Plain(pages) EXCEPT !.window = TRUE, !.batch = 1]

EveryFeature == {Plain(4), WithTrees(2), WithWindows(3)}
OnlySharing == {Plain(2)}
OnlyTrees == {WithTrees(3)}
OnlyWindows == {WithWindows(3)}

NoWindows == {}
SmallWindows == {<<2, 0>>, <<2, 1>>, <<3, 1>>, <<4, 2>>}

\* Sequence ids are interchangeable.
SameIds == Permutations(SeqId)

\* Which page or block number is used for what makes no difference to any call,
\* nor does what lies in a page beyond the tokens of its block.  Two caches are told
\* apart by the shape of the chains, by which sequences share each block, by the
\* tokens, by how much is free, and by whether the pages and references add up;
\* the last pass by the tokens in the slots that a careful commit can still name.
UpToRenaming ==
    LET trace == [s \in DOMAIN seq_map_ |-> GetBlockTrace(Cache, seq_map_[s].last_block_idx)]
        Shape(b) == [block |-> [global_block_pool_[b] EXCEPT !.page_ids = Len(@), !.parent_idx = 0],
                     shared |-> {s \in DOMAIN seq_map_ : b \in ToSet(trace[s])},
                     free |-> b \notin LiveBlocks]
        Open(i) == LET id == cur_.ids[i]
                   IN  /\ id \in DOMAIN seq_map_ /\ ~seq_map_[id].accepted_indices_committed
                       /\ Len(seq_map_[id].token_tree_parent_ptr) = cur_.lengths[i]
        open == {i \in DOMAIN cur_.ids : \A j \in 1 .. i : Open(j)}
        cur == [i \in open |->
                  <<cur_.ids[i], [k \in 1 .. cur_.lengths[i] |->
                                    ReadSlot(Cache, cur_.map[cur_.indptr[i] + k])]>>]
    IN  <<setup,
          [s \in DOMAIN seq_map_ |->
             [seq |-> [seq_map_[s] EXCEPT !.last_block_idx = 0],
              chain |-> [k \in DOMAIN trace[s] |-> Shape(trace[s][k])],
              tokens |-> view[s]]],
          Len(free_page_ids_), Cardinality(LiveBlocks), cur, raised,
          PagesPartitioned, RefCountsExact>>

=============================================================================
