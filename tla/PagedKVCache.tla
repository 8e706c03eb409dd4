---------------------------- MODULE PagedKVCache ----------------------------
(***************************************************************************)
(* The page table of the paged key/value cache                             *)
(* (src/runtime/vm/paged_kv_cache.cc, attn_utils.h).  A sequence is a      *)
(* chain of blocks, linked from its last block to the root; a block owns   *)
(* whole pages; sequences forked from each other share the blocks of their *)
(* common prefix, which reference counts keep alive.                       *)
(*                                                                         *)
(* A handler of the cache is an operator from one cache to the next, so    *)
(* that a handler can call another one, as PopN calls ForkSequence and     *)
(* RemoveSequence.  A failed TVM_FFI_ICHECK throws: what was changed       *)
(* before it stays changed, and the field err says which kind of check it  *)
(* was.  Calls are serial: the cache has no lock and its callers run one   *)
(* call at a time.                                                         *)
(***************************************************************************)
EXTENDS Integers, Sequences, FiniteSets, SequencesExt, FiniteSetsExt, Functions

CONSTANTS
    SeqId,                    \* the sequence ids the caller uses
    Setups,                   \* the caches that may be constructed
    page_size_,
    MaxAppend,                \* bound: tokens one forward pass appends to a sequence
    Windows,                  \* the <<window, sink>> sizes the caller asks for
    kTreeAttnMaxTreeSize,
    Uses,                     \* the unusual uses, of those below, that the caller makes
    None

\* Uses of the interface that the code accepts and a careful caller avoids: running
\* out of pages; a batch with an unknown or uncommitted sequence; popping tokens
\* of a moved window, of the blocks before the last one of a sequence with a
\* window, or of an uncommitted tree; forking inside the last block of a moved
\* window, or at the end of a sequence with a window on a page boundary; a window
\* smaller than the prefix it is put on; a tree beyond the size limit; committing
\* anything but the first sequences of the last pass in its order, a sequence
\* without a tree, a tree that grew over several passes, or branching trees
\* followed by a chain.
Unusual == {"full", "bad_batch", "pop_slid", "pop_window_prefix", "pop_tree", "fork_slid",
            "fork_window_end", "window_on_prefix", "big_tree", "stale_commit", "commit_again",
            "grown_tree", "mixed_trees"}

ASSUME ConstantsOK ==
    /\ \A s \in Setups : /\ s.pages \in Nat /\ s.window \in BOOLEAN
                         /\ s.batch \in Nat /\ s.trees \in BOOLEAN
    /\ page_size_ \in Nat \ {0} /\ MaxAppend \in Nat /\ kTreeAttnMaxTreeSize \in Nat
    /\ Windows \subseteq {w \in (Nat \ {0}) \X Nat : w[2] < w[1]}
    /\ Uses \subseteq Unusual

NoBlock == 0                   \* -1 in the code, whose block indices start at 0
NoWindow == -1
kPagedKVCacheTempPageId == -1

VARIABLES
    setup,                     \* what the cache was constructed with, and the bounds and
                               \* habits of its caller: [pages, window, batch, trees]
    global_block_pool_, free_block_idx_, free_page_ids_, seq_map_,
    pages_,                    \* pages_[p][i]: the token stored at offset i of page p
    cur_,                      \* what the last BeginForward left: cur_seq_ids_,
                               \* cur_append_lengths_, the position map and its indptr
    raised,                    \* how the last call ended: "ok", "full" or "check"
    view                       \* the tokens that the page table leads to, after each call

vars == <<setup, global_block_pool_, free_block_idx_, free_page_ids_, seq_map_, pages_, cur_, raised, view>>

num_total_pages_ == setup.pages
support_sliding_window_ == setup.window
MaxBatch == setup.batch        \* bound: sequences in one forward pass
Page == 0 .. num_total_pages_ - 1

Cache == [blocks |-> global_block_pool_, free_blocks |-> free_block_idx_,
          free_pages |-> free_page_ids_, seqs |-> seq_map_, pages |-> pages_,
          rest |-> 0,       \* what PopN still has to pop
          err |-> "ok"]

Throw(c, why) == [c EXCEPT !.err = why]
Check(c, cond) == IF cond THEN c ELSE Throw(c, "check")

\* The statement after c: it is skipped when c threw.  (The value of c is bound
\* by a set so that TLC computes it once.)
Then(c, Step(_)) == CHOOSE r \in {IF d.err = "ok" THEN Step(d) ELSE d : d \in {c}} : TRUE

CeilDiv(a, b) == (a + b - 1) \div b
Max2(a, b) == IF a >= b THEN a ELSE b
Min2(a, b) == IF a <= b THEN a ELSE b
TotalOver(f(_), seq) == FoldLeft(LAMBDA acc, x : acc + f(x), 0, seq)

-----------------------------------------------------------------------------
(* Blocks and pages *)

EmptyBlock == [page_ids |-> << >>, seq_length |-> 0, start_pos |-> 0, sink_length |-> 0,
               sliding_window_offset |-> 0, parent_idx |-> NoBlock, external_ref_cnt |-> 0]

EmptyPage == [i \in 0 .. page_size_ - 1 |-> None]

\* The block that GetFreeBlock returns, and the pool after it did.
FreeBlock(c) == IF c.free_blocks # << >> THEN Last(c.free_blocks) ELSE Len(c.blocks) + 1

GetFreeBlock(c) ==
    IF c.free_blocks # << >>
      THEN [c EXCEPT !.blocks[Last(c.free_blocks)] = EmptyBlock, !.free_blocks = Front(@)]
      ELSE [c EXCEPT !.blocks = Append(@, EmptyBlock)]

\* The contents of a page in no block are not defined: they read as None.
ReleasePages(c, ids) ==
    [c EXCEPT !.free_pages = @ \o ids,
              !.pages = [p \in Page |-> IF p \in ToSet(ids) THEN EmptyPage ELSE @[p]]]

\* Frees block b and its pages.  GetFreeBlock resets the fields of a block; what
\* a free block holds until then is dead, and the model resets it here as well.
ReleaseBlock(c, b) ==
    [ReleasePages(c, c.blocks[b].page_ids) EXCEPT !.free_blocks = Append(@, b),
                                                  !.blocks[b] = EmptyBlock]

\* The blocks from the root to block b.
GetBlockTrace(c, b) ==
    LET trace[k \in 0 .. Len(c.blocks)] ==
          IF k = NoBlock THEN << >> ELSE Append(trace[c.blocks[k].parent_idx], k)
    IN  trace[b]

\* Where the i-th token of a block (from 0) is stored: pinned tokens lie at the
\* start of the first page, the others follow the offset of the window.
Slot(block, i) ==
    LET offset == IF i < block.sink_length THEN i
                  ELSE i - block.sink_length + block.sliding_window_offset
        k == offset \div page_size_ + 1
    IN  IF k <= Len(block.page_ids) /\ block.page_ids[k] \in Page
          THEN <<block.page_ids[k], offset % page_size_>> ELSE None

ReadSlot(c, slot) == IF slot = None THEN None ELSE c.pages[slot[1]][slot[2]]

\* The tokens of a sequence, as attention finds them through the page table.
BlockTokens(c, b) ==
    [i \in 1 .. c.blocks[b].seq_length |-> ReadSlot(c, Slot(c.blocks[b], i - 1))]

Tokens(c, s) == FlattenSeq([k \in DOMAIN GetBlockTrace(c, c.seqs[s].last_block_idx) |->
                              BlockTokens(c, GetBlockTrace(c, c.seqs[s].last_block_idx)[k])])

View(c) == [s \in DOMAIN c.seqs |-> Tokens(c, s)]

Return(c) ==
    /\ global_block_pool_' = c.blocks
    /\ free_block_idx_' = c.free_blocks
    /\ free_page_ids_' = c.free_pages
    /\ seq_map_' = c.seqs
    /\ pages_' = c.pages
    /\ raised' = c.err
    /\ view' = View(c)

\* Mutant: the length counts the last block only.
NewSequenceLastBlock(c, b) ==
    [last_block_idx |-> b, seq_length |-> c.blocks[b].seq_length,
     sliding_window_size |-> NoWindow, last_block_attn_sink_size |-> 0,
     is_chain |-> TRUE, token_tree_parent_ptr |-> << >>, accepted_indices_committed |-> TRUE]

NewSequence(c, b) ==
    [last_block_idx |-> b,
     seq_length |-> TotalOver(LAMBDA k : c.blocks[k].seq_length, GetBlockTrace(c, b)),
     sliding_window_size |-> NoWindow, last_block_attn_sink_size |-> 0,
     is_chain |-> TRUE, token_tree_parent_ptr |-> << >>, accepted_indices_committed |-> TRUE]

AddToMap(c, s, b) ==
    [c EXCEPT !.blocks[b].external_ref_cnt = @ + 1,
              !.seqs = [x \in DOMAIN @ \cup {s} |-> IF x = s THEN NewSequence(c, b) ELSE @[x]]]

EraseFromMap(c, s) == [c EXCEPT !.seqs = Restrict(@, DOMAIN @ \ {s})]

-----------------------------------------------------------------------------
(* Sequence management *)

DoAddSequence(c, s) == AddToMap(GetFreeBlock(c), s, FreeBlock(c))

\* Frees the blocks from b towards the root that nothing else refers to, and
\* drops the reference to the first one that is shared.
RECURSIVE ReleaseBlocks(_, _)
ReleaseBlocks(c, b) ==
    IF b = NoBlock THEN c
    ELSE IF c.blocks[b].external_ref_cnt = 1
      THEN Then(ReleaseBlock(c, b), LAMBDA d : ReleaseBlocks(d, c.blocks[b].parent_idx))
    ELSE Then(Check(c, c.blocks[b].external_ref_cnt > 1), LAMBDA d :
           [d EXCEPT !.blocks[b].external_ref_cnt = @ - 1])

DoRemoveSequence(c, s) ==
    Then(ReleaseBlocks(c, c.seqs[s].last_block_idx), LAMBDA d : EraseFromMap(d, s))

SinkSize(c, s) ==
    c.seqs[s].seq_length - c.blocks[c.seqs[s].last_block_idx].seq_length
        + c.seqs[s].last_block_attn_sink_size

MayFork(c, p, ch, pos) ==
    /\ p \in DOMAIN c.seqs /\ ch \notin DOMAIN c.seqs
    /\ pos \in 0 .. c.seqs[p].seq_length
    /\ c.seqs[p].accepted_indices_committed
    /\ c.seqs[p].sliding_window_size # NoWindow => pos <= SinkSize(c, p)

\* Forked at its very end, on a page boundary: the parent continues in a new block.
AddTailBlock(c, p) ==
    LET new == FreeBlock(c)
    IN  [GetFreeBlock(c) EXCEPT
           !.blocks[new] = [EmptyBlock EXCEPT !.start_pos = c.seqs[p].seq_length,
                                              !.parent_idx = c.seqs[p].last_block_idx,
                                              !.external_ref_cnt = 1],
           !.seqs[p].last_block_idx = new]

\* Mutant: the shared block is counted once.
LeadingBlockOnce(blk, moved) ==
    [EmptyBlock EXCEPT !.parent_idx = blk.parent_idx, !.external_ref_cnt = 1,
                       !.page_ids = SubSeq(blk.page_ids, 1, moved),
                       !.start_pos = blk.start_pos, !.seq_length = moved * page_size_]

\* The block of the first moved pages of blk, shared by the rest of it and the child.
LeadingBlock(blk, moved) ==
    [EmptyBlock EXCEPT !.parent_idx = blk.parent_idx,
                       !.external_ref_cnt = 2,
                       !.page_ids = SubSeq(blk.page_ids, 1, moved),
                       !.start_pos = blk.start_pos,
                       !.seq_length = moved * page_size_]

\* Mutant: the rest keeps its old start.
TrailingBlockSameStart(blk, moved, parent) ==
    [blk EXCEPT !.parent_idx = parent, !.page_ids = SubSeq(@, moved + 1, Len(@)),
                !.seq_length = @ - moved * page_size_]

\* Mutant: the start of the rest moves the wrong way.
TrailingBlockMovedBack(blk, moved, parent) ==
    [TrailingBlockSameStart(blk, moved, parent) EXCEPT !.start_pos = @ - moved * page_size_]

\* What is left of blk behind that block.
TrailingBlock(blk, moved, parent) ==
    [blk EXCEPT !.parent_idx = parent,
                !.page_ids = SubSeq(@, moved + 1, Len(@)),
                !.start_pos = @ + moved * page_size_,
                !.seq_length = @ - moved * page_size_]

\* Splits the first moved pages off block b of sequence p into a new block
\* before it, which block ch then shares.
SplitBlock(c, p, b, ch, moved) ==
    LET new == FreeBlock(c)
        pinned == c.seqs[p].sliding_window_size # NoWindow /\ b = c.seqs[p].last_block_idx
        split == [GetFreeBlock(c) EXCEPT !.blocks[new] = LeadingBlock(c.blocks[b], moved),
                                         !.blocks[b] = TrailingBlock(@, moved, new),
                                         !.blocks[ch].parent_idx = new]
    IN  IF ~pinned THEN split
        ELSE Then(Check(split, moved * page_size_ <= c.seqs[p].last_block_attn_sink_size), LAMBDA d :
               [d EXCEPT !.seqs[p].last_block_attn_sink_size = @ - moved * page_size_])

\* Mutant: the second reference to the parent is not counted.
ShareParentUncounted(c, b, ch) == [c EXCEPT !.blocks[ch].parent_idx = c.blocks[b].parent_idx]

ShareParentBlock(c, b, ch) ==
    LET parent == c.blocks[b].parent_idx
        linked == [c EXCEPT !.blocks[ch].parent_idx = parent]
    IN  IF parent = NoBlock THEN linked ELSE [linked EXCEPT !.blocks[parent].external_ref_cnt = @ + 1]

\* Mutant: the copy is one token short.
CopyOneLess(c, src, ch, n) ==
    IF c.free_pages = << >> THEN Throw(c, "full")
    ELSE LET tgt == Last(c.free_pages)
         IN  [c EXCEPT !.free_pages = Front(@),
                       !.blocks[ch].page_ids = Append(@, tgt),
                       !.pages[tgt] = [i \in 0 .. page_size_ - 1 |->
                                         IF i < n - 1 THEN c.pages[src][i] ELSE None]]

\* The child gets its own copy of the first n tokens of the page it was forked in.
CopySinglePage(c, src, ch, n) ==
    IF c.free_pages = << >> THEN Throw(c, "full")
    ELSE LET tgt == Last(c.free_pages)
         IN  [c EXCEPT !.free_pages = Front(@),
                       !.blocks[ch].page_ids = Append(@, tgt),
                       !.pages[tgt] = [i \in 0 .. page_size_ - 1 |->
                                         IF i < n THEN c.pages[src][i] ELSE None]]

\* The index in the trace of the block in which position pos lies.
ForkedAt(c, trace, pos) ==
    Min({k \in DOMAIN trace : k = Len(trace)
           \/ TotalOver(LAMBDA b : c.blocks[b].seq_length, SubSeq(trace, 1, k)) > pos})

\* Links block ch below the part of sequence p that ends at pos.
LinkChild(c, p, ch, pos) ==
    LET trace == GetBlockTrace(c, c.seqs[p].last_block_idx)
        k0 == ForkedAt(c, trace, pos)
        forked == trace[k0]
        before == SubSeq(trace, 1, k0 - 1)
        in_block == pos - TotalOver(LAMBDA b : c.blocks[b].seq_length, before)
        in_page == in_block % page_size_
        moved == in_block \div page_size_
        inner == ToSet(before) \cup (IF k0 < Len(trace) THEN {forked} ELSE {})
        checked == Check(c, \A b \in inner : /\ c.blocks[b].seq_length > 0
                                             /\ c.blocks[b].seq_length % page_size_ = 0)
        linked == Then(checked, LAMBDA d : IF moved = 0 THEN ShareParentBlock(d, forked, ch)
                                           ELSE SplitBlock(d, p, forked, ch, moved))
        placed == Then(linked, LAMBDA d : [d EXCEPT !.blocks[ch].start_pos = pos - in_page,
                                                    !.blocks[ch].seq_length = in_page])
    IN  Then(placed, LAMBDA d : IF in_page = 0 THEN d
                                ELSE CopySinglePage(d, d.blocks[forked].page_ids[1], ch, in_page))

DoForkSequence(c, p, ch, pos) ==
    LET atEnd == pos = c.seqs[p].seq_length /\ pos % page_size_ = 0
                   /\ c.blocks[c.seqs[p].last_block_idx].seq_length > 0
        tailed == Then(Check(c, MayFork(c, p, ch, pos)),
                       LAMBDA d : IF atEnd THEN AddTailBlock(d, p) ELSE d)
    IN  Then(tailed, LAMBDA d :
          Then(LinkChild(GetFreeBlock(d), p, FreeBlock(d), pos), LAMBDA e :
            AddToMap(e, ch, FreeBlock(d))))

DoEnableSlidingWindowForSeq(c, s, size, sink) ==
    LET prefix == c.seqs[s].seq_length - c.blocks[c.seqs[s].last_block_idx].seq_length
    IN  [c EXCEPT !.seqs[s].sliding_window_size = size,
                  !.seqs[s].last_block_attn_sink_size = Max2(sink - prefix, 0)]

\* Pops from the blocks at the end that only this sequence uses; rest is what
\* is left to pop when a shared block is reached.
RECURSIVE PopOwnBlocks(_, _, _)
PopOwnBlocks(c, s, n) ==
    LET b == c.seqs[s].last_block_idx
        blk == c.blocks[b]
        keep == Min2(Len(blk.page_ids), CeilDiv(blk.seq_length - n, page_size_))
    IN  IF n = 0 \/ b = NoBlock \/ blk.external_ref_cnt # 1 THEN [c EXCEPT !.rest = n]
        ELSE IF n > blk.seq_length
          THEN Then([ReleaseBlock(c, b) EXCEPT !.seqs[s].seq_length = @ - blk.seq_length,
                                               !.seqs[s].last_block_idx = blk.parent_idx],
                    LAMBDA d : PopOwnBlocks(d, s, n - blk.seq_length))
        ELSE [ReleasePages(c, Reverse(SubSeq(blk.page_ids, keep + 1, Len(blk.page_ids))))
                EXCEPT !.blocks[b].page_ids = SubSeq(@, 1, keep),
                       !.blocks[b].seq_length = @ - n,
                       !.seqs[s].seq_length = @ - n,
                       !.rest = 0]

TempSeqId(s) == <<"temp", s>>   \* -1 - seq_id in the code

RenameSeq(c, from, to) ==
    EraseFromMap([c EXCEPT !.seqs = [x \in DOMAIN @ \cup {to} |-> IF x = to THEN @[from] ELSE @[x]]],
                 from)

DoPopN(c, s, n) ==
    LET ReplaceByFork(d) ==
          Then(DoForkSequence(d, s, TempSeqId(s), d.seqs[s].seq_length - d.rest),
               LAMBDA e : Then(DoRemoveSequence(e, s), LAMBDA f : RenameSeq(f, TempSeqId(s), s)))
    IN  Then(Check(c, s \in DOMAIN c.seqs /\ n \in 0 .. c.seqs[s].seq_length), LAMBDA d :
          Then(PopOwnBlocks(d, s, n), LAMBDA e : IF e.rest = 0 THEN e ELSE ReplaceByFork(e)))

-----------------------------------------------------------------------------
(* The forward pass *)

\* Slides the window of s so that its length is the window size again; pages
\* that it leaves behind return to the free list.  A failed check of this function
\* is reported after all its assignments.
SlideWindowForSequence(c, s) ==
    LET seq == c.seqs[s]
        b == seq.last_block_idx
        slide == seq.seq_length - seq.sliding_window_size
        first == seq.last_block_attn_sink_size > 0 /\ c.blocks[b].sink_length = 0
        blk == IF first
                 THEN [c.blocks[b] EXCEPT !.sink_length = seq.last_block_attn_sink_size,
                                          !.sliding_window_offset = seq.last_block_attn_sink_size]
                 ELSE c.blocks[b]
        sinkPages == CeilDiv(blk.sink_length, page_size_)
        offset == blk.sliding_window_offset + slide
        out == Max2(offset \div page_size_ - sinkPages, 0)
        dead == SubSeq(blk.page_ids, sinkPages + 1, sinkPages + out)
        slid == [blk EXCEPT !.page_ids = SubSeq(@, 1, sinkPages)
                                           \o SubSeq(@, sinkPages + out + 1, Len(@)),
                            !.seq_length = @ - slide,
                            !.sliding_window_offset = offset - out * page_size_]
    IN  IF seq.sliding_window_size = NoWindow \/ ~support_sliding_window_ \/ slide <= 0 THEN c
        ELSE Check([ReleasePages(c, SelectSeq(dead, LAMBDA p : p # kPagedKVCacheTempPageId))
                      EXCEPT !.blocks[b] = slid,
                             !.seqs[s].seq_length = seq.sliding_window_size],
                   /\ first => c.blocks[b].sliding_window_offset = 0
                   /\ sinkPages + out <= Len(blk.page_ids)
                   /\ offset \div page_size_ - out \in {sinkPages - 1, sinkPages}
                   /\ slid.seq_length >= slid.sink_length
                   /\ slid.sliding_window_offset >= slid.sink_length
                   /\ CeilDiv(slid.sliding_window_offset + slid.seq_length - slid.sink_length,
                              page_size_) = Len(slid.page_ids))

\* Gives block b n more pages, the last free ones first.  When they run out, a
\* sequence with a window borrows temporary pages and any other call throws.
TakePages(c, b, n, borrow) ==
    LET take == Min2(n, Len(c.free_pages))
        got == [c EXCEPT !.free_pages = SubSeq(@, 1, Len(@) - take),
                         !.blocks[b].page_ids =
                            @ \o Reverse(SubSeq(c.free_pages, Len(c.free_pages) - take + 1,
                                                Len(c.free_pages)))]
    IN  IF take = n THEN got
        ELSE IF borrow
          THEN [got EXCEPT !.blocks[b].page_ids =
                             @ \o [i \in 1 .. n - take |-> kPagedKVCacheTempPageId]]
        ELSE Throw(got, "full")

\* Mutant: borrowed pages stay.
KeepTempPages(c, b) == c

\* After the slide every borrowed page is replaced by one that became free.
ReplaceTempPages(c, b) ==
    LET Replace(d, i) ==
          IF d.blocks[b].page_ids[i] # kPagedKVCacheTempPageId THEN d
          ELSE IF d.free_pages = << >> THEN Throw(d, "full")
          ELSE [d EXCEPT !.blocks[b].page_ids[i] = Last(d.free_pages), !.free_pages = Front(@)]
    IN  FoldLeftDomain(LAMBDA d, i : Then(d, LAMBDA e : Replace(e, i)), c, c.blocks[b].page_ids)

\* Mutant: the offset of the window is forgotten.
PagesNeededNoWindow(blk, n) == CeilDiv(blk.seq_length + n, page_size_)

PagesNeeded(blk, n) ==
    CeilDiv(blk.seq_length - blk.sink_length + blk.sliding_window_offset + n, page_size_)

ReserveAppendLengthInSeq(c, s, n) ==
    LET b == c.seqs[s].last_block_idx
        blk == c.blocks[b]
        borrow == c.seqs[s].sliding_window_size # NoWindow /\ support_sliding_window_
        Reserve(d) == TakePages(d, b, Max2(PagesNeeded(blk, n) - Len(blk.page_ids), 0), borrow)
        Slide(d) == SlideWindowForSequence([d EXCEPT !.blocks[b].seq_length = @ + n], s)
    IN  Then(Check(c, blk.external_ref_cnt = 1), LAMBDA d :
          Then(Reserve(d), LAMBDA e :
            Then(Slide(e), LAMBDA f :
              IF support_sliding_window_ THEN ReplaceTempPages(f, b) ELSE f)))

\* The slot that the k-th (from 0) of n new tokens of a block is written to; None
\* for a token that slides out of the window before it is ever stored.
AppendSlot(blk, before, n, k) ==
    LET pos == blk.seq_length - n + k
    IN  IF before + k < blk.sink_length THEN Slot(blk, before + k)
        ELSE IF pos < blk.sink_length THEN None
        ELSE Slot(blk, pos)

\* Stores each <<slot, token>> of a sequence of writes.
Write(c, writes) ==
    LET Store(d, w) == IF w[1] = None THEN d ELSE [d EXCEPT !.pages[w[1][1]][w[1][2]] = w[2]]
    IN  FoldLeft(LAMBDA d, w : Then(d, LAMBDA e : Store(e, w)), c, writes)

\* The key/value data computed for the k-th new token of sequence s, told apart
\* by who computed it and for which position.
NewToken(c, s, k) == <<s, c.seqs[s].seq_length + k>>

\* Mutant: depths start at 1.
NodeDepthFromOne(parents, node) ==
    LET depth[k \in 1 .. Len(parents)] == IF parents[k] = 0 THEN 1 ELSE depth[parents[k]] + 1
    IN  depth[node]

\* The depth of a node of a token tree, from 0 at a root; nodes count from 1
\* and 0 stands for the code's -1, "no node".
NodeDepth(parents, node) ==
    LET depth[k \in 1 .. Len(parents)] == IF parents[k] = 0 THEN 0 ELSE depth[parents[k]] + 1
    IN  depth[node]

IsChain(parents) == \A k \in DOMAIN parents : parents[k] = k - 1

\* The first part of BeginForward: the length of each sequence of the batch grows
\* until one is not found.  A batch is a sequence of [id, n, tree], where tree is
\* None, or for every sequence the parent pointers of its n new tokens.
CountNewTokens(c, batch) ==
    LET Grow(d, e) == Then(Check(d, e.id \in DOMAIN d.seqs), LAMBDA x :
                        [x EXCEPT !.seqs[e.id].seq_length = @ + e.n])
    IN  FoldLeft(LAMBDA d, e : Then(d, LAMBDA x : Grow(x, e)), c, batch)

\* A batch without trees: every earlier tree must have been committed.
ResetTrees(c, batch) ==
    LET Reset(d, e) ==
          Then(Check(d, d.seqs[e.id].accepted_indices_committed), LAMBDA x :
            [x EXCEPT !.seqs[e.id].is_chain = TRUE, !.seqs[e.id].token_tree_parent_ptr = << >>])
    IN  FoldLeft(LAMBDA d, e : Then(d, LAMBDA x : Reset(x, e)), c, batch)

\* First every tree is extended by the new nodes and checked, then every sequence
\* is marked as awaiting a commit.
ConstructTokenTreeMask(c, batch) ==
    LET Tree(d, e) == d.seqs[e.id].token_tree_parent_ptr
        Extend(d, e) ==
          Then(Check(d, Len(Tree(d, e)) <= d.blocks[d.seqs[e.id].last_block_idx].seq_length),
            LAMBDA x : Check([x EXCEPT !.seqs[e.id].token_tree_parent_ptr = @ \o e.tree],
                             Len(Tree(d, e)) + e.n <= kTreeAttnMaxTreeSize))
        Mark(d, e) == [d EXCEPT !.seqs[e.id].is_chain = IsChain(Tree(d, e)),
                                !.seqs[e.id].accepted_indices_committed = FALSE]
        extended == FoldLeft(LAMBDA d, e : Then(d, LAMBDA x : Extend(x, e)), c, batch)
    IN  FoldLeft(LAMBDA d, e : Then(d, LAMBDA x : Mark(x, e)), extended, batch)

\* Where each token of the batch goes, the sequences of the batch one after the other.
append_position_map(before, c, batch) ==
    LET LastBlock(d, e) == d.blocks[d.seqs[e.id].last_block_idx]
        Slots(e) == [k \in 1 .. e.n |->
                       AppendSlot(LastBlock(c, e), LastBlock(before, e).seq_length, e.n, k - 1)]
    IN  FlattenSeq([i \in DOMAIN batch |-> Slots(batch[i])])

\* BeginForward and the AttentionWithFusedQKV call that stores the new tokens.
DoForward(c, batch) ==
    LET Settle(d) == IF \A i \in DOMAIN batch : batch[i].tree = None
                       THEN ResetTrees(d, batch) ELSE ConstructTokenTreeMask(d, batch)
        Reserve(d, e) == Then(d, LAMBDA x : ReserveAppendLengthInSeq(x, e.id, e.n))
        reserved == FoldLeft(Reserve, Then(CountNewTokens(c, batch), Settle), batch)
        tokens == FlattenSeq([i \in DOMAIN batch |->
                    [k \in 1 .. batch[i].n |-> NewToken(c, batch[i].id, k)]])
        Writes(d) == LET map == append_position_map(c, d, batch)
                     IN  [k \in DOMAIN map |-> <<map[k], tokens[k]>>]
    IN  Then(reserved, LAMBDA d : Write(d, Writes(d)))

cur_append_lengths_indptr(lengths) ==
    [i \in DOMAIN lengths |-> TotalOver(LAMBDA n : n, SubSeq(lengths, 1, i - 1))]

\* cur_ after the pass over batch that took the cache from before to c.  The ids
\* and the lengths are set before anything can throw, the rest at the end.
LastPass(before, c, batch) ==
    LET lengths == [i \in DOMAIN batch |-> batch[i].n]
        entered == [cur_ EXCEPT !.ids = [i \in DOMAIN batch |-> batch[i].id], !.lengths = lengths]
    IN  IF c.err # "ok" THEN entered
        ELSE [entered EXCEPT !.map = append_position_map(before, c, batch),
                             !.indptr = cur_append_lengths_indptr(lengths)]

\* Mutant: accepted tokens are not moved.
NoCompaction(c, ids, leaves) == c

\* Moves the accepted path of each tree to the front of its new tokens, as
\* the kernel that CompactKVCopy launches does.  The places are those that the
\* last pass gave to its sequence at the same index.  The copies are skipped
\* or made as one, on the flag that the loop over the sequences leaves.
CompactKVCopy(c, ids, leaves) ==
    LET Path(i) == LET parents == c.seqs[ids[i]].token_tree_parent_ptr
                       path[k \in 0 .. Len(parents)] ==
                         IF k = 0 THEN << >> ELSE Append(path[parents[k]], k)
                   IN  path[leaves[i]]
        Moves(i) == SelectSeq([k \in DOMAIN Path(i) |-> [dst |-> k, src |-> Path(i)[k]]],
                              LAMBDA m : m.dst # m.src)
        Place(i, k) == cur_.map[cur_.indptr[i] + k]
        Copies(i) == [j \in DOMAIN Moves(i) |->
                        <<Place(i, Moves(i)[j].dst), ReadSlot(c, Place(i, Moves(i)[j].src))>>]
        inMap == \A i \in DOMAIN ids : Moves(i) # << >> =>
                   i \in DOMAIN cur_.indptr /\ cur_.indptr[i] + Last(Moves(i)).src <= Len(cur_.map)
        is_chain == c.seqs[Last(ids)].is_chain
    IN  IF is_chain THEN c
        ELSE Then(Check(c, inMap), LAMBDA d : Write(d, FlattenSeq([i \in DOMAIN ids |-> Copies(i)])))

\* The tokens to pop are those of the last pass, and so is the sequence they are
\* popped from; the marks that are reset are those of the sequence named.
DoCommit(c, ids, leaves) ==
    LET Commit(d, i) ==
          LET kept == IF leaves[i] = 0 THEN 0
                      ELSE NodeDepth(c.seqs[ids[i]].token_tree_parent_ptr, leaves[i]) + 1
          IN  Then(DoPopN(d, cur_.ids[i], cur_.lengths[i] - kept), LAMBDA e :
                [e EXCEPT !.seqs[ids[i]].accepted_indices_committed = TRUE,
                          !.seqs[ids[i]].token_tree_parent_ptr = << >>])
    IN  FoldLeftDomain(LAMBDA d, i : Then(d, LAMBDA e : Commit(e, i)),
                       CompactKVCopy(c, ids, leaves), ids)

-----------------------------------------------------------------------------
(* The calls *)

LastBlockOf(s) == global_block_pool_[seq_map_[s].last_block_idx]
HasWindow(s) == seq_map_[s].sliding_window_size # NoWindow
Slid(s) == HasWindow(s) /\ LastBlockOf(s).sliding_window_offset > 0
Prefix(s) == seq_map_[s].seq_length - LastBlockOf(s).seq_length
Used(use) == use \in Uses

Init ==
    /\ setup \in Setups
    /\ global_block_pool_ = << >> /\ free_block_idx_ = << >>
    /\ free_page_ids_ = [i \in 1 .. num_total_pages_ |-> num_total_pages_ - i]
    /\ seq_map_ = << >>
    /\ pages_ = [p \in Page |-> EmptyPage]
    /\ cur_ = [ids |-> << >>, lengths |-> << >>, map |-> << >>, indptr |-> << >>]
    /\ raised = "ok" /\ view = << >>

\* A call that ends in state c; the pages run out only for a careless caller.
Call(c) == \E r \in {c} : (r.err = "full" => Used("full")) /\ Return(r)

Clear ==
    /\ global_block_pool_' = << >> /\ free_block_idx_' = << >>
    /\ free_page_ids_' = [i \in 1 .. num_total_pages_ |-> num_total_pages_ - i]
    /\ seq_map_' = << >>
    /\ raised' = "ok" /\ view' = << >>
    /\ UNCHANGED <<setup, pages_, cur_>>

AddSequence(s) ==
    /\ s \notin DOMAIN seq_map_
    /\ Call(DoAddSequence(Cache, s))
    /\ UNCHANGED <<setup, cur_>>

RemoveSequence(s) ==
    /\ s \in DOMAIN seq_map_
    /\ Call(DoRemoveSequence(Cache, s))
    /\ UNCHANGED <<setup, cur_>>

ForkSequence(p, ch, pos) ==
    /\ MayFork(Cache, p, ch, pos)
    /\ Slid(p) /\ pos > Prefix(p) => Used("fork_slid")
    /\ HasWindow(p) /\ pos = seq_map_[p].seq_length /\ pos % page_size_ = 0
         /\ LastBlockOf(p).seq_length > 0 => Used("fork_window_end")
    /\ Call(DoForkSequence(Cache, p, ch, pos))
    /\ UNCHANGED <<setup, cur_>>

EnableSlidingWindowForSeq(s, w) ==
    /\ support_sliding_window_
    /\ s \in DOMAIN seq_map_ /\ ~HasWindow(s)
    /\ Prefix(s) > w[1] => Used("window_on_prefix")
    /\ Call(DoEnableSlidingWindowForSeq(Cache, s, w[1], w[2]))
    /\ UNCHANGED <<setup, cur_>>

PopN(s, n) ==
    /\ s \in DOMAIN seq_map_
    /\ n \in 1 .. seq_map_[s].seq_length
    /\ Slid(s) => Used("pop_slid")
    /\ HasWindow(s) /\ n > LastBlockOf(s).seq_length => Used("pop_window_prefix")
    /\ ~seq_map_[s].accepted_indices_committed => Used("pop_tree")
    /\ Call(DoPopN(Cache, s, n))
    /\ UNCHANGED <<setup, cur_>>

BatchOf(ids, lengths, trees) ==
    [i \in DOMAIN ids |-> [id |-> ids[i], n |-> lengths[i], tree |-> trees[i]]]

Ids == {b \in UNION {[1 .. k -> SeqId] : k \in 1 .. MaxBatch} : IsInjective(b)}

Pass(batch) ==
    \E after \in {DoForward(Cache, batch)} :
      /\ Call(after)
      /\ cur_' = LastPass(Cache, after, batch)
      /\ UNCHANGED setup

Forward(ids, lengths) ==
    /\ (\E i \in DOMAIN ids : \/ ids[i] \notin DOMAIN seq_map_
                              \/ ~seq_map_[ids[i]].accepted_indices_committed)
         => Used("bad_batch")
    /\ Pass(BatchOf(ids, lengths, [i \in DOMAIN ids |-> None]))

\* The trees that n new tokens of sequence s can form or extend.
TreesFor(s, n) ==
    LET m == Len(seq_map_[s].token_tree_parent_ptr)
    IN  {t \in [1 .. n -> 0 .. m + n - 1] : \A k \in 1 .. n : t[k] < m + k}

\* Batches of token trees have one or two sequences.
TreesForBatch(ids, lengths) ==
    IF Len(ids) = 1 THEN {<<t>> : t \in TreesFor(ids[1], lengths[1])}
    ELSE TreesFor(ids[1], lengths[1]) \X TreesFor(ids[2], lengths[2])

\* The pages that a batch without windows takes: TLC asks for them before it
\* computes a pass for each tree.
PagesFor(ids, lengths) ==
    TotalOver(LAMBDA i : Max2(PagesNeeded(LastBlockOf(ids[i]), lengths[i])
                                - Len(LastBlockOf(ids[i]).page_ids), 0),
              [i \in DOMAIN ids |-> i])

ForwardTree(ids, trees) ==
    /\ ~support_sliding_window_
    /\ (\E i \in DOMAIN ids : Len(seq_map_[ids[i]].token_tree_parent_ptr \o trees[i])
                                > kTreeAttnMaxTreeSize)
         => Used("big_tree")
    /\ Pass(BatchOf(ids, [i \in DOMAIN ids |-> Len(trees[i])], trees))

\* The sequences and the leaves are checked, what the last pass was over is not.
\* Calls that name more sequences than the last pass had are left out.
CommitAcceptedTokenTreeNodes(ids, leaves) ==
    LET Tree(i) == seq_map_[ids[i]].token_tree_parent_ptr
        Committed(i) == seq_map_[ids[i]].accepted_indices_committed
        stale == ~IsPrefix(ids, cur_.ids)
        again == \E i \in DOMAIN ids : Committed(i)
    IN  /\ Range(ids) \subseteq DOMAIN seq_map_
        /\ \A i \in DOMAIN ids : /\ Committed(i) => leaves[i] = 0
                                 /\ leaves[i] <= Len(Tree(i))
        /\ stale => Used("stale_commit")
        /\ again => Used("commit_again")
        /\ ~stale /\ ~again /\ (\E i \in DOMAIN ids : Len(Tree(i)) # cur_.lengths[i]) => Used("grown_tree")
        /\ seq_map_[Last(ids)].is_chain /\ (\E i \in DOMAIN ids : ~seq_map_[ids[i]].is_chain)
             => Used("mixed_trees")
        /\ Call(DoCommit(Cache, ids, leaves))
        /\ UNCHANGED <<setup, cur_>>

Next ==
    \/ Clear
    \/ \E s \in SeqId : AddSequence(s) \/ RemoveSequence(s)
    \/ \E p, ch \in SeqId : p \in DOMAIN seq_map_ /\
         \E pos \in 0 .. seq_map_[p].seq_length : ForkSequence(p, ch, pos)
    \/ \E s \in SeqId, w \in Windows : EnableSlidingWindowForSeq(s, w)
    \/ \E s \in DOMAIN seq_map_ : \E n \in 1 .. seq_map_[s].seq_length : PopN(s, n)
    \/ \E ids \in Ids : \E lengths \in [DOMAIN ids -> 1 .. MaxAppend] : Forward(ids, lengths)
    \/ \E ids \in Ids : \E lengths \in [DOMAIN ids -> 1 .. MaxAppend] :
         /\ Range(ids) \subseteq DOMAIN seq_map_ /\ setup.trees
         /\ PagesFor(ids, lengths) > Len(free_page_ids_) => Used("full")
         /\ \E trees \in TreesForBatch(ids, lengths) : ForwardTree(ids, trees)
    \/ \E ids \in {i \in Ids : Len(i) <= Len(cur_.ids) /\ setup.trees} :
         \E leaves \in [DOMAIN ids -> 0 .. kTreeAttnMaxTreeSize] :
           CommitAcceptedTokenTreeNodes(ids, leaves)

Spec == Init /\ [][Next]_vars

-----------------------------------------------------------------------------
(* Properties *)

LiveBlocks == DOMAIN global_block_pool_ \ ToSet(free_block_idx_)

Block == [page_ids : Seq(Page \cup {kPagedKVCacheTempPageId}), seq_length : Nat, start_pos : Nat,
          sink_length : Nat, sliding_window_offset : Nat,
          parent_idx : Nat, external_ref_cnt : Nat]

\* Every field of the page table has its type; lengths and counts never go negative.
TypeOK ==
    /\ \A b \in DOMAIN global_block_pool_ : global_block_pool_[b] \in Block
    /\ free_block_idx_ \in Seq(DOMAIN global_block_pool_)
    /\ free_page_ids_ \in Seq(Page)
    /\ \A s \in DOMAIN seq_map_ : seq_map_[s].seq_length \in Nat
    /\ raised \in {"ok", "full", "check"}

\* Every page is either free or in exactly one live block, exactly once: no call
\* frees a page twice, loses one, or gives one to two blocks ("different blocks
\* do not share pages", attn_utils.h).
PagesPartitioned ==
    LET owned == FlattenSeq([b \in DOMAIN global_block_pool_ |->
                   IF b \in LiveBlocks THEN global_block_pool_[b].page_ids ELSE << >>])
        all == free_page_ids_ \o owned
    IN  Len(all) = num_total_pages_ /\ ToSet(all) = Page

\* The reference count of a block is the number of blocks below it plus the
\* sequences that end in it, no block is freed twice, and no live block is out
\* of reach of every sequence.  With PagesPartitioned it gives what Empty() asks
\* for: once its sequences are removed, the cache has all its pages and blocks back.
RefCountsExact ==
    /\ IsInjective(free_block_idx_)
    /\ \A b \in LiveBlocks :
         LET refs == Cardinality({k \in LiveBlocks : global_block_pool_[k].parent_idx = b})
                       + Cardinality({s \in DOMAIN seq_map_ : seq_map_[s].last_block_idx = b})
         IN  refs > 0 /\ global_block_pool_[b].external_ref_cnt = refs

\* The length kept for a sequence is the sum of the lengths of its blocks, as
\* the declaration of Sequence::seq_length says.
LengthIsSumOfBlocks ==
    \A s \in DOMAIN seq_map_ :
      seq_map_[s].seq_length =
        TotalOver(LAMBDA b : global_block_pool_[b].seq_length,
                  GetBlockTrace(Cache, seq_map_[s].last_block_idx))

\* A block holds exactly the pages its window and its tokens need, it starts where
\* the blocks before it end, and every block with one below it is made of full
\* pages: what ForkSequence and the attention kernels assume of the chain.
BlocksWellFormed ==
    \A b \in LiveBlocks :
      LET blk == global_block_pool_[b]
          up == GetBlockTrace(Cache, blk.parent_idx)
      IN  /\ Len(blk.page_ids) = CeilDiv(blk.sliding_window_offset + blk.seq_length - blk.sink_length,
                                         page_size_)
          /\ blk.start_pos = TotalOver(LAMBDA k : global_block_pool_[k].seq_length, up)
          /\ \A k \in ToSet(up) : global_block_pool_[k].seq_length > 0
                                  /\ global_block_pool_[k].seq_length % page_size_ = 0

\* No check inside a handler fails once the call was accepted.
ChecksHold == raised # "check"

KV == INSTANCE KVStore WITH
        kv <- view,
        window <- [s \in DOMAIN seq_map_ |->
                     IF HasWindow(s) THEN [size |-> seq_map_[s].sliding_window_size,
                                           sink |-> SinkSize(Cache, s)] ELSE None],
        tree <- [s \in DOMAIN seq_map_ |-> seq_map_[s].token_tree_parent_ptr]

\* Read through the page table, every call has the effect that the interface
\* promises on the tokens of the sequences it names, and leaves the tokens of
\* all others alone, however blocks are shared, split, slid, copied and freed.
ImplementsKVStore == KV!Spec

=============================================================================
