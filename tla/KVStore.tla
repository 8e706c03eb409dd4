------------------------------- MODULE KVStore -------------------------------
(***************************************************************************)
(* What the paged key/value cache promises its callers, without pages,     *)
(* blocks or reference counts: every sequence in the cache holds a list of *)
(* tokens, and each call of the interface of src/runtime/vm/kv_state.h has *)
(* its documented effect on the lists it names and on no other.            *)
(* PagedKVCache is shown to implement this module.                         *)
(***************************************************************************)
EXTENDS Naturals, Sequences, Functions, FiniteSetsExt

CONSTANTS
    SeqId,      \* the sequence ids a caller may use
    MaxAppend,  \* the most tokens one forward pass appends to a sequence
    None        \* the window of a sequence that has none

VARIABLES
    kv,         \* kv[s]: the tokens held for sequence s
    window,     \* window[s]: its sliding window, [size, sink], or None
    tree        \* tree[s]: parent pointers (0 for a root) of the speculative
                \* tokens at its end that await a commit, << >> if there are none

vars == <<kv, window, tree>>

Active == DOMAIN kv

\* The key/value data that a forward pass computes for n new tokens of s.
NewTokens(s, n) == [i \in 1 .. n |-> <<s, Len(kv[s]) + i>>]

\* The tokens a window keeps: the pinned first ones and the most recent ones.
Slide(w, toks) ==
    IF w = None \/ Len(toks) <= w.size THEN toks
    ELSE SubSeq(toks, 1, w.sink)
            \o SubSeq(toks, Len(toks) - (w.size - w.sink) + 1, Len(toks))

\* The nodes of a token tree from a root to the given node.
PathTo(parents, node) ==
    LET path[k \in 0 .. Len(parents)] == IF k = 0 THEN << >> ELSE Append(path[parents[k]], k)
    IN  path[node]

Without(f, s) == Restrict(f, DOMAIN f \ {s})
With(f, s, v) == [x \in DOMAIN f \cup {s} |-> IF x = s THEN v ELSE f[x]]

-----------------------------------------------------------------------------

Init == kv = << >> /\ window = << >> /\ tree = << >>

Clear == kv' = << >> /\ window' = << >> /\ tree' = << >>

AddSequence(s) ==
    /\ s \notin Active
    /\ kv' = With(kv, s, << >>)
    /\ window' = With(window, s, None)
    /\ tree' = With(tree, s, << >>)

RemoveSequence(s) ==
    /\ s \in Active
    /\ kv' = Without(kv, s)
    /\ window' = Without(window, s)
    /\ tree' = Without(tree, s)

\* The child starts with the first pos tokens of the parent, and no window.
ForkSequence(p, c, pos) ==
    /\ p \in Active /\ c \notin Active
    /\ tree[p] = << >>
    /\ pos \in 0 .. Len(kv[p])
    /\ kv' = With(kv, c, SubSeq(kv[p], 1, pos))
    /\ window' = With(window, c, None)
    /\ tree' = With(tree, c, << >>)

PopN(s, n) ==
    /\ s \in Active
    /\ n \in 1 .. Len(kv[s])
    /\ kv' = [kv EXCEPT ![s] = SubSeq(@, 1, Len(@) - n)]
    /\ UNCHANGED <<window, tree>>

\* The window is any size and sink: an implementation may pin more tokens than
\* the caller asked for, and decides so at this call, once and for all.
EnableSlidingWindowForSeq(s) ==
    /\ s \in Active
    /\ window[s] = None
    /\ window'[s] # None
    /\ window' = [window EXCEPT ![s] = window'[s]]
    /\ UNCHANGED <<kv, tree>>

\* One forward pass over a batch: every sequence in it gets its new tokens.
Forward(lengths) ==
    /\ DOMAIN lengths \subseteq Active
    /\ \A s \in DOMAIN lengths : tree[s] = << >>
    /\ kv' = [s \in Active |->
                IF s \in DOMAIN lengths
                  THEN Slide(window[s], kv[s] \o NewTokens(s, lengths[s]))
                  ELSE kv[s]]
    /\ UNCHANGED <<window, tree>>

\* A forward pass whose new tokens form, or extend, a speculative token tree.
ForwardTree(trees) ==
    /\ DOMAIN trees \subseteq Active
    /\ kv' = [s \in Active |->
                IF s \in DOMAIN trees THEN kv[s] \o NewTokens(s, Len(trees[s])) ELSE kv[s]]
    /\ tree' = [s \in Active |->
                  IF s \in DOMAIN trees THEN tree[s] \o trees[s] ELSE tree[s]]
    /\ UNCHANGED window

\* Of each tree only the path to the accepted leaf stays; leaf 0 accepts nothing.
CommitAcceptedTokenTreeNodes(leaves) ==
    /\ DOMAIN leaves \subseteq Active
    /\ LET Committed(s) ==
             LET base == Len(kv[s]) - Len(tree[s])
                 path == PathTo(tree[s], leaves[s])
             IN  SubSeq(kv[s], 1, base) \o [i \in 1 .. Len(path) |-> kv[s][base + path[i]]]
       IN  kv' = [s \in Active |-> IF s \in DOMAIN leaves THEN Committed(s) ELSE kv[s]]
    /\ tree' = [s \in Active |-> IF s \in DOMAIN leaves THEN << >> ELSE tree[s]]
    /\ UNCHANGED window


\* The last two disjuncts read the trees off the step that they describe.
Next ==
    \/ Clear
    \/ \E s \in SeqId \ Active : AddSequence(s) \/ \E p \in Active : \E pos \in 0 .. Len(kv[p]) :
                                                     ForkSequence(p, s, pos)
    \/ \E s \in Active : RemoveSequence(s) \/ EnableSlidingWindowForSeq(s)
    \/ DOMAIN kv' = Active /\
         \/ \E s \in Active : \E n \in 1 .. Len(kv[s]) : PopN(s, n)
         \/ \E batch \in SUBSET Active : \E lengths \in [batch -> 1 .. MaxAppend] : Forward(lengths)
         \/ \E batch \in SUBSET Active :
              /\ \A s \in batch : Len(tree'[s]) > Len(tree[s])
              /\ ForwardTree([s \in batch |-> SubSeq(tree'[s], Len(tree[s]) + 1, Len(tree'[s]))])
         \/ \E batch \in SUBSET Active :
              /\ \A s \in batch : tree[s] # << >> /\ tree'[s] = << >>
              /\ \E leaves \in [batch -> 0 .. Max({Len(tree[s]) : s \in batch} \cup {0})] :
                   /\ \A s \in batch : leaves[s] <= Len(tree[s])
                   /\ CommitAcceptedTokenTreeNodes(leaves)

Spec == Init /\ [][Next]_vars

=============================================================================
