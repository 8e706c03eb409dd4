---------------------------- MODULE StateHistory ----------------------------
(***************************************************************************)
(* What a recurrent state store promises its callers: every sequence has a *)
(* current state and can be rolled back over its last single-token passes, *)
(* and each call changes the sequences it names and no other.  RNNState is *)
(* shown to implement this module.                                         *)
(***************************************************************************)
EXTENDS Integers

CONSTANTS
    SeqId,       \* the sequence ids a caller may use
    Value,       \* states
    InitValue,   \* the state of a new sequence
    Depth,       \* over how many passes a sequence can be rolled back at most
    MaxAppend    \* the most tokens one pass appends to a sequence

VARIABLES
    back,        \* back[s][k]: the state of sequence s before its last k passes
    length       \* length[s]: the number of tokens of sequence s

vars == <<back, length>>

Active == DOMAIN back

With(f, s, v) == [x \in DOMAIN f \cup {s} |-> IF x = s THEN v ELSE f[x]]
Without(f, s) == [x \in DOMAIN f \ {s} |-> f[x]]

\* How far sequence s can be rolled back.
Available(s) == CHOOSE n \in 0 .. Depth : DOMAIN back[s] = 0 .. n

\* The states of s once a pass of n tokens has left it in state v: one token
\* can be taken back, several tokens at once cannot.
Appended(s, n, v) ==
    [k \in 0 .. (IF n > 1 THEN 0 ELSE IF Available(s) < Depth THEN Available(s) + 1 ELSE Depth) |->
       IF k = 0 THEN v ELSE back[s][k - 1]]

-----------------------------------------------------------------------------

Init == back = << >> /\ length = << >>

Clear == back' = << >> /\ length' = << >>

AddSequence(s) ==
    /\ back' = With(back, s, [k \in 0 .. 0 |-> InitValue])
    /\ length' = With(length, s, 0)

RemoveSequence(s) ==
    /\ back' = Without(back, s)
    /\ length' = Without(length, s)

ForkSequence(p, s) ==
    /\ back' = With(back, s, back[p])
    /\ length' = With(length, s, length[p])

PopN(s, n) ==
    /\ n <= Available(s)
    /\ back' = [back EXCEPT ![s] = [k \in 0 .. Available(s) - n |-> back[s][k + n]]]
    /\ length' = [length EXCEPT ![s] = @ - n]

\* One pass over a batch of sequences.
Advance(appended, states) ==
    /\ back' = [s \in Active |-> IF s \in DOMAIN appended
                                   THEN Appended(s, appended[s], states[s]) ELSE back[s]]
    /\ length' = [s \in Active |-> IF s \in DOMAIN appended
                                     THEN length[s] + appended[s] ELSE length[s]]

Next ==
    \/ Clear
    \/ \E s \in SeqId \ Active : AddSequence(s) \/ \E p \in Active : ForkSequence(p, s)
    \/ \E s \in Active : RemoveSequence(s) \/ \E n \in 0 .. Depth : PopN(s, n)
    \/ \E batch \in SUBSET Active :
         \E appended \in [batch -> 1 .. MaxAppend], states \in [batch -> Value] :
           Advance(appended, states)

Spec == Init /\ [][Next]_vars

=============================================================================
