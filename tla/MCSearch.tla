------------------------------ MODULE MCSearch ------------------------------
(***************************************************************************)
(* The searches against what they promise, on all arrays of heads up to a  *)
(* length and on all batches.  An array grows entry by entry, each empty   *)
(* or with a larger head than all before; a batch grows element by element.*)
(***************************************************************************)
EXTENDS Search

CONSTANTS
    MaxKey,         \* bound: heads and elements are 1 .. MaxKey
    MaxLength       \* bound: entries of the array

ASSUME BoundsAssumption == MaxKey \in Nat /\ MaxLength \in Nat

VARIABLES heads, batch
vars == <<heads, batch>>

Keys == 1 .. MaxKey
NoHeads == [i \in {} |-> 0]

Init == heads = NoHeads /\ batch = <<>>

AddEntry(k) ==
    /\ batch = <<>>
    /\ size(heads) < MaxLength
    /\ k = 0 \/ \A i \in DOMAIN heads : heads[i] < k
    /\ heads' = [i \in 0 .. size(heads) |-> IF i = size(heads) THEN k ELSE heads[i]]
    /\ UNCHANGED batch

AddElement(k) ==
    /\ heads = NoHeads
    /\ \A i \in 1 .. Len(batch) : batch[i] < k
    /\ batch' = Append(batch, k)
    /\ UNCHANGED heads

Next == (\E k \in Keys \cup {0} : AddEntry(k)) \/ (\E k \in Keys : AddElement(k))
Spec == Init /\ [][Next]_vars
-----------------------------------------------------------------------------
\* The last block of [lower, upper) whose head is at most e, or -1.
LastAtMost(h, e, lower, upper) ==
    LET found == { i \in lower .. upper - 1 : ~empty(h, i) /\ h[i] <= e }
    IN  IF found # {} THEN Max(found) ELSE -1

\* contains, find and the distribution of a batch look for a key in the last block
\* whose head does not exceed it, however empty entries are spread over the array.
ContainingBlockFound ==
    \A e \in Keys : findContainingBlock(heads, e) = LastAtMost(heads, e, 0, size(heads))

\* An insertion task searches from its last block on, which is not empty or lies
\* before a block that takes the element: it finds the block linearSearch finds.
InsertionBlockFound ==
    \A e \in Keys, lower, upper \in 0 .. size(heads) :
        lower < upper /\ (~empty(heads, lower) \/ LastAtMost(heads, e, lower, upper) # -1) =>
            exponentialSearch(heads, e, lower, upper) =
                (IF LastAtMost(heads, e, lower, upper) = -1 THEN lower
                 ELSE LastAtMost(heads, e, lower, upper))

\* The task of a splitter starts at the first batch element that belongs to the
\* block of the splitter or to a later one; with no such element up to the
\* splitter the result is the index behind it.
FirstElementFound ==
    \A start \in 1 .. Len(batch) - 1, key \in Keys \cup {0} :
        findFirstBatchElement(batch, start, key) =
            lower_bound(batch, 0, start + 1, key)

\* Queries, the distribution of a batch and the insertion tasks agree on the block of a
\* key, although the first two search the whole array and the last from their own place.
BlockFound == ContainingBlockFound /\ InsertionBlockFound
=============================================================================
