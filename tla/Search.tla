------------------------------- MODULE Search -------------------------------
(***************************************************************************)
(* The searches of BatchedSparseArray over the heads of the pma blocks     *)
(* (dataStructures/batchedSparseArray.hpp).  The heads are a function h    *)
(* from 0 .. size - 1; 0 is NULL_KEY, the head of an empty entry.  A loop  *)
(* is a recursive function, from the number of its rounds to its state.    *)
(***************************************************************************)
EXTENDS Integers, FiniteSets, Sequences, FiniteSetsExt

CONSTANT BinarySearchCutoff     \* intervals up to this length are searched linearly

ASSUME CutoffAssumption == BinarySearchCutoff \in Nat \ {0}

size(h) == Cardinality(DOMAIN h)
head(h, i) == IF i \in DOMAIN h THEN h[i] ELSE 0
empty(h, i) == head(h, i) = 0

\* The next entry above start that is not empty, or the first one at the limit.
findNext(h, start, upperLimit) ==
    LET found == { i \in start + 1 .. upperLimit - 1 : ~empty(h, i) }
    IN  IF found # {} THEN Min(found)
        ELSE IF start + 1 > upperLimit THEN start + 1 ELSE upperLimit

findPrevious(h, start, lowerLimit) ==
    LET found == { i \in lowerLimit + 1 .. start - 1 : ~empty(h, i) }
    IN  IF found # {} THEN Max(found)
        ELSE IF start - 1 < lowerLimit THEN start - 1 ELSE lowerLimit

\* Mutant: stops before an entry whose head equals e.
linearSearch_Strict(h, e, lower, upper) ==
    LET larger == { i \in lower + 1 .. upper - 1 : ~empty(h, i) /\ h[i] >= e }
    IN  findPrevious(h, IF larger # {} THEN Min(larger)
                        ELSE IF lower + 1 > upper THEN lower + 1 ELSE upper, lower)

\* The loop over findNext stops at the first head above e.
linearSearch(h, e, lower, upper) ==
    LET larger == { i \in lower + 1 .. upper - 1 : ~empty(h, i) /\ h[i] > e }
    IN  findPrevious(h, IF larger # {} THEN Min(larger)
                        ELSE IF lower + 1 > upper THEN lower + 1 ELSE upper, lower)
-----------------------------------------------------------------------------
\* The last entry of left .. mid that is not empty, or one below left.
LastNonEmpty(h, left, mid) ==
    LET found == { i \in left .. mid : ~empty(h, i) }
    IN  IF found # {} THEN Max(found) ELSE left - 1

\* One iteration of a binary search in the inclusive interval [left, right], while
\* that is long: it ends on a head equal to e (hit), or goes on in one part of the
\* interval with the best block seen (candidate).  A step to the right goes behind
\* mid, or only behind the block looked at (fromPrev).
halve(h, e, fromPrev, n) ==
    LET mid == (n.left + n.right) \div 2
        prev == LastNonEmpty(h, n.left, mid)
    IN  IF n.hit \/ n.right - n.left <= BinarySearchCutoff THEN n
        ELSE IF prev < n.left THEN [n EXCEPT !.left = mid + 1]
        ELSE IF h[prev] = e THEN [n EXCEPT !.hit = TRUE, !.candidate = prev]
        ELSE IF e < h[prev] THEN [n EXCEPT !.right = prev - 1]
        ELSE [n EXCEPT !.left = 1 + (IF fromPrev THEN prev ELSE mid), !.candidate = prev]

\* The intervals of the loop; it ends before it has run once per entry.
Halvings(h, e, left, right, fromPrev) ==
    LET after[k \in Nat] ==
            IF k = 0
            THEN [hit |-> FALSE, left |-> left, right |-> right, candidate |-> -1]
            ELSE halve(h, e, fromPrev, after[k - 1])
    IN  after

Narrow(h, e, left, right, fromPrev) ==
    Halvings(h, e, left, right, fromPrev)[right - left + 1]

\* Mutant: the best block found on the way is forgotten.
binarySearch_NoCandidate(h, e, lower, upper) ==
    LET n == Narrow(h, e, lower, upper - 1, FALSE)
    IN  IF n.hit THEN n.candidate ELSE linearSearch(h, e, n.left, upper)

\* The last block of [lower, upper) with head <= e.
binarySearch(h, e, lower, upper) ==
    LET n == Narrow(h, e, lower, upper - 1, FALSE)
        result == linearSearch(h, e, n.left, upper)
    IN  IF n.hit THEN n.candidate
        ELSE IF empty(h, result) \/ (e < h[result] /\ result # lower) THEN n.candidate
        ELSE result

\* The growing steps of exponentialSearch; end moves up in each.
gallop(h, e, upper, g) ==
    IF g.end < upper /\ head(h, g.end) <= e
    THEN [start |-> g.end, end |-> findNext(h, g.end + g.delta, upper), delta |-> 2 * g.delta]
    ELSE g

Gallops(h, e, lower, first, upper) ==
    LET after[k \in Nat] ==
            IF k = 0 THEN [start |-> lower, end |-> first, delta |-> 1]
            ELSE gallop(h, e, upper, after[k - 1])
    IN  after

exponentialSearch(h, e, lower, upper) ==
    LET first == IF lower < upper /\ empty(h, lower) THEN findNext(h, lower, upper)
                 ELSE lower
        g == Gallops(h, e, lower, first, upper)[upper - lower]
    IN  binarySearch(h, e, g.start, IF upper < g.end THEN upper ELSE g.end)

\* The block that has to contain e, or -1 if e is smaller than all heads.
findContainingBlock(h, e) ==
    LET n == Narrow(h, e, 0, size(h) - 1, TRUE)
        result == linearSearch(h, e, n.left, n.right + 1)
    IN  IF n.hit THEN n.candidate
        ELSE IF empty(h, result) \/ e < h[result] THEN n.candidate
        ELSE result

\* The block for e: the first block takes what is smaller than all heads.
findBlockIndex(h, e) ==
    LET containingBlock == findContainingBlock(h, e)
    IN  IF containingBlock = -1 THEN findNext(h, -1, size(h)) ELSE containingBlock
-----------------------------------------------------------------------------
(* The batch is a strictly increasing sequence; its indices start at 0.    *)

element(batch, i) == batch[i + 1]

\* std::lower_bound in [from, to).
lower_bound(batch, from, to, key) ==
    LET found == { i \in from .. to - 1 : element(batch, i) >= key }
    IN  IF found # {} THEN Min(found) ELSE to

\* The growing steps of findFirstBatchElement; current moves down in each.
gallopDown(batch, blockHead, g) ==
    IF g.current > 0 /\ element(batch, g.current) >= blockHead
    THEN [current |-> g.current - 2 * g.delta, delta |-> 2 * g.delta]
    ELSE g

GallopsDown(batch, current, blockHead) ==
    LET after[k \in Nat] ==
            IF k = 0 THEN [current |-> current, delta |-> 1]
            ELSE gallopDown(batch, blockHead, after[k - 1])
    IN  after

\* Mutant: the interval of the binary search ends one element early.
findFirstBatchElement_ShortInterval(batch, startIndex, blockHead) ==
    LET g == GallopsDown(batch, startIndex - 1, blockHead)[startIndex]
        from == IF g.current < 0 THEN 0 ELSE g.current
    IN  lower_bound(batch, from, from + g.delta, blockHead)

findFirstBatchElement(batch, startIndex, blockHead) ==
    LET g == GallopsDown(batch, startIndex - 1, blockHead)[startIndex]
        from == IF g.current < 0 THEN 0 ELSE g.current
    IN  lower_bound(batch, from, from + g.delta + 1, blockHead)
=============================================================================
