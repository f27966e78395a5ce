-------------------------- MODULE BlockSizeManager --------------------------
(***************************************************************************)
(* HierarchicalBlockSizeManager (dataStructures/blockSizeManager.hpp): the *)
(* block sizes of every AggregateWidth entries are summed up in one atomic *)
(* aggregate, so that the elements of a range of entries can be counted    *)
(* fast.  `sizes' is a function from the entries; other entries are empty. *)
(***************************************************************************)
EXTENDS Integers, FiniteSetsExt

CONSTANT AggregateWidth

ASSUME AggregateAssumption == AggregateWidth \in Nat \ {0}

blockSize(sizes, i) == IF i \in DOMAIN sizes THEN sizes[i] ELSE 0

\* The elements of the entries from .. to - 1, counted one by one.
CountElements(sizes, from, to) ==
    MapThenSumSet(LAMBDA i : blockSize(sizes, i), from .. to - 1)

aggregateIndex(blockIndex) == blockIndex \div AggregateWidth

\* The first aggregate that covers nothing in front of blockIndex.
nextAggregate(blockIndex) ==
    IF blockIndex % AggregateWidth = 0 THEN aggregateIndex(blockIndex)
    ELSE aggregateIndex(blockIndex) + 1

getBlockIndex(aggregate) == aggregate * AggregateWidth

\* The elements of the entries left .. right - 1: the aggregates that lie in the
\* range as a whole, and the entries before and behind them.
getNumberOfElements(sizes, aggregates, left, right) ==
    LET start == nextAggregate(left)
        end == aggregateIndex(right)
    IN  IF start < end
        THEN CountElements(sizes, left, getBlockIndex(start))
             + MapThenSumSet(LAMBDA a : aggregates[a], start .. end - 1)
             + CountElements(sizes, getBlockIndex(end), right)
        ELSE CountElements(sizes, left, right)

recompute(sizes, size) ==
    [a \in 0 .. aggregateIndex(size) |->
        CountElements(sizes, getBlockIndex(a), getBlockIndex(a + 1))]

\* Mutant: the sizes are exchanged.
adjustBlockSize_Exchanged(aggregates, blockIndex, oldSize, newSize) ==
    [aggregates EXCEPT ![aggregateIndex(blockIndex)] = @ + oldSize - newSize]

adjustBlockSize(aggregates, blockIndex, oldSize, newSize) ==
    [aggregates EXCEPT ![aggregateIndex(blockIndex)] = @ + newSize - oldSize]

\* The sizes moved over the borders between two aggregates: from border b to the
\* aggregate before it, shifted(b) elements have gone.
MoveOver(aggregates, borders, shifted(_)) ==
    [a \in DOMAIN aggregates |->
        aggregates[a] - (IF a \in borders THEN shifted(a) ELSE 0)
                      + (IF a + 1 \in borders THEN shifted(a + 1) ELSE 0)]

\* Mutant: the border behind the last entry that was shifted is forgotten.
shiftLeft_Short(sizes, aggregates, left, right) ==
    MoveOver(aggregates, aggregateIndex(left) + 1 .. aggregateIndex(right),
             LAMBDA b : blockSize(sizes, getBlockIndex(b) - 1))

\* The blocks of the entries left + 1 .. right + 1 have moved to left .. right.
shiftLeft(sizes, aggregates, left, right) ==
    MoveOver(aggregates, aggregateIndex(left) + 1 .. aggregateIndex(right + 1),
             LAMBDA b : blockSize(sizes, getBlockIndex(b) - 1))

\* The blocks of the entries left - 1 .. right - 1 have moved to left .. right.
shiftRight(sizes, aggregates, left, right) ==
    MoveOver(aggregates, nextAggregate(left) .. aggregateIndex(right),
             LAMBDA b : - blockSize(sizes, getBlockIndex(b)))
=============================================================================
