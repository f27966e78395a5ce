------------------------------ MODULE Geometry ------------------------------
(***************************************************************************)
(* The index arithmetic of the buffered PMA: intervals (helpers.hpp), the  *)
(* complete binary tree of aggregates over the pma                         *)
(* (binaryRebalancingManager.hpp), its density thresholds                  *)
(* (densityManager.hpp) and the write positions of a rebalance             *)
(* (batchedSparseArray.hpp).  All of it is pure: the state the methods     *)
(* read is passed as an argument.                                          *)
(*                                                                         *)
(* Densities are rationals: the code's doubles differ from them only by    *)
(* rounding.                                                               *)
(***************************************************************************)
EXTENDS Integers

CONSTANTS
    SegmentWidth,       \* AggregateWidth: blocks below one node of level 0
    TauMaxPercent,      \* 100 * maxDensity of the root
    GrowingPercent      \* 100 * growingFactor of a global rebalance

ASSUME GeometryAssumption ==
    /\ SegmentWidth \in Nat \ {0}
    /\ TauMaxPercent \in 1 .. 100
    /\ GrowingPercent \in Nat /\ GrowingPercent > 100
-----------------------------------------------------------------------------
(* Interval: left inclusive, right exclusive.                              *)

Interval(l, r) == [left |-> l, right |-> r]
NullInterval == Interval(0, 0)
length(I) == I.right - I.left
contains(I, i) == I.left <= i /\ i < I.right

Larger(a, b) == IF a > b THEN a ELSE b
Smaller(a, b) == IF a < b THEN a ELSE b

cut(I, J) ==
    LET l == Larger(I.left, J.left)
        r == Smaller(I.right, J.right)
    IN  IF r <= l THEN NullInterval ELSE Interval(l, r)

overlaps(I, J) == cut(I, J) # NullInterval
-----------------------------------------------------------------------------
(* The tree.  A node is a level and the index of the node on that level;   *)
(* level logCapacity + 1 is the super root.                                *)

Node(l, i) == [level |-> l, index |-> i]

parent(i) == i \div 2
leftChild(i) == 2 * i
rightChild(i) == 2 * i + 1

lowestLevelNodeIndex(blockIndex) == blockIndex \div SegmentWidth

\* The powers of two, by doubling.
Pow2[k \in Nat] == IF k = 0 THEN 1 ELSE 2 * Pow2[k - 1]

\* levelAggregateWidths[l], the number of level 0 nodes below a level l node.
levelAggregateWidth(l) == Pow2[l]

\* The nodes that have an aggregate, the super root included.
TreeNodes(logCapacity) ==
    { node \in [level : 0 .. logCapacity, index : 0 .. Pow2[logCapacity] - 1] :
        node.index < Pow2[logCapacity - node.level] }
    \cup { Node(logCapacity + 1, 0) }

\* floor(maxDensity(level, height) * AggregateWidth * levelAggregateWidths[level])
maxBlocks(level, height) ==
    (SegmentWidth * levelAggregateWidth(level)
        * (100 * height - (100 - TauMaxPercent) * level)) \div (100 * height)

minRangeLength(numberOfBlocks) == (numberOfBlocks * GrowingPercent) \div 100

\* The super root covers what the blocks of the root need.
rebalancingRange(node, logCapacity, rootBlocks) ==
    LET width == SegmentWidth * levelAggregateWidth(node.level)
    IN  IF node.level = logCapacity + 1
        THEN Interval(0, minRangeLength(rootBlocks))
        ELSE Interval(node.index * width, (node.index + 1) * width)

\* The strict ancestors of a node, the super root included.
Ancestors(node, logCapacity) ==
    { Node(l, node.index \div Pow2[l - node.level]) :
        l \in node.level + 1 .. logCapacity + 1 }
-----------------------------------------------------------------------------
(* Where a rebalance writes, and which blocks a thread handles.            *)

getDenseWriteIndex(outputStart, blockNumber) == outputStart + blockNumber

getUniformWriteIndex(outputStart, blockNumber, outputLength, numberOfBlocks) ==
    outputStart + (blockNumber * outputLength) \div numberOfBlocks

\* Mutant: the shares are rounded down.
ThreadBlockRange_RoundedDown(thread, numberOfThreads, total) ==
    LET perThread == total \div numberOfThreads
    IN  Interval(thread * perThread, Smaller(total, (thread + 1) * perThread))

\* The blocks of the rebalance that a thread handles, in the numbering of the
\* prefix sums over the tasks; empty when its start lies beyond the total.
ThreadBlockRange(thread, numberOfThreads, total) ==
    LET perThread == total \div numberOfThreads + 1
    IN  Interval(thread * perThread, Smaller(total, (thread + 1) * perThread))
=============================================================================
